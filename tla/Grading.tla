------------------------------- MODULE Grading -------------------------------
(***************************************************************************)
(* Grading of one answer, from the document the client saves to the score  *)
(* and the grading status of the attempt.  What stands where a scalar      *)
(* belongs is a string, a literal (a number or a boolean) or null; a field *)
(* that is missing is null too.  Everything is compared as printed by      *)
(* fmt.Sprint, trimmed and in lower case.  Lists and objects in the place  *)
(* of a scalar are left out.                                               *)
(***************************************************************************)
EXTENDS Naturals, FiniteSets, Sequences

CONSTANTS
  Text, Word,       \* strings, and what trimming and lower case make of them
  Folded,           \* the word of each text
  Literal,          \* numbers (float64, as decoded) and booleans
  Written,          \* the word that a person writes for one: 1000000
  Sprinted,         \* the word that fmt.Sprint prints for it: 1e+06
  MaxList, MaxMixed, MaxPairs   \* bounds of the model: entries of a document,
                                \* of a list that holds more than strings

Nil == "<nil>"   \* what fmt.Sprint prints for null

(* fmt.Sprint and people tell the literals apart.                          *)
ASSUME GradingAssumption ==
  /\ {MaxList, MaxMixed, MaxPairs} \subseteq Nat
  /\ Folded \in [Text -> Word]
  /\ \A of \in {Written, Sprinted} :
       /\ of \in [Literal -> Word \ {Nil}]
       /\ \A m, n \in Literal : of[m] = of[n] => m = n

String == [kind : {"string"}, value : Text]
Null   == [kind |-> "null", value |-> Nil]
Scalar == String \cup [kind : {"literal"}, value : Literal] \cup {Null}

Single    == {"single_choice", "true_false"}
Listing   == {"multiple_choice", "ordering"}
Objective == Single \cup Listing \cup {"short_answer", "matching"}
QuestionType == Objective \cup {"essay"}

(* pairs: pairs of a name and a scalar.  order stands in for answers when  *)
(* those are empty.                                                        *)
Blank == [answer |-> Null, answers |-> <<>>, order |-> <<>>, pairs |-> {}]

Lists == UNION {[1..n -> IF n > MaxMixed THEN String ELSE Scalar] : n \in 0..MaxList}

(* A JSON object has each name once, as it is written.                     *)
Pairings ==
  UNION {{{<<s, f[s]>> : s \in names} : f \in [names -> Scalar]} :
           names \in {ss \in SUBSET String : Cardinality(ss) <= MaxPairs}}

(* Documents with the fields that a type of question uses.                 *)
Documents(type) ==
  CASE type \in Single \cup {"short_answer", "essay"} ->
         {[Blank EXCEPT !.answer = s] : s \in Scalar}
    [] type \in Listing ->
         {[Blank EXCEPT !.answers = l] : l \in Lists}
           \cup {[Blank EXCEPT !.order = l] : l \in Lists}
    [] type = "matching" -> {[Blank EXCEPT !.pairs = ps] : ps \in Pairings}

VARIABLES
  question,   \* type, key, accepted_answers, requires_manual_grading
  sheet,      \* answer row: what was graded (empty documents too), its grade
  attemptGrade

gradingVars == <<question, sheet, attemptGrade>>

Points == 2    \* item.Points of the one question

NoSheet == [saved |-> FALSE, empty |-> TRUE, doc |-> Blank, score |-> 0,
            status |-> "none"]

Statuses == {"none", "pending", "auto_graded", "manual_required"}

GradingTypeOK ==
  /\ question.type \in QuestionType
  /\ question.accepted \subseteq Scalar /\ question.manual \in BOOLEAN
  /\ sheet.score \in {0, Points} /\ sheet.status \in Statuses
  /\ attemptGrade \in [score : {0, Points}, status : Statuses]

Ungraded == [score |-> 0, status |-> "none"]

GradingInit ==
  /\ \E type \in QuestionType, manual \in BOOLEAN :
     \E key \in Documents(type),
        accepted \in IF type = "short_answer"
                     THEN {as \in SUBSET Scalar : Cardinality(as) <= 1}
                     ELSE {{}} :
       question = [type |-> type, key |-> key, accepted |-> accepted,
                   manual |-> manual]
  /\ sheet = NoSheet
  /\ attemptGrade = Ungraded

-----------------------------------------------------------------------------
(* Mutant of Normal: capitals and spaces count.                            *)
NormalAsTyped(s) ==
  CASE s.kind = "string"  -> s.value
    [] s.kind = "literal" -> Sprinted[s.value]
    [] s.kind = "null"    -> Nil

(* normalizedScalar: whatever stands there is printed first.               *)
Normal(s) ==
  CASE s.kind = "string"  -> Folded[s.value]
    [] s.kind = "literal" -> Sprinted[s.value]
    [] s.kind = "null"    -> Nil

Words(list) == [i \in DOMAIN list |-> Normal(list[i])]

(* stringSlice of answers, or of order where that is empty.                *)
Listed(doc) == IF doc.answers # <<>> THEN Words(doc.answers)
               ELSE Words(doc.order)

(* Sorted lists are equal when each word occurs as often in both.          *)
SameBag(l, m) ==
  /\ Len(l) = Len(m)
  /\ \A w \in {l[i] : i \in DOMAIN l} \cup {m[i] : i \in DOMAIN m} :
       Cardinality({i \in DOMAIN l : l[i] = w})
         = Cardinality({i \in DOMAIN m : m[i] = w})

(* What normalizedMap may return: of names that become the same word, the  *)
(* one that Go's map iteration comes to last decides.                      *)
Normalized(pairs) ==
  {f \in [{Normal(p[1]) : p \in pairs} -> {Normal(p[2]) : p \in pairs}] :
     \A n \in DOMAIN f : \E p \in pairs : Normal(p[1]) = n /\ Normal(p[2]) = f[n]}

(* The verdicts that GradeObjectiveAnswer may come to on a document.       *)
Verdicts(q, doc) ==
  CASE q.type \in Single -> {Normal(q.key.answer) = Normal(doc.answer)}
    [] q.type = "short_answer" ->
         {\E s \in {q.key.answer} \cup q.accepted : Normal(s) = Normal(doc.answer)}
    [] q.type = "multiple_choice" -> {SameBag(Listed(q.key), Listed(doc))}
    [] q.type = "ordering" -> {Listed(q.key) = Listed(doc)}
    [] q.type = "matching" ->
         {f = g : f \in Normalized(q.key.pairs), g \in Normalized(doc.pairs)}

(* AutosaveAnswer's row for a document; an essay is never graded.          *)
Graded(doc, empty, right) ==
  [saved |-> TRUE, empty |-> empty, doc |-> doc,
   score |-> IF right THEN Points ELSE 0,
   status |-> CASE question.type \in Objective -> "auto_graded"
                [] question.type = "essay" /\ question.manual -> "manual_required"
                [] OTHER -> "pending"]

(* The first save; the grade of a later one is not stored (see Upserted in *)
(* AttemptLifecycle).                                                      *)
SaveAnswer(doc) ==
  /\ ~sheet.saved /\ attemptGrade = Ungraded
  /\ \E right \in IF question.type \in Objective THEN Verdicts(question, doc)
                  ELSE {FALSE} : sheet' = Graded(doc, FALSE, right)
  /\ UNCHANGED <<question, attemptGrade>>

(* An empty object, or none, is a wrong answer to an objective question.   *)
SaveEmpty ==
  /\ ~sheet.saved /\ attemptGrade = Ungraded
  /\ sheet' = Graded(Blank, TRUE, FALSE)
  /\ UNCHANGED <<question, attemptGrade>>

(* finalizeStatus: the exam has manual items when this question is one.    *)
GradeAttempt ==
  /\ attemptGrade = Ungraded
  /\ attemptGrade' =
       [score |-> sheet.score,
        status |-> IF question.manual \/ sheet.status = "manual_required"
                   THEN "manual_required" ELSE "auto_graded"]
  /\ UNCHANGED <<question, sheet>>

GradingNext ==
  \/ \E doc \in Documents(question.type) : SaveAnswer(doc)
  \/ SaveEmpty
  \/ GradeAttempt

GradingSpec == GradingInit /\ [][GradingNext]_gradingVars

-----------------------------------------------------------------------------
(* What is asked: the answer means what the key means.  A literal means    *)
(* what a person writes for it, null means nothing.  Documents are         *)
(* compared by meaning and not by sorting: some way to reorder the options *)
(* chosen gives those of the key; every pair of one is a pair of the other.*)
Meaning(s) == IF s.kind = "string" THEN Folded[s.value] ELSE Written[s.value]

Means(s, t) ==
  s.kind # "null" /\ t.kind # "null" /\ Meaning(s) = Meaning(t)

Entries(doc) == IF doc.answers # <<>> THEN doc.answers ELSE doc.order

AllMean(l, m) == Len(l) = Len(m) /\ \A i \in DOMAIN l : Means(l[i], m[i])

Reorderings(l) ==
  {[i \in DOMAIN l |-> l[f[i]]] :
     f \in {g \in [DOMAIN l -> DOMAIN l] :
              \A i, j \in DOMAIN l : g[i] = g[j] => i = j}}

PairsIn(ps, qs) ==
  \A p \in ps : \E q \in qs : Means(p[1], q[1]) /\ Means(p[2], q[2])

Correct(q, key, doc) ==
  CASE q.type \in Single -> Means(key.answer, doc.answer)
    [] q.type = "short_answer" ->
         \E s \in {key.answer} \cup q.accepted : Means(s, doc.answer)
    [] q.type = "multiple_choice" ->
         \E l \in Reorderings(Entries(doc)) : AllMean(l, Entries(key))
    [] q.type = "ordering" -> AllMean(Entries(doc), Entries(key))
    [] q.type = "matching" -> PairsIn(key.pairs, doc.pairs)
                                /\ PairsIn(doc.pairs, key.pairs)
    [] OTHER -> FALSE

(* Of pairs whose names read alike a reader takes one.                     *)
OneOfEach(ps) ==
  {rs \in SUBSET ps :
     /\ \A p \in ps : \E r \in rs : Means(p[1], r[1])
     /\ \A q, r \in rs : Means(q[1], r[1]) => q = r}

Readings(doc) == {[doc EXCEPT !.pairs = ps] : ps \in OneOfEach(doc.pairs)}

(* Where comparing what is printed is not comparing what is meant: null,   *)
(* a missing field and the string <nil> count as equal; a literal printed  *)
(* otherwise than people write it (a number from a million on, or below a  *)
(* ten thousandth) is not equal to the string that writes it, but to the   *)
(* one that looks like its print.                                          *)
PrintsOddly(s) == s.kind = "literal" /\ Sprinted[s.value] # Written[s.value]

Comparable(s, t) ==
  /\ ~(Normal(s) = Nil /\ Normal(t) = Nil)
  /\ PrintsOddly(s) \/ PrintsOddly(t) => s.kind = t.kind

(* The scalars of a document that grading compares.                        *)
Compared(type, doc) ==
  CASE type \in Listing -> {Entries(doc)[i] : i \in DOMAIN Entries(doc)}
    [] type = "matching" -> {p[2] : p \in doc.pairs}
    [] type = "essay" -> {}
    [] OTHER -> {doc.answer}

AllComparable(q, doc) ==
  \A s \in Compared(q.type, q.key) \cup q.accepted, t \in Compared(q.type, doc) :
    Comparable(s, t)

(* Where print and meaning agree on what is compared, an answer gets the   *)
(* points when it is correct however its names are read, and only when it  *)
(* is correct in one way to read them; for all but matching there is just  *)
(* one.  An empty document gets none.  The attempt gets the answer's       *)
(* points, and is not called graded while a person has to look at it.      *)
PointsAreEarned ==
  LET Reading == Readings(question.key) \X Readings(sheet.doc)
      Earned(r) == Correct(question, r[1], r[2])
  IN
  /\ sheet.score = Points => sheet.saved /\ ~sheet.empty
  /\ sheet.saved /\ ~sheet.empty /\ AllComparable(question, sheet.doc) =>
       /\ (\A r \in Reading : Earned(r)) => sheet.score = Points
       /\ sheet.score = Points => \E r \in Reading : Earned(r)
  /\ attemptGrade # Ungraded =>
       /\ attemptGrade.score = sheet.score
       /\ question.manual => attemptGrade.status = "manual_required"
=============================================================================
