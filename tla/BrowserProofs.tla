--------------------------- MODULE BrowserProofs ----------------------------
(***************************************************************************)
(* Proofs about what the hooks of the browser show: the inputs of forms    *)
(* (FormInputs), for any documents and any way the editor cleans them, any *)
(* instants, texts and time zones, and any number of pushes under way; and *)
(* the charts (Charts, ChartPage), for any sensors and stations, lengths   *)
(* of windows and gaps, and any readings in any order of events.           *)
(*                                                                         *)
(* The forms and the charts share nothing: each part is about a            *)
(* specification of its own.                                               *)
(***************************************************************************)
EXTENDS FormInputs, ChartPage, FiniteSetTheorems, FunctionTheorems, SequenceTheorems,
        WellFoundedInduction, TLAPS

-----------------------------------------------------------------------------
(* The editor                                                              *)

\* What the source and the server have may be written out differently, as
\* they are before the editor has cleaned the first one, but it is the same
\* document; while the editor loads nothing is pending and nothing cleaned.
SameDocument ==
  /\ Clean[body] = Clean[source]
  /\ stage = "loading" => body = source /\ ~pending

EditorInv == EditorTypeOK /\ SameDocument /\ ServerKnows /\ SubmitSendsSeen

\* The editor as it is mounted.
LEMMA EditorInit == EditorMounted => EditorInv
<1> SUFFICES ASSUME EditorMounted PROVE EditorInv
  OBVIOUS
<1>1. /\ sent.stage = "none" /\ sent \in Submission
  BY CleanAssumption DEF EditorMounted, Submission
<1>2. EditorTypeOK /\ SameDocument /\ ServerKnows
  BY <1>1, CleanAssumption DEF EditorMounted, EditorTypeOK, SameDocument, ServerKnows
<1> QED
  BY <1>1, <1>2 DEF EditorInv, SubmitSendsSeen

\* Reporting a cleaned document, or keeping quiet about the one the server
\* has already.
LEMMA FlushKeeps ==
  ASSUME EditorInv, NEW content \in Content, FlushSync(content, TRUE)
  PROVE  /\ source' \in Content /\ body' \in Content
         /\ Clean[body'] = Clean[source'] /\ Clean[body'] = Clean[content]
BY CleanAssumption
DEF EditorInv, EditorTypeOK, SameDocument, FlushSync, SyncSource

\* Every step of the editor.
LEMMA EditorStep == EditorInv /\ EditorNext => EditorInv'
<1> SUFFICES ASSUME EditorInv, EditorNext PROVE EditorInv'
  OBVIOUS
<1> USE DEF EditorInv, EditorTypeOK, SameDocument, ServerKnows, SubmitSendsSeen
<1>1. CASE InitEditor
  BY <1>1, CleanAssumption DEF InitEditor, FlushSync, SyncSource
<1>2. ASSUME NEW content \in Content, Input(content) PROVE EditorInv'
  BY <1>2 DEF Input
<1>3. ASSUME NEW content \in Content, Change(content) PROVE EditorInv'
  BY <1>3, FlushKeeps DEF Change
<1>4. CASE Blur
  BY <1>4, FlushKeeps DEF Blur
<1>5. CASE Scheduled
  <2>1. stage # "loading"
    BY <1>5 DEF Scheduled
  <2> QED
    BY <1>5, <2>1, FlushKeeps DEF Scheduled
<1>6. CASE Validate
  BY <1>6 DEF Validate
<1>7. CASE BeforeSubmit
  <2> DEFINE flushed == IF stage = "ready" THEN Clean[document] ELSE source
  <2>1. flushed \in Content
    BY CleanAssumption
  <2>2. stage = "ready" => Clean[flushed] = Clean[document]
    BY CleanAssumption
  <2>3. Submit(flushed)
    BY <1>7 DEF BeforeSubmit
  <2>4. stage \in {"loading", "ready"}
    BY <2>3 DEF Submit
  <2>5. /\ source' = flushed /\ body' = flushed
        /\ stage' = stage /\ document' = document /\ pending' = pending
        /\ sent'.stage = stage /\ sent'.body = flushed /\ sent'.seen = document
        /\ sent'.known = body /\ sent' \in Submission
    BY <2>1, <2>3, <2>4 DEF Submit, Submission
  <2> QED
    BY <2>1, <2>2, <2>4, <2>5
<1>8. CASE EditorDestroyed
  BY <1>8 DEF EditorDestroyed
<1> QED
  BY <1>1, <1>2, <1>3, <1>4, <1>5, <1>6, <1>7, <1>8 DEF EditorNext

-----------------------------------------------------------------------------
(* The picker                                                              *)

\* What a patch would render is what the form "edit" has pushed last, and a
\* server without a value does not render a date.
LastPushed == form = "edit" =>
  IF pushes = <<>> THEN value = hidden ELSE pushes[Len(pushes)] = hidden

RendersNoDate ==
  /\ value = None => display \notin DateText
  /\ form = "edit" => display = Empty
  /\ form = "jump" => pushes = <<>>

PickerInv == PickerTypeOK /\ ShownIsSent /\ LastPushed /\ RendersNoDate

\* What the texts and the instants are.
LEMMA TextFacts ==
  /\ \A i \in Instant : i # None /\ Shown[i] \in DateText
                        /\ Parsed[Shown[i]] \in Instant
                        /\ Shown[Parsed[Shown[i]]] = Shown[i]
  /\ \A x \in DateText : Parsed[x] \in Instant /\ Shown[Parsed[x]] = x
  /\ DateText \subseteq Texts /\ Empty \in Texts
BY TextAssumption DEF Texts

\* The picker as it is mounted.
LEMMA PickerInit ==
  ASSUME NEW k \in {"jump", "edit"}, PickerMounted(k)
  PROVE  PickerInv
BY TextFacts, TextAssumption
DEF PickerMounted, PickerInv, PickerTypeOK, ShownIsSent, LastPushed,
    RendersNoDate, Texts, Value

\* Whatever the viewer does ends with the hidden input set, and pushed by
\* the form "edit".
LEMMA SetKeeps ==
  ASSUME PickerInv, NEW v \in Value, SetHiddenValue(v)
  PROVE  /\ hidden' = v /\ pushes' \in Seq(Value)
         /\ form = "jump" => pushes' = <<>>
         /\ form = "edit" => pushes' # <<>> /\ pushes'[Len(pushes')] = v
BY DEF PickerInv, PickerTypeOK, RendersNoDate, SetHiddenValue

\* A text in the input.
LEMMA InputKeeps ==
  ASSUME PickerInv, NEW x \in Texts, SyncFromInput(x)
  PROVE  /\ text' = x /\ selected' \in Value /\ hidden' \in Value
         /\ ShownIsSent' /\ SetHiddenValue(hidden')
<1>1. selected' = ParseDisplay(x) /\ hidden' = FormatCanonical(selected')
  BY DEF SyncFromInput, SetHiddenValue
<1>2. CASE x \in DateText
  BY <1>1, <1>2, TextFacts
  DEF SyncFromInput, ParseDisplay, FormatCanonical, SetHiddenValue, ShownIsSent, Value
<1>3. CASE x \notin DateText
  BY <1>1, <1>3
  DEF SyncFromInput, ParseDisplay, FormatCanonical, SetHiddenValue, ShownIsSent, Value
<1> QED
  BY <1>2, <1>3

\* A date that is picked.
LEMMA DatesKeep ==
  ASSUME PickerInv, NEW i \in Instant, SyncFromSelectedDates(i)
  PROVE  /\ text' \in Texts /\ selected' \in Value /\ hidden' \in Value
         /\ ShownIsSent' /\ SetHiddenValue(hidden')
BY TextFacts
DEF SyncFromSelectedDates, FormatCanonical, SetHiddenValue, ShownIsSent, Value

\* A step of the viewer that leaves the server's values alone.
LEMMA ViewerKeeps ==
  ASSUME PickerInv, UNCHANGED <<form, value, display>>,
         text' \in Texts, selected' \in Value, hidden' \in Value,
         ShownIsSent', SetHiddenValue(hidden')
  PROVE  PickerInv'
<1>1. /\ pushes' \in Seq(Value)
      /\ form = "jump" => pushes' = <<>>
      /\ form = "edit" => pushes' # <<>> /\ pushes'[Len(pushes')] = hidden'
  BY SetKeeps
<1> QED
  BY <1>1 DEF PickerInv, PickerTypeOK, LastPushed, RendersNoDate

\* The form "jump" is submitted.
LEMMA SubmitKeeps ==
  ASSUME PickerInv, NEW i \in Instant, SubmitJump(i)
  PROVE  PickerInv'
<1>1. /\ text' = text /\ selected' \in Value /\ hidden' \in Value
      /\ ShownIsSent' /\ SetHiddenValue(hidden') /\ form' = "jump" /\ form = "jump"
  BY InputKeeps DEF SubmitJump, PickerInv, PickerTypeOK
<1>2. pushes' = <<>>
  BY <1>1, SetKeeps
<1>3. CASE hidden' = None
  <2>1. value' = None /\ display' = text /\ text \notin DateText
    BY <1>1, <1>3 DEF SubmitJump, ShownIsSent
  <2> QED
    BY <1>1, <1>2, <2>1 DEF PickerInv, PickerTypeOK, LastPushed, RendersNoDate, Value
<1>4. CASE hidden' # None
  <2>1. value' \in Instant /\ display' = UtcText[value']
    BY <1>1, <1>4 DEF SubmitJump, Value
  <2>2. value' # None /\ display' \in Texts
    BY <2>1, TextAssumption DEF Texts
  <2> QED
    BY <1>1, <1>2, <2>1, <2>2
    DEF PickerInv, PickerTypeOK, LastPushed, RendersNoDate, Value
<1> QED
  BY <1>3, <1>4

\* Every step of the picker.
LEMMA PickerStepKeeps == PickerInv /\ PickerNext => PickerInv'
<1> SUFFICES ASSUME PickerInv, PickerNext PROVE PickerInv'
  OBVIOUS
<1>1. ASSUME NEW x \in Texts, Type(x) \/ Close(x) PROVE PickerInv'
  BY <1>1, InputKeeps, ViewerKeeps DEF Type, Close
<1>2. ASSUME NEW x \in DateText, Pick(x) PROVE PickerInv'
  BY <1>2, TextFacts, DatesKeep, ViewerKeeps DEF Pick
<1>3. ASSUME NEW i \in Instant, SubmitJump(i) PROVE PickerInv'
  BY <1>3, SubmitKeeps
<1>4. ASSUME NEW i \in Instant, ServerMoves(i) PROVE PickerInv'
  <2>1. i # None /\ UtcText[i] \in Texts
    BY TextAssumption DEF Texts
  <2> QED
    BY <1>4, <2>1
    DEF ServerMoves, PickerInv, PickerTypeOK, ShownIsSent, LastPushed,
        RendersNoDate, inputVars, Value
<1>5. CASE UpdateEditForm
  <2>1. /\ form = "edit" /\ pushes \in Seq(Value) /\ pushes # <<>>
        /\ value' = Head(pushes) /\ pushes' = Tail(pushes)
        /\ UNCHANGED <<form, text, selected, hidden, display>>
    BY <1>5
    DEF UpdateEditForm, PickerInv, PickerTypeOK, RendersNoDate, inputVars
  <2>2. value' \in Value /\ pushes' \in Seq(Value)
    BY <2>1
  <2>3. LastPushed'
    <3>0. /\ Len(pushes) \in Nat \ {0} /\ Len(pushes') = Len(pushes) - 1
          /\ \A n \in 1..Len(pushes') : pushes'[n] = pushes[n + 1]
          /\ value' = pushes[1] /\ pushes[Len(pushes)] = hidden
      BY <2>1 DEF PickerInv, LastPushed
    <3>1. CASE Len(pushes) = 1
      BY <2>1, <2>2, <3>0, <3>1 DEF LastPushed
    <3>2. CASE Len(pushes) # 1
      <4>1. Len(pushes') \in 1..Len(pushes') /\ pushes' # <<>>
        BY <3>0, <3>2, <2>2
      <4>2. pushes'[Len(pushes')] = hidden
        BY <3>0, <4>1
      <4> QED
        BY <2>1, <4>1, <4>2 DEF LastPushed
    <3> QED
      BY <3>1, <3>2
  <2>4. RendersNoDate'
    BY <2>1, TextAssumption DEF PickerInv, RendersNoDate
  <2> QED
    BY <2>1, <2>2, <2>3, <2>4 DEF PickerInv, PickerTypeOK, ShownIsSent
<1>6. CASE Updated
  BY <1>6, TextFacts
  DEF Updated, ApplyServerState, PickerInv, PickerTypeOK, ShownIsSent, LastPushed,
      RendersNoDate, Value
<1> QED
  BY <1>1, <1>2, <1>3, <1>4, <1>5, <1>6 DEF PickerNext

-----------------------------------------------------------------------------
(* The pages with a form                                                   *)

FormInv == EditorInv /\ PickerInv

\* Both inputs as a page opens ...
LEMMA FormInvInit == FormInit => FormInv
<1> SUFFICES ASSUME FormInit PROVE FormInv
  OBVIOUS
<1>1. PickerInv
  BY PickerInit DEF FormInit
<1> QED
  BY <1>1, EditorInit DEF FormInit, FormInv

\* ... and in every step.
LEMMA FormInvNext == FormInv /\ [FormNext]_formVars => FormInv'
<1> SUFFICES ASSUME FormInv, [FormNext]_formVars PROVE FormInv'
  OBVIOUS
<1>1. UNCHANGED editorVars => EditorInv'
  BY DEF FormInv, EditorInv, EditorTypeOK, SameDocument, ServerKnows, SubmitSendsSeen,
         editorVars
<1>2. UNCHANGED pickerVars => PickerInv'
  BY DEF FormInv, PickerInv, PickerTypeOK, ShownIsSent, LastPushed, RendersNoDate,
         pickerVars, inputVars
<1> QED
  BY <1>1, <1>2, EditorStep, PickerStepKeeps
  DEF FormInv, FormNext, ArticleStep, PickerStep, formVars

\* Both inputs stay well typed.
THEOREM FormTyping == FormSpec => []FormTypeOK
<1>1. FormInv => FormTypeOK
  BY DEF FormInv, FormTypeOK, EditorInv, PickerInv
<1> QED
  BY <1>1, FormInvInit, FormInvNext, PTL DEF FormSpec

\* A form sends what its viewer sees, for any texts, instants and documents,
\* once its editor is loaded; before, it sends what the server has.
THEOREM SendsShown == FormSpec => []FormSendsShown
<1>1. FormInv => FormSendsShown
  BY DEF FormInv, FormSendsShown, EditorInv, PickerInv
<1> QED
  BY <1>1, FormInvInit, FormInvNext, PTL DEF FormSpec

\* No patch of the page takes a change of the form "edit" back, however many
\* pushes there were before it.
THEOREM EditsSurvive == FormSpec => EditsSurvivePatch
<1>1. FormInv /\ [FormNext]_formVars => [Updated /\ form = "edit" => hidden' = hidden]_pickerVars
  BY DEF FormInv, PickerInv, LastPushed, Updated, ApplyServerState
<1> QED
  BY <1>1, FormInvInit, FormInvNext, PTL DEF FormSpec, EditsSurvivePatch

-----------------------------------------------------------------------------
(* Finite sets of numbers in their order                                   *)

\* The place of a member: how many smaller ones there are.
Rank(S, t) == Cardinality({u \in S : u < t})

\* A later member has a higher rank.
LEMMA RankGrows ==
  ASSUME NEW S, S \subseteq Int, IsFiniteSet(S), NEW t \in S, NEW v \in S, t < v
  PROVE  Rank(S, t) < Rank(S, v)
<1> DEFINE T == {u \in S : u < t}  V == {u \in S : u < v}
<1>1. IsFiniteSet(V) /\ IsFiniteSet(T)
  BY FS_Subset
<1>2. T \subseteq V /\ t \in V /\ t \notin T
  <2>1. \A u \in T : u \in Int /\ t \in Int /\ v \in Int
    OBVIOUS
  <2>2. \A u \in T : u < v
    BY <2>1
  <2>3. t \in Int /\ ~ t < t
    OBVIOUS
  <2> QED
    BY <2>2, <2>3
<1>3. Cardinality(T) <= Cardinality(V) /\ Cardinality(V) # Cardinality(T)
  BY <1>1, <1>2, FS_Subset
<1>4. Cardinality(T) \in Nat /\ Cardinality(V) \in Nat
  BY <1>1, FS_CardinalityType
<1> QED
  BY <1>3, <1>4 DEF Rank

\* A rank is a number below the number of the members.
LEMMA RankBounds ==
  ASSUME NEW S, S \subseteq Int, IsFiniteSet(S), NEW t \in S
  PROVE  Rank(S, t) \in 0..Cardinality(S) - 1
<1> DEFINE T == {u \in S : u < t}
<1>1. IsFiniteSet(T) /\ T \in SUBSET S /\ t \in S \ T
  BY FS_Subset
<1>2. Cardinality(T) <= Cardinality(S) /\ Cardinality(S) # Cardinality(T)
  BY <1>1, FS_Subset
<1>3. Cardinality(T) \in Nat /\ Cardinality(S) \in Nat
  BY <1>1, FS_CardinalityType
<1> QED
  BY <1>2, <1>3 DEF Rank

\* Every place is taken: the ranks are as many as the members.
LEMMA RankTaken ==
  ASSUME NEW S, S \subseteq Int, IsFiniteSet(S), NEW k \in 0..Cardinality(S) - 1
  PROVE  \E t \in S : Rank(S, t) = k
<1> DEFINE n == Cardinality(S)
           f == [t \in S |-> Rank(S, t)]
<1>1. n \in Nat
  BY FS_CardinalityType
<1>2. f \in [S -> 0..n - 1]
  BY RankBounds
<1>3. f \in Injection(S, 0..n - 1)
  <2>1. ASSUME NEW t \in S, NEW v \in S, f[t] = f[v] PROVE t = v
    <3>1. Rank(S, t) = Rank(S, v)
      BY <2>1
    <3>2. Rank(S, t) \in 0..n - 1
      BY RankBounds
    <3>3. (t < v => Rank(S, t) < Rank(S, v)) /\ (v < t => Rank(S, v) < Rank(S, t))
      BY RankGrows
    <3>4. t \in Int /\ v \in Int
      OBVIOUS
    <3> HIDE DEF n
    <3> QED
      BY <1>1, <3>1, <3>2, <3>3, <3>4
  <2> QED
    BY <1>2, <2>1 DEF Injection, IsInjective
<1>4. IsFiniteSet(0..n - 1) /\ Cardinality(0..n - 1) = n
  BY <1>1, FS_Interval
<1>5. f \in Surjection(S, 0..n - 1)
  BY <1>3, <1>4, FS_Injection
<1> QED
  BY <1>1, <1>5 DEF Surjection

\* A finite set of numbers in its order: each of its members once, the
\* smaller before the larger.
LEMMA AscendingIsOrder ==
  ASSUME NEW S, S \subseteq Int, IsFiniteSet(S)
  PROVE  /\ Cardinality(S) \in Nat
         /\ Ascending(S) \in [1..Cardinality(S) -> S]
         /\ \A i, j \in 1..Cardinality(S) : i < j => Ascending(S)[i] < Ascending(S)[j]
         /\ \A t \in S : \E i \in 1..Cardinality(S) : Ascending(S)[i] = t
<1> DEFINE n == Cardinality(S)
           f == Ascending(S)
<1>1. n \in Nat
  BY FS_CardinalityType
<1>2. ASSUME NEW i \in 1..n PROVE f[i] \in S /\ Rank(S, f[i]) = i - 1
  <2>1. i - 1 \in 0..n - 1
    BY <1>1
  <2>2. \E t \in S : Cardinality({u \in S : u < t}) = i - 1
    BY <2>1, RankTaken DEF Rank
  <2>3. f[i] = CHOOSE t \in S : Cardinality({u \in S : u < t}) = i - 1
    BY DEF Ascending
  <2> QED
    BY <2>2, <2>3 DEF Rank
<1>3. f \in [1..n -> S]
  BY <1>2 DEF Ascending
<1> HIDE DEF n, f
<1>4. ASSUME NEW i \in 1..n, NEW j \in 1..n, i < j PROVE f[i] < f[j]
  <2>1. f[i] \in S /\ f[j] \in S
    BY <1>2
  <2>2. Rank(S, f[i]) = i - 1 /\ Rank(S, f[j]) = j - 1
    BY <1>2
  <2>3. f[j] < f[i] => Rank(S, f[j]) < Rank(S, f[i])
    BY <2>1, RankGrows
  <2>4. f[i] \in Int /\ f[j] \in Int
    BY <2>1
  <2>5. i \in Int /\ j \in Int
    BY <1>1
  <2> QED
    BY <1>4, <2>2, <2>3, <2>4, <2>5
<1>5. ASSUME NEW t \in S PROVE \E i \in 1..n : f[i] = t
  <2> DEFINE i == Rank(S, t) + 1
  <2>1. i \in 1..n /\ Rank(S, t) \in Int
    <3>1. Rank(S, t) \in 0..n - 1
      BY RankBounds DEF n
    <3> QED
      BY <1>1, <3>1
  <2>2. Rank(S, f[i]) = Rank(S, t) /\ f[i] \in S
    BY <2>1, <1>2
  <2>3. f[i] < t => Rank(S, f[i]) < Rank(S, t)
    BY <2>2, RankGrows
  <2>4. t < f[i] => Rank(S, t) < Rank(S, f[i])
    BY <2>2, RankGrows
  <2>5. f[i] \in Int /\ t \in Int
    BY <2>2
  <2> HIDE DEF i
  <2> QED
    BY <2>1, <2>2, <2>3, <2>4, <2>5
<1> QED
  BY <1>1, <1>3, <1>4, <1>5 DEF n, f

\* The least and the greatest one of finitely many numbers.
LEMMA MinMaxOfFinite ==
  ASSUME NEW S, S \subseteq Int, IsFiniteSet(S), S # {}
  PROVE  /\ Min(S) \in S /\ \A t \in S : Min(S) <= t
         /\ Max(S) \in S /\ \A t \in S : t <= Max(S)
<1> DEFINE n == Cardinality(S)
           f == Ascending(S)
<1>1. n \in Nat /\ f \in [1..n -> S]
  BY AscendingIsOrder
<1>2. \A i, j \in 1..n : i < j => f[i] < f[j]
  BY AscendingIsOrder
<1>3. \A t \in S : \E i \in 1..n : f[i] = t
  BY AscendingIsOrder
<1>4. n # 0
  BY FS_EmptySet
<1> HIDE DEF f, n
<1>5. 1 \in 1..n /\ n \in 1..n /\ \A i \in 1..n : f[i] \in Int
  <2>1. \A i \in 1..n : f[i] \in S
    BY <1>1
  <2>2. \A i \in 1..n : f[i] \in Int
    BY <2>1
  <2> QED
    BY <1>1, <1>4, <2>2
<1>6. ASSUME NEW t \in S PROVE f[1] <= t /\ t <= f[n]
  <2>1. PICK i \in 1..n : f[i] = t
    BY <1>3
  <2>2. i = 1 \/ 1 < i
    BY <1>1
  <2>3. i = n \/ i < n
    BY <1>1
  <2>4. f[1] \in Int /\ f[n] \in Int /\ f[i] \in Int
    BY <1>5
  <2> QED
    BY <1>2, <1>5, <2>1, <2>2, <2>3, <2>4
<1>7. \E x \in S : \A y \in S : x =< y
  BY <1>1, <1>5, <1>6
<1>8. \E x \in S : \A y \in S : x >= y
  <2>1. \A y \in S : f[n] >= y
    BY <1>5, <1>6
  <2> QED
    BY <1>1, <1>5, <2>1
<1>9. Min(S) \in S /\ \A t \in S : Min(S) <= t
  BY <1>7 DEF Min
<1>10. Max(S) \in S /\ \A t \in S : t <= Max(S)
  BY <1>8 DEF Max
<1> QED
  BY <1>9, <1>10

\* Some natural numbers have a least one.
LEMMA LeastOfNaturals ==
  ASSUME NEW S \in SUBSET Nat, S # {}
  PROVE  \E m \in S : \A n \in S : m <= n
<1> DEFINE R == OpToRel(<, Nat)
<1>1. \A m, n \in Nat : n < m => <<n, m>> \in R
  BY DEF OpToRel
<1>2. IsWellFoundedOn(R, Nat)
  BY NatLessThanWellFounded
<1> HIDE DEF R
<1>3. PICK m \in S : \A n \in S : ~ (<<n, m>> \in R)
  BY <1>2, WFMin
<1>4. \A n \in S : ~ n < m
  BY <1>1, <1>3
<1> QED
  BY <1>4

\* Pairwise, where InOrder of ChartPage compares neighbours.
Ordered(data) == \A i, j \in 1..Len(data) : i < j => data[i] <= data[j]

\* From index l on, up to h, r is the first that is not below x.
IsFirst(data, x, l, h, r) ==
  /\ r \in l..h
  /\ \A j \in l..r - 1 : data[j + 1] < x
  /\ r < h => data[r + 1] >= x

\* There is a first one that is not below x ...
LEMMA FirstExists ==
  ASSUME NEW data \in Seq(Int), NEW x \in Int,
         NEW l \in 0..Len(data), NEW h \in l..Len(data)
  PROVE  \E r \in l..h : IsFirst(data, x, l, h, r)
<1> DEFINE S == {j \in l..h : j = h \/ data[j + 1] >= x}
<1>1. S \subseteq Nat /\ h \in S
  OBVIOUS
<1>2. PICK r \in S : \A j \in S : r <= j
  BY <1>1, LeastOfNaturals
<1>3. r \in l..h /\ (r < h => data[r + 1] >= x)
  OBVIOUS
<1>4. ASSUME NEW j \in l..r - 1 PROVE data[j + 1] < x
  <2>1. j \in l..h /\ j < r /\ j # h
    BY <1>3
  <2>2. j \notin S
    BY <1>2, <2>1
  <2>3. ~ data[j + 1] >= x
    BY <2>1, <2>2
  <2>4. data[j + 1] \in Int
    BY <2>1
  <2> QED
    BY <2>3, <2>4
<1> QED
  BY <1>3, <1>4 DEF IsFirst

\* ... and only one.
LEMMA FirstIsOne ==
  ASSUME NEW data \in Seq(Int), NEW x \in Int,
         NEW l \in 0..Len(data), NEW h \in l..Len(data),
         NEW r, NEW q, IsFirst(data, x, l, h, r), IsFirst(data, x, l, h, q)
  PROVE  r = q
<1>1. r \in l..h /\ q \in l..h
  BY DEF IsFirst
<1>2. CASE r < q
  <2>1. data[r + 1] < x /\ data[r + 1] >= x /\ data[r + 1] \in Int
    BY <1>1, <1>2 DEF IsFirst
  <2> QED
    BY <2>1
<1>3. CASE q < r
  <2>1. data[q + 1] < x /\ data[q + 1] >= x /\ data[q + 1] \in Int
    BY <1>1, <1>3 DEF IsFirst
  <2> QED
    BY <2>1
<1> QED
  BY <1>1, <1>2, <1>3

\* Halving keeps the first one, if the readings are in order.
LEMMA FirstInHalf ==
  ASSUME NEW data \in Seq(Int), Ordered(data), NEW x \in Int,
         NEW l \in 0..Len(data), NEW h \in 0..Len(data), l < h,
         NEW mid, mid = (l + h) \div 2
  PROVE  /\ mid \in l..h - 1 /\ mid + 1 \in 0..Len(data) /\ mid \in 0..Len(data)
         /\ \A r : data[mid + 1] < x =>
              (IsFirst(data, x, mid + 1, h, r) => IsFirst(data, x, l, h, r))
         /\ \A r : ~ data[mid + 1] < x =>
              (IsFirst(data, x, l, mid, r) => IsFirst(data, x, l, h, r))
<1>1. mid \in l..h - 1
  BY DEF Ordered
<1>2. mid + 1 \in 0..Len(data) /\ mid \in 0..Len(data) /\ mid + 1 \in 1..Len(data)
  BY <1>1
<1>3. ASSUME NEW r, data[mid + 1] < x, IsFirst(data, x, mid + 1, h, r)
      PROVE  IsFirst(data, x, l, h, r)
  <2>1. r \in l..h /\ r \in mid + 1..h
    BY <1>1, <1>3 DEF IsFirst
  <2>2. ASSUME NEW j \in l..r - 1 PROVE data[j + 1] < x
    <3>1. CASE j > mid
      BY <1>1, <1>3, <3>1, <2>1 DEF IsFirst
    <3>2. CASE j <= mid
      <4>1. j + 1 \in 1..Len(data) /\ (j + 1 = mid + 1 \/ j + 1 < mid + 1)
        BY <1>1, <1>2, <3>2
      <4>2. data[j + 1] <= data[mid + 1] \/ j + 1 = mid + 1
        BY <1>2, <4>1 DEF Ordered
      <4>3. data[j + 1] \in Int /\ data[mid + 1] \in Int
        BY <1>2, <4>1
      <4> QED
        BY <1>3, <4>2, <4>3
    <3> QED
      BY <1>1, <2>1, <3>1, <3>2
  <2> QED
    BY <1>3, <2>1, <2>2 DEF IsFirst
<1>4. ASSUME NEW r, ~ data[mid + 1] < x, IsFirst(data, x, l, mid, r)
      PROVE  IsFirst(data, x, l, h, r)
  <2>1. r \in l..h /\ r \in l..mid
    BY <1>1, <1>4 DEF IsFirst
  <2>2. data[mid + 1] >= x
    BY <1>2, <1>4
  <2>3. data[r + 1] >= x
    BY <1>1, <1>4, <2>1, <2>2 DEF IsFirst
  <2> QED
    BY <1>4, <2>1, <2>3 DEF IsFirst
<1> QED
  BY <1>1, <1>2, <1>3, <1>4

\* The parts of the readings a search may be left with.
Halves(data) == (0..Len(data)) \X (0..Len(data))

\* What one call of the search does of the results of the others.
Search(f, data, x, r) ==
  IF r[1] >= r[2] THEN r[1]
  ELSE LET mid == (r[1] + r[2]) \div 2
       IN IF data[mid + 1] < x THEN f[<<mid + 1, r[2]>>] ELSE f[<<r[1], mid>>]

\* One call, with its parts named.
LEMMA SearchCases ==
  ASSUME NEW f, NEW data \in Seq(Int), NEW x, NEW l \in 0..Len(data), NEW h \in 0..Len(data)
  PROVE  Search(f, data, x, <<l, h>>) =
           IF l >= h THEN l
           ELSE IF data[(l + h) \div 2 + 1] < x THEN f[<<(l + h) \div 2 + 1, h>>]
                                                ELSE f[<<l, (l + h) \div 2>>]
BY DEF Search

First(data, x, l, h) == CHOOSE r : IsFirst(data, x, l, h, r)

\* The first one, as a function of the part.
Found(data, x, l, h) == IF l >= h THEN l ELSE First(data, x, l, h)

\* What Found names is the first one of a part.
LEMMA FoundIsFirst ==
  ASSUME NEW data \in Seq(Int), NEW x \in Int,
         NEW l \in 0..Len(data), NEW h \in l..Len(data)
  PROVE  IsFirst(data, x, l, h, Found(data, x, l, h))
<1>1. CASE l = h
  BY <1>1 DEF Found, IsFirst
<1>2. CASE l < h
  <2>1. \E r : IsFirst(data, x, l, h, r)
    BY FirstExists
  <2>2. IsFirst(data, x, l, h, First(data, x, l, h))
    BY <2>1 DEF First
  <2>3. Found(data, x, l, h) = First(data, x, l, h)
    BY <1>2 DEF Found
  <2> QED
    BY <2>2, <2>3
<1> QED
  BY <1>1, <1>2

\* The first one of a part is the first one of one of its halves: Found does
\* what one call of the search does.
LEMMA FoundByHalving ==
  ASSUME NEW data \in Seq(Int), Ordered(data), NEW x \in Int,
         NEW l \in 0..Len(data), NEW h \in 0..Len(data)
  PROVE  Found(data, x, l, h) =
           IF l >= h THEN l
           ELSE IF data[(l + h) \div 2 + 1] < x
                THEN Found(data, x, (l + h) \div 2 + 1, h)
                ELSE Found(data, x, l, (l + h) \div 2)
<1>1. CASE l >= h
  BY <1>1 DEF Found
<1>2. CASE l < h
  <2>1. PICK mid : mid = (l + h) \div 2
    OBVIOUS
  <2>2. mid \in l..h - 1 /\ mid + 1 \in 0..Len(data) /\ mid \in 0..Len(data)
    BY <1>2, <2>1, FirstInHalf
  <2>3. IsFirst(data, x, l, h, Found(data, x, l, h))
    BY <1>2, FoundIsFirst
  <2>4. data[mid + 1] < x => IsFirst(data, x, l, h, Found(data, x, mid + 1, h))
    <3>1. IsFirst(data, x, mid + 1, h, Found(data, x, mid + 1, h))
      BY <2>2, FoundIsFirst
    <3> QED
      BY <1>2, <2>1, <3>1, FirstInHalf
  <2>5. ~ data[mid + 1] < x => IsFirst(data, x, l, h, Found(data, x, l, mid))
    <3>1. IsFirst(data, x, l, mid, Found(data, x, l, mid))
      BY <2>2, FoundIsFirst
    <3> QED
      BY <1>2, <2>1, <3>1, FirstInHalf
  <2>6. data[mid + 1] < x => Found(data, x, l, h) = Found(data, x, mid + 1, h)
    BY <1>2, <2>3, <2>4, FirstIsOne
  <2>7. ~ data[mid + 1] < x => Found(data, x, l, h) = Found(data, x, l, mid)
    BY <1>2, <2>3, <2>5, FirstIsOne
  <2> QED
    BY <1>2, <2>1, <2>6, <2>7
<1> QED
  BY <1>1, <1>2

\* There is a function like the search.
LEMMA SearchExists ==
  ASSUME NEW data \in Seq(Int), Ordered(data), NEW x \in Int
  PROVE  \E f : f = [r \in Halves(data) |-> Search(f, data, x, r)]
<1>1. PICK g : g = [r \in Halves(data) |-> Found(data, x, r[1], r[2])]
  OBVIOUS
<1>2. ASSUME NEW l \in 0..Len(data), NEW h \in 0..Len(data)
      PROVE  g[<<l, h>>] = Found(data, x, l, h)
  <2>1. <<l, h>> \in Halves(data)
    BY DEF Halves
  <2> QED
    BY <1>1, <2>1
<1>3. ASSUME NEW l \in 0..Len(data), NEW h \in 0..Len(data)
      PROVE  g[<<l, h>>] = Search(g, data, x, <<l, h>>)
  <2>1. PICK mid : mid = (l + h) \div 2
    OBVIOUS
  <2>2. l < h => mid + 1 \in 0..Len(data) /\ mid \in 0..Len(data)
    BY <2>1
  <2>3. l < h => /\ g[<<mid + 1, h>>] = Found(data, x, mid + 1, h)
                 /\ g[<<l, mid>>] = Found(data, x, l, mid)
    BY <1>2, <2>2
  <2>4. Found(data, x, l, h) = IF l >= h THEN l
                               ELSE IF data[mid + 1] < x THEN Found(data, x, mid + 1, h)
                                                         ELSE Found(data, x, l, mid)
    BY <2>1, FoundByHalving
  <2>5. Search(g, data, x, <<l, h>>) = IF l >= h THEN l
                                       ELSE IF data[mid + 1] < x THEN g[<<mid + 1, h>>]
                                                                 ELSE g[<<l, mid>>]
    BY <2>1, SearchCases
  <2> QED
    BY <1>2, <2>3, <2>4, <2>5
<1>4. ASSUME NEW r \in Halves(data) PROVE g[r] = Search(g, data, x, r)
  <2>1. r = <<r[1], r[2]>> /\ r[1] \in 0..Len(data) /\ r[2] \in 0..Len(data)
    BY DEF Halves
  <2> QED
    BY <1>3, <2>1
<1>5. g = [r \in Halves(data) |-> g[r]]
  BY <1>1
<1>6. g = [r \in Halves(data) |-> Search(g, data, x, r)]
  BY <1>4, <1>5
<1> QED
  BY <1>6

\* f is a function like the search.
IsSearch(f, data, x) == f = [r \in Halves(data) |-> Search(f, data, x, r)]

\* Any function the search may be finds the first one: otherwise there is a
\* smallest part in which it does not.
LEMMA SearchFinds ==
  ASSUME NEW data \in Seq(Int), Ordered(data), NEW x \in Int,
         NEW f, IsSearch(f, data, x),
         NEW l \in 0..Len(data), NEW h \in l..Len(data)
  PROVE  f[<<l, h>>] = Found(data, x, l, h)
<1>1. ASSUME NEW a \in 0..Len(data), NEW b \in 0..Len(data)
      PROVE  f[<<a, b>>] = IF a >= b THEN a
                           ELSE IF data[(a + b) \div 2 + 1] < x THEN f[<<(a + b) \div 2 + 1, b>>]
                                                                ELSE f[<<a, (a + b) \div 2>>]
  <2>1. <<a, b>> \in Halves(data)
    BY DEF Halves
  <2>2. f[<<a, b>>] = Search(f, data, x, <<a, b>>)
    BY <2>1 DEF IsSearch
  <2>3. Search(f, data, x, <<a, b>>) =
          IF a >= b THEN a
          ELSE IF data[(a + b) \div 2 + 1] < x THEN f[<<(a + b) \div 2 + 1, b>>]
                                               ELSE f[<<a, (a + b) \div 2>>]
    BY SearchCases
  <2> QED
    BY <2>2, <2>3
<1> DEFINE n == Len(data)
           F(a, b) == f[<<a, b>>]
           Wrong(a, b) == F(a, b) # Found(data, x, a, b)
           Sizes == {s \in Nat : \E a, b \in 0..n : s = b - a /\ Wrong(a, b)}
<1> SUFFICES ASSUME Wrong(l, h) PROVE FALSE
  OBVIOUS
<1> HIDE DEF F
<1>2. h - l \in Sizes
  <2>1. h - l \in Nat /\ h \in 0..n
    OBVIOUS
  <2> QED
    BY <2>1
<1>3. PICK s \in Sizes : \A t \in Sizes : s <= t
  <2>1. Sizes \subseteq Nat
    OBVIOUS
  <2> HIDE DEF Sizes
  <2> QED
    BY <1>2, <2>1, LeastOfNaturals
<1>4. PICK a \in 0..n, b \in 0..n : s = b - a /\ s \in Nat /\ Wrong(a, b)
  OBVIOUS
<1>5. ASSUME NEW p \in 0..n, NEW q \in 0..n, p <= q, q - p < b - a
      PROVE  F(p, q) = Found(data, x, p, q)
  <2>1. q - p \in Nat /\ ~ s <= q - p
    BY <1>4, <1>5
  <2>2. q - p \notin Sizes
    BY <1>3, <2>1
  <2> QED
    BY <2>1, <2>2
<1>6. F(a, b) = Found(data, x, a, b)
  <2>1. PICK mid : mid = (a + b) \div 2
    OBVIOUS
  <2>2. a < b => mid \in a..b - 1 /\ mid + 1 \in 0..n /\ mid \in 0..n
    BY <2>1
  <2>3. a < b => F(mid + 1, b) = Found(data, x, mid + 1, b)
    BY <1>5, <2>2
  <2>4. a < b => F(a, mid) = Found(data, x, a, mid)
    BY <1>5, <2>2
  <2>5. Found(data, x, a, b) = IF a >= b THEN a
                               ELSE IF data[mid + 1] < x THEN Found(data, x, mid + 1, b)
                                                         ELSE Found(data, x, a, mid)
    BY <2>1, FoundByHalving
  <2>6. F(a, b) = IF a >= b THEN a ELSE IF data[mid + 1] < x THEN F(mid + 1, b) ELSE F(a, mid)
    BY <1>1, <2>1 DEF F
  <2> QED
    BY <2>3, <2>4, <2>5, <2>6
<1> QED
  BY <1>4, <1>6

\* BisectLeft, the search by halving of the tooltip, finds the first reading
\* that is not before x, whatever the readings are, if they are in order.
THEOREM BisectFinds ==
  ASSUME NEW data \in Seq(Int), Ordered(data), NEW x \in Int, NEW lo \in 0..Len(data)
  PROVE  IsFirst(data, x, lo, Len(data), BisectLeft(data, x, lo))
<1> DEFINE f == CHOOSE f : f = [r \in Halves(data) |-> Search(f, data, x, r)]
<1>1. f = [r \in Halves(data) |-> Search(f, data, x, r)]
  BY SearchExists
<1>2. BisectLeft(data, x, lo) = f[<<lo, Len(data)>>]
  BY DEF BisectLeft, Halves, Search
<1> HIDE DEF f
<1>3. BisectLeft(data, x, lo) = Found(data, x, lo, Len(data))
  <2>1. IsSearch(f, data, x)
    BY <1>1 DEF IsSearch
  <2>2. Len(data) \in lo..Len(data)
    OBVIOUS
  <2> QED
    BY <1>2, <2>1, <2>2, SearchFinds
<1> QED
  BY <1>3, FoundIsFirst

\* The reading of the tooltip.
THEOREM HoverFinds ==
  ASSUME NEW data \in Seq(Int), Ordered(data), data # <<>>, NEW x \in Int,
         NEW after, after = {i \in 2..Len(data) : data[i] >= x}
  PROVE  Hovered(data, x) = data[IF after = {} THEN Len(data) ELSE Min(after)]
<1>1. PICK l : l = BisectLeft(data, x, 1)
  OBVIOUS
<1>2. Len(data) \in Nat \ {0} /\ 1 \in 0..Len(data)
  OBVIOUS
<1>3. IsFirst(data, x, 1, Len(data), l)
  BY <1>1, <1>2, BisectFinds
<1>4. /\ l \in 1..Len(data)
      /\ \A j \in 1..l - 1 : data[j + 1] < x
      /\ l < Len(data) => data[l + 1] >= x
  BY <1>3 DEF IsFirst
<1>5. Hovered(data, x) = data[Min({l, Len(data) - 1}) + 1]
  BY <1>1 DEF Hovered
<1>6. Min({l, Len(data) - 1}) = IF l < Len(data) THEN l ELSE Len(data) - 1
  BY <1>2, <1>4 DEF Min
<1>7. ASSUME NEW i \in after PROVE i \in 2..Len(data) /\ ~ i < l + 1
  <2>1. i \in 2..Len(data) /\ data[i] >= x /\ data[i] \in Int
    OBVIOUS
  <2>2. ASSUME i < l + 1 PROVE data[i] < x
    <3>1. i - 1 \in 1..l - 1 /\ (i - 1) + 1 = i
      BY <1>4, <2>1, <2>2
    <3>2. data[(i - 1) + 1] < x
      BY <1>4, <3>1
    <3> QED
      BY <3>1, <3>2
  <2> QED
    BY <2>1, <2>2
<1>8. CASE l < Len(data)
  <2>1. l + 1 \in after
    BY <1>4, <1>8
  <2>2. Min(after) = l + 1
    BY <1>4, <1>7, <2>1 DEF Min
  <2> QED
    BY <1>4, <1>5, <1>6, <1>8, <2>1, <2>2
<1>9. CASE l = Len(data)
  <2>1. after = {}
    BY <1>4, <1>7, <1>9
  <2> QED
    BY <1>2, <1>5, <1>6, <1>9, <2>1
<1>10. l < Len(data) \/ l = Len(data)
  BY <1>2, <1>4
<1> QED
  BY <1>8, <1>9, <1>10

-----------------------------------------------------------------------------
(* What the server sends and what an append leaves                         *)

\* The answer of a read action: every reading once, in order.
LEMMA AscendingSeq ==
  ASSUME NEW S, S \subseteq Int, IsFiniteSet(S)
  PROVE  /\ Ascending(S) \in Seq(Int) /\ Ordered(Ascending(S))
         /\ ToSet(Ascending(S)) = S
         /\ Len(Ascending(S)) = Cardinality(S)
<1> PICK n \in Nat : n = Cardinality(S)
  BY FS_CardinalityType
<1> PICK f : f = Ascending(S)
  OBVIOUS
<1>1. f \in [1..n -> S]
  BY AscendingIsOrder
<1>2. \A i, j \in 1..n : i < j => f[i] < f[j]
  BY AscendingIsOrder
<1>3. \A t \in S : \E i \in 1..n : f[i] = t
  BY AscendingIsOrder
<1>4. f \in [1..n -> Int]
  BY <1>1
<1>5. f \in Seq(Int) /\ Len(f) = n /\ DOMAIN f = 1..n
  BY <1>4
<1>6. Ordered(f)
  BY <1>2, <1>4, <1>5 DEF Ordered
<1>7. ToSet(f) = S
  <2>1. ToSet(f) = {f[i] : i \in 1..n}
    BY <1>5 DEF ToSet
  <2>2. {f[i] : i \in 1..n} \subseteq S
    BY <1>1
  <2>3. S \subseteq {f[i] : i \in 1..n}
    BY <1>3
  <2> QED
    BY <2>1, <2>2, <2>3
<1> QED
  BY <1>5, <1>6, <1>7

\* The last one is the latest.
LEMMA LastIsLatest ==
  ASSUME NEW data \in Seq(Int), Ordered(data), data # <<>>
  PROVE  /\ Last(data) \in ToSet(data) /\ Last(data) \in Int
         /\ \A t \in ToSet(data) : t <= Last(data)
<1>1. Len(data) \in 1..Len(data) /\ DOMAIN data = 1..Len(data)
  OBVIOUS
<1>2. ASSUME NEW i \in 1..Len(data) PROVE data[i] <= data[Len(data)]
  <2>1. CASE i = Len(data)
    <3>1. data[i] \in Int
      OBVIOUS
    <3> QED
      BY <2>1, <3>1
  <2>2. CASE i < Len(data)
    BY <1>1, <2>2 DEF Ordered
  <2> QED
    BY <2>1, <2>2
<1> QED
  BY <1>1, <1>2 DEF Last, ToSet

\* The readings of a series.
LEMMA ToSetOfSeq ==
  ASSUME NEW data \in Seq(Int)
  PROVE  /\ \A t : t \in ToSet(data) <=> \E i \in 1..Len(data) : data[i] = t
         /\ ToSet(data) \subseteq Int
         /\ data = <<>> <=> ToSet(data) = {}
<1>1. DOMAIN data = 1..Len(data)
  OBVIOUS
<1>2. \A t : t \in ToSet(data) <=> \E i \in 1..Len(data) : data[i] = t
  BY <1>1 DEF ToSet
<1>3. ToSet(data) \subseteq Int
  BY <1>2
<1>4. data # <<>> => data[1] \in ToSet(data)
  BY <1>2
<1>5. data = <<>> => ToSet(data) = {}
  BY <1>2
<1> QED
  BY <1>2, <1>3, <1>4, <1>5

\* filter keeps the order and the readings from a time on.
LEMMA TrimmedKeeps ==
  ASSUME NEW data \in Seq(Int), Ordered(data), NEW from \in Int,
         NEW D, D = Trimmed(data, from)
  PROVE  /\ D \in Seq(Int) /\ Ordered(D)
         /\ ToSet(D) = {t \in ToSet(data) : t >= from}
         /\ (\A t \in ToSet(data) : t >= from) => Len(D) = Len(data)
<1> DEFINE S == {i \in DOMAIN data : data[i] >= from}
<1>1. DOMAIN data = 1..Len(data) /\ Len(data) \in Nat
  OBVIOUS
<1>2. S \subseteq Int /\ S \subseteq 1..Len(data) /\ IsFiniteSet(S)
  <2>1. IsFiniteSet(1..Len(data))
    BY FS_Interval
  <2>2. S \subseteq 1..Len(data)
    BY <1>1
  <2> QED
    BY <2>1, <2>2, FS_Subset
<1> PICK kept : kept = Ascending(S)
  OBVIOUS
<1> PICK n \in Nat : n = Cardinality(S)
  BY <1>2, FS_CardinalityType
<1>3. kept \in [1..n -> S]
  BY <1>2, AscendingIsOrder
<1>4. \A i, j \in 1..n : i < j => kept[i] < kept[j]
  BY <1>2, AscendingIsOrder
<1>5. \A i \in S : \E j \in 1..n : kept[j] = i
  BY <1>2, AscendingIsOrder
<1>6. D = [j \in 1..n |-> data[kept[j]]]
  BY <1>3 DEF Trimmed
<1>7. \A i \in S : i \in 1..Len(data) /\ data[i] >= from /\ data[i] \in Int
  BY <1>1
<1>8. (\A t \in ToSet(data) : t >= from) => n = Len(data)
  <2> SUFFICES ASSUME \A t \in ToSet(data) : t >= from PROVE n = Len(data)
    OBVIOUS
  <2>1. \A i \in 1..Len(data) : data[i] \in ToSet(data)
    BY ToSetOfSeq
  <2>2. S = 1..Len(data)
    BY <1>1, <2>1
  <2>3. Cardinality(1..Len(data)) = Len(data)
    <3>1. Len(data) \in Int /\ 1 \in Int /\ (1 > Len(data) => Len(data) = 0)
      BY <1>1
    <3>2. Cardinality(1..Len(data)) = IF 1 > Len(data) THEN 0 ELSE Len(data) - 1 + 1
      BY <3>1, FS_Interval
    <3> QED
      BY <3>1, <3>2
  <2> HIDE DEF S
  <2> QED
    BY <2>2, <2>3
<1>9. \A t \in ToSet(data) : t >= from => \E i \in S : data[i] = t
  BY <1>1, ToSetOfSeq
<1> HIDE DEF S
<1>10. \A j \in 1..n : kept[j] \in 1..Len(data) /\ D[j] = data[kept[j]] /\ D[j] >= from /\ D[j] \in Int
  BY <1>3, <1>6, <1>7
<1>11. D \in Seq(Int) /\ Len(D) = n
  <2>1. D \in [1..n -> Int]
    BY <1>6, <1>10
  <2> QED
    BY <2>1
<1>12. Ordered(D)
  <2>1. ASSUME NEW i \in 1..n, NEW j \in 1..n, i < j PROVE D[i] <= D[j]
    <3>1. /\ kept[i] < kept[j] /\ kept[i] \in 1..Len(data) /\ kept[j] \in 1..Len(data)
          /\ D[i] = data[kept[i]] /\ D[j] = data[kept[j]]
      BY <1>4, <1>10, <2>1
    <3> QED
      BY <3>1 DEF Ordered
  <2> QED
    BY <1>11, <2>1 DEF Ordered
<1>13. ASSUME NEW t \in ToSet(D) PROVE t \in ToSet(data) /\ t >= from
  <2>1. PICK j \in 1..n : D[j] = t
    BY <1>11, ToSetOfSeq
  <2> QED
    BY <1>10, <2>1, ToSetOfSeq
<1>14. ASSUME NEW t \in ToSet(data), t >= from PROVE t \in ToSet(D)
  <2>1. PICK i \in S : data[i] = t
    BY <1>9, <1>14
  <2>2. PICK j \in 1..n : kept[j] = i
    BY <1>5
  <2>3. D[j] = t
    BY <1>10, <2>1, <2>2
  <2> QED
    BY <1>11, <2>3, ToSetOfSeq
<1> QED
  BY <1>8, <1>11, <1>12, <1>13, <1>14

\* A full series that begins at u or later.
FullSince(data, u) == Len(data) >= MaxPoints /\ \A t \in ToSet(data) : u <= t

\* shift takes the oldest reading only, and only of a full series.
LEMMA CappedKeeps ==
  ASSUME NEW data \in Seq(Int), Ordered(data), NEW D, D = Capped(data)
  PROVE  /\ D \in Seq(Int) /\ Ordered(D) /\ ToSet(D) \subseteq ToSet(data)
         /\ \A u \in ToSet(data) \ ToSet(D) : FullSince(D, u)
         /\ \A u : FullSince(data, u) => FullSince(D, u)
         /\ data # <<>> => Last(data) \in ToSet(D)
<1> USE ChartAssumption
<1>1. CASE Len(data) > MaxPoints
  <2>1. /\ D = Tail(data) /\ data # <<>> /\ Len(data) \in Nat /\ Len(data) > 1
        /\ MaxPoints \in Nat
    BY <1>1 DEF Capped
  <2>2. D \in Seq(Int) /\ Len(D) = Len(data) - 1 /\ \A i \in 1..Len(D) : D[i] = data[i + 1]
    BY <2>1, HeadTailProperties
  <2>3. Ordered(D)
    <3>1. ASSUME NEW i \in 1..Len(D), NEW j \in 1..Len(D), i < j PROVE D[i] <= D[j]
      <4>1. i + 1 \in 1..Len(data) /\ j + 1 \in 1..Len(data) /\ i + 1 < j + 1
        BY <2>1, <2>2, <3>1
      <4>2. data[i + 1] <= data[j + 1]
        BY <4>1 DEF Ordered
      <4> QED
        BY <2>2, <4>2
    <3> QED
      BY <3>1 DEF Ordered
  <2>4. ASSUME NEW t \in ToSet(D) PROVE t \in ToSet(data) /\ data[1] <= t
    <3>1. PICK i \in 1..Len(D) : D[i] = t
      BY <2>2, ToSetOfSeq
    <3>2. i + 1 \in 1..Len(data) /\ 1 \in 1..Len(data) /\ 1 < i + 1 /\ data[i + 1] = t
      BY <2>1, <2>2, <3>1
    <3>3. data[1] <= data[i + 1]
      BY <3>2 DEF Ordered
    <3> QED
      BY <3>2, <3>3, ToSetOfSeq
  <2>5. Len(D) >= MaxPoints
    BY <1>1, <2>1, <2>2
  <2>6. ASSUME NEW u \in ToSet(data), u \notin ToSet(D) PROVE u = data[1]
    <3>1. PICK i \in 1..Len(data) : data[i] = u
      BY ToSetOfSeq
    <3>2. ASSUME i # 1 PROVE FALSE
      <4>1. i - 1 \in 1..Len(D) /\ (i - 1) + 1 = i
        BY <2>1, <2>2, <3>2
      <4>2. D[i - 1] = u
        BY <2>2, <3>1, <4>1
      <4> QED
        BY <2>2, <2>6, <4>1, <4>2, ToSetOfSeq
    <3> QED
      BY <3>1, <3>2
  <2>7. Last(data) \in ToSet(D)
    <3>1. Len(D) \in 1..Len(D) /\ D[Len(D)] = data[Len(data)]
      BY <2>1, <2>2
    <3> QED
      BY <2>2, <3>1, ToSetOfSeq DEF Last
  <2> QED
    BY <2>2, <2>3, <2>4, <2>5, <2>6, <2>7 DEF FullSince
<1>2. CASE ~ Len(data) > MaxPoints
  <2>1. D = data
    BY <1>2 DEF Capped
  <2> QED
    BY <2>1, LastIsLatest
<1> QED
  BY <1>1, <1>2

\* A reading an append does not leave in the series is too old, or earlier
\* than all of a full series.
Past(D, from, u) == u < from \/ FullSince(D, u)

\* What an append leaves of the readings that were there.
LEMMA GrownKeeps ==
  ASSUME NEW data \in Seq(Int), Ordered(data), NEW from \in Int,
         NEW D, D = Capped(Trimmed(data, from))
  PROVE  /\ D \in Seq(Int) /\ Ordered(D)
         /\ ToSet(D) \subseteq {t \in ToSet(data) : t >= from}
         /\ \A u \in ToSet(data) \ ToSet(D) : Past(D, from, u)
         /\ \A u \in Int : FullSince(data, u) => Past(D, from, u)
         /\ data # <<>> /\ Last(data) >= from => Last(data) \in ToSet(D)
<1> PICK T : T = Trimmed(data, from)
  OBVIOUS
<1>1. /\ T \in Seq(Int) /\ Ordered(T)
      /\ ToSet(T) = {t \in ToSet(data) : t >= from}
      /\ (\A t \in ToSet(data) : t >= from) => Len(T) = Len(data)
  BY TrimmedKeeps
<1>2. D = Capped(T)
  OBVIOUS
<1>3. /\ D \in Seq(Int) /\ Ordered(D) /\ ToSet(D) \subseteq ToSet(T)
      /\ \A u \in ToSet(T) \ ToSet(D) : FullSince(D, u)
      /\ \A u : FullSince(T, u) => FullSince(D, u)
      /\ T # <<>> => Last(T) \in ToSet(D)
  BY <1>1, <1>2, CappedKeeps
<1>4. ASSUME NEW u \in ToSet(data) \ ToSet(D) PROVE Past(D, from, u)
  <2>1. u \in Int
    BY ToSetOfSeq
  <2>2. u >= from => u \in ToSet(T) \ ToSet(D)
    BY <1>1
  <2> QED
    BY <1>3, <2>1, <2>2 DEF Past
<1>5. ASSUME NEW u \in Int, FullSince(data, u) PROVE Past(D, from, u)
  <2>1. CASE \A t \in ToSet(data) : t >= from
    <3>1. ToSet(T) = ToSet(data) /\ Len(T) = Len(data)
      BY <1>1, <2>1
    <3>2. FullSince(T, u)
      BY <1>5, <3>1 DEF FullSince
    <3> QED
      BY <1>3, <3>2 DEF Past
  <2>2. CASE \E t \in ToSet(data) : ~ t >= from
    <3>1. PICK t \in ToSet(data) : ~ t >= from
      BY <2>2
    <3>2. u <= t /\ t \in Int
      BY <1>5, ToSetOfSeq DEF FullSince
    <3> QED
      BY <3>1, <3>2 DEF Past
  <2> QED
    BY <2>1, <2>2
<1>6. ASSUME data # <<>>, Last(data) >= from PROVE Last(data) \in ToSet(D)
  <2>1. /\ Last(data) \in ToSet(data) /\ Last(data) \in Int
        /\ \A t \in ToSet(data) : t <= Last(data)
    BY <1>6, LastIsLatest
  <2>2. Last(data) \in ToSet(T)
    BY <1>1, <1>6, <2>1
  <2>3. T # <<>>
    BY <1>1, <2>2, ToSetOfSeq
  <2>4. /\ Last(T) \in ToSet(T) /\ Last(T) \in Int
        /\ \A t \in ToSet(T) : t <= Last(T)
    BY <1>1, <2>3, LastIsLatest
  <2>5. Last(T) = Last(data)
    BY <1>1, <2>1, <2>2, <2>4
  <2> QED
    BY <1>3, <2>3, <2>5
<1> QED
  BY <1>1, <1>3, <1>4, <1>5, <1>6

-----------------------------------------------------------------------------
(* What is drawn of a series                                               *)

\* Something is drawn of the readings: there is a first cut behind 0.
LEMMA SegmentsExist ==
  ASSUME NEW data \in Seq(Int), data # <<>>
  PROVE  SplitIntoSegments(data) # {}
<1> DEFINE cuts == {0, Len(data)} \cup
                   {i \in 1..Len(data) - 1 : data[i + 1] - data[i] > Gap}
           S == {c \in cuts : c > 0}
<1>1. Len(data) \in S /\ S \subseteq Nat /\ cuts \subseteq Nat /\ 0 \in cuts
  OBVIOUS
<1> HIDE DEF cuts
<1>2. PICK c \in S : \A d \in S : c <= d
  BY <1>1, LeastOfNaturals
<1>3. ~ \E d \in cuts : 0 < d /\ d < c
  BY <1>1, <1>2
<1>4. PICK p : p = <<0, c>>
  OBVIOUS
<1>5. p \in cuts \X cuts /\ p[1] = 0 /\ p[2] = c /\ 0 < c
  BY <1>1, <1>4
<1> DEFINE L == {q \in cuts \X cuts : q[1] < q[2] /\ ~ \E d \in cuts : q[1] < d /\ d < q[2]}
<1>6. p \in L
  BY <1>3, <1>5
<1>7. SplitIntoSegments(data) = {SubSeq(data, q[1] + 1, q[2]) : q \in L}
  BY DEF SplitIntoSegments, cuts
<1> HIDE DEF L
<1> QED
  BY <1>6, <1>7

\* The ends of a stretch of readings.
LEMMA EndsOfStretch ==
  ASSUME NEW data \in Seq(Int), NEW a \in 0..Len(data), NEW b \in 1..Len(data), a < b
  PROVE  LET line == SubSeq(data, a + 1, b)
         IN  line[1] = data[a + 1] /\ line[Len(line)] = data[b]
<1> PICK line : line = SubSeq(data, a + 1, b)
  OBVIOUS
<1> PICK m \in Int : m = a + 1
  OBVIOUS
<1>1. m <= b /\ b \in Int /\ \A i \in m..b : data[i] \in Int
  OBVIOUS
<1>2. line = SubSeq(data, m, b)
  OBVIOUS
<1>3. /\ Len(line) = IF m <= b THEN b - m + 1 ELSE 0
      /\ \A i \in 1..b - m + 1 : line[i] = data[m + i - 1]
  BY <1>1, <1>2, SubSeqProperties
<1>4. 1 \in 1..b - m + 1 /\ m + 1 - 1 = m
  BY <1>1
<1>5. b - m + 1 \in 1..b - m + 1 /\ m + (b - m + 1) - 1 = b
  BY <1>1
<1>6. line[1] = data[m + 1 - 1] /\ line[b - m + 1] = data[m + (b - m + 1) - 1]
  BY <1>3, <1>4, <1>5
<1>7. Len(line) = b - m + 1
  BY <1>1, <1>3
<1>8. line[1] = data[m] /\ line[Len(line)] = data[b]
  BY <1>4, <1>5, <1>6, <1>7
<1> QED
  BY <1>8

\* A line is a stretch of readings without a gap.
LEMMA LineIsStretch ==
  ASSUME NEW data \in Seq(Int), NEW line \in SplitIntoSegments(data)
  PROVE  \E a \in 0..Len(data), b \in 1..Len(data) :
           /\ a < b
           /\ line[1] = data[a + 1] /\ line[Len(line)] = data[b]
           /\ \A i \in a + 1..b - 1 : ~ data[i + 1] - data[i] > Gap
<1> DEFINE cuts == {0, Len(data)} \cup
                   {i \in 1..Len(data) - 1 : data[i + 1] - data[i] > Gap}
<1>1. PICK p \in cuts \X cuts : /\ p[1] < p[2]
                                /\ ~ \E c \in cuts : p[1] < c /\ c < p[2]
                                /\ line = SubSeq(data, p[1] + 1, p[2])
  BY DEF SplitIntoSegments
<1> PICK a, b : a = p[1] /\ b = p[2]
  OBVIOUS
<1>2. a \in cuts /\ b \in cuts /\ a < b /\ line = SubSeq(data, a + 1, b)
  BY <1>1
<1>3. /\ \A c \in cuts : c = 0 \/ c = Len(data) \/ c \in 1..Len(data) - 1
      /\ \A i \in 1..Len(data) - 1 : data[i + 1] - data[i] > Gap => i \in cuts
      /\ ~ \E c \in cuts : a < c /\ c < b
  BY <1>1
<1> HIDE DEF cuts
<1>4. a \in 0..Len(data) /\ b \in 1..Len(data)
  <2>1. Len(data) \in Nat
    OBVIOUS
  <2>2. a = 0 \/ a = Len(data) \/ a \in 1..Len(data) - 1
    BY <1>2, <1>3
  <2>3. b = 0 \/ b = Len(data) \/ b \in 1..Len(data) - 1
    BY <1>2, <1>3
  <2>4. a < b
    BY <1>2
  <2> QED
    BY <2>1, <2>2, <2>3, <2>4
<1>5. ASSUME NEW i \in a + 1..b - 1, data[i + 1] - data[i] > Gap PROVE FALSE
  <2>1. i \in 1..Len(data) - 1 /\ a < i /\ i < b
    BY <1>4
  <2>2. i \in cuts
    BY <1>3, <1>5, <2>1
  <2> QED
    BY <1>3, <2>1, <2>2
<1>6. line[1] = data[a + 1] /\ line[Len(line)] = data[b]
  <2>1. a < b /\ line = SubSeq(data, a + 1, b)
    BY <1>2
  <2> QED
    BY <1>4, <2>1, EndsOfStretch
<1>7. a < b
  BY <1>2
<1> QED
  BY <1>4, <1>5, <1>6, <1>7

\* The readings next to each other, and the ends of the window.
Neighbours(data, from, to, a, b) ==
  \/ a = from /\ b = data[1]
  \/ a = data[Len(data)] /\ b = to
  \/ \E i \in 1..Len(data) - 1 : a = data[i] /\ b = data[i + 1]

\* The shaded regions are the neighbours further than Gap apart.
LEMMA RegionIsGap ==
  ASSUME NEW data \in Seq(Int), data # <<>>, NEW from \in Int, NEW to \in Int
  PROVE  /\ \A a, b : <<a, b>> \in Shaded(GetNoDataRegions(data, from, to))
                        <=> Neighbours(data, from, to, a, b) /\ b - a > Gap
         /\ \A r \in Shaded(GetNoDataRegions(data, from, to)) : r = <<r[1], r[2]>>
<1> USE ChartAssumption
<1> DEFINE R == {<<from, Head(data)>>, <<data[Len(data)], to>>}
                   \cup {<<data[i], data[i + 1]>> : i \in 1..Len(data) - 1}
<1>1. Head(data) = data[1] /\ Len(data) \in 1..Len(data)
  OBVIOUS
<1>2. ASSUME NEW a, NEW b PROVE <<a, b>> \in R <=> Neighbours(data, from, to, a, b)
  BY <1>1 DEF Neighbours
<1>3. \A r \in R : r = <<r[1], r[2]>>
  OBVIOUS
<1>4. \A r \in R : r[1] \in Int /\ r[2] \in Int
  <2>1. \A i \in 1..Len(data) - 1 : data[i] \in Int /\ data[i + 1] \in Int
    OBVIOUS
  <2>2. data[1] \in Int /\ data[Len(data)] \in Int
    BY <1>1
  <2>3. ASSUME NEW r \in R PROVE r[1] \in Int /\ r[2] \in Int
    <3>1. CASE r = <<from, Head(data)>>
      BY <1>1, <2>2, <3>1
    <3>2. CASE r = <<data[Len(data)], to>>
      BY <2>2, <3>2
    <3>3. CASE \E i \in 1..Len(data) - 1 : r = <<data[i], data[i + 1]>>
      BY <2>1, <3>3
    <3> QED
      BY <3>1, <3>2, <3>3
  <2> QED
    BY <2>3
<1> HIDE DEF R
<1>5. Shaded(GetNoDataRegions(data, from, to)) = {r \in R : r[2] - r[1] > Gap}
  <2>1. GetNoDataRegions(data, from, to) = {r \in R : r[2] - r[1] > Gap}
    BY DEF GetNoDataRegions, R
  <2>2. \A r \in R : r[2] - r[1] > Gap => r[2] > r[1]
    BY <1>4
  <2> QED
    BY <2>1, <2>2 DEF Shaded
<1> QED
  BY <1>2, <1>3, <1>5

\* No line is drawn from one side of a shaded region to the other: the two
\* functions that cut the readings, SplitIntoSegments and GetNoDataRegions, agree.
THEOREM NoLineOverShading ==
  ASSUME NEW data \in Seq(Int), Ordered(data), data # <<>>,
         NEW from \in Int, NEW to \in Int,
         \A t \in ToSet(data) : from <= t /\ t <= to,
         NEW r \in Shaded(GetNoDataRegions(data, from, to)),
         NEW line \in SplitIntoSegments(data)
  PROVE  ~(line[1] <= r[1] /\ r[2] <= line[Len(line)])
<1> USE ChartAssumption
<1>1. PICK a \in 0..Len(data), b \in 1..Len(data) :
           /\ a < b
           /\ line[1] = data[a + 1] /\ line[Len(line)] = data[b]
           /\ \A i \in a + 1..b - 1 : ~ data[i + 1] - data[i] > Gap
  BY LineIsStretch
<1>2. Neighbours(data, from, to, r[1], r[2]) /\ r[2] - r[1] > Gap
  BY RegionIsGap
<1>3. /\ a + 1 \in 1..Len(data) /\ data[a + 1] \in Int /\ data[b] \in Int
      /\ from <= data[a + 1] /\ data[b] <= to
  <2>1. a + 1 \in 1..Len(data)
    BY <1>1
  <2> QED
    BY <2>1, ToSetOfSeq
<1>4. 1 \in 1..Len(data) /\ Len(data) \in 1..Len(data)
  OBVIOUS
<1>5. \A i, j \in 1..Len(data) : i <= j => data[i] <= data[j]
  <2>1. \A i \in 1..Len(data) : data[i] \in Int
    OBVIOUS
  <2> QED
    BY <2>1 DEF Ordered
<1> SUFFICES ASSUME data[a + 1] <= r[1], r[2] <= data[b] PROVE FALSE
  BY <1>1
<1>6. CASE r[1] = from /\ r[2] = data[1]
  <2>1. data[1] <= data[a + 1] /\ data[1] \in Int
    BY <1>3, <1>4, <1>5
  <2> QED
    BY <1>2, <1>3, <1>6, <2>1
<1>7. CASE r[1] = data[Len(data)] /\ r[2] = to
  <2>1. data[b] <= data[Len(data)] /\ data[Len(data)] \in Int
    BY <1>4, <1>5
  <2> QED
    BY <1>2, <1>3, <1>7, <2>1
<1>8. CASE \E i \in 1..Len(data) - 1 : r[1] = data[i] /\ r[2] = data[i + 1]
  <2>1. PICK i \in 1..Len(data) - 1 : r[1] = data[i] /\ r[2] = data[i + 1]
    BY <1>8
  <2>2. /\ i \in 1..Len(data) /\ i + 1 \in 1..Len(data)
        /\ data[i] \in Int /\ data[i + 1] \in Int /\ data[i] < data[i + 1]
    <3>1. /\ i \in 1..Len(data) /\ i + 1 \in 1..Len(data)
          /\ data[i] \in Int /\ data[i + 1] \in Int
      OBVIOUS
    <3>2. data[i + 1] - data[i] > Gap
      BY <1>2, <2>1
    <3> QED
      BY <3>1, <3>2, ChartAssumption
  <2>3. ASSUME i < a + 1 PROVE FALSE
    <3>1. data[i + 1] <= data[a + 1]
      BY <1>3, <1>5, <2>2, <2>3
    <3>2. data[a + 1] <= data[i]
      BY <2>1
    <3>3. data[a + 1] \in Int /\ data[i] \in Int /\ data[i + 1] \in Int
      BY <1>3, <2>2
    <3>4. data[i] < data[i + 1]
      BY <2>2
    <3> QED
      BY <3>1, <3>2, <3>3, <3>4
  <2>4. ASSUME b < i + 1 PROVE FALSE
    <3>1. data[b] <= data[i]
      BY <1>5, <2>2, <2>4
    <3>2. data[i + 1] <= data[b]
      BY <2>1
    <3>3. data[b] \in Int /\ data[i] \in Int /\ data[i + 1] \in Int
      BY <1>3, <2>2
    <3>4. data[i] < data[i + 1]
      BY <2>2
    <3> QED
      BY <3>1, <3>2, <3>3, <3>4
  <2>5. i \in a + 1..b - 1
    BY <2>3, <2>4
  <2> QED
    BY <1>1, <1>2, <2>1, <2>5
<1> QED
  BY <1>2, <1>6, <1>7, <1>8 DEF Neighbours

\* No reading is between neighbours.
LEMMA NothingBetween ==
  ASSUME NEW data \in Seq(Int), Ordered(data), data # <<>>,
         NEW from \in Int, NEW to \in Int,
         \A t \in ToSet(data) : from <= t /\ t <= to,
         NEW a, NEW b, Neighbours(data, from, to, a, b)
  PROVE  /\ a \in Int /\ b \in Int /\ from <= a /\ b <= to
         /\ \A t \in ToSet(data) : t <= a \/ b <= t
<1>1. \A i \in 1..Len(data) : data[i] \in Int /\ from <= data[i] /\ data[i] <= to
  BY ToSetOfSeq
<1>2. 1 \in 1..Len(data) /\ Len(data) \in 1..Len(data)
  OBVIOUS
<1>3. \A i, j \in 1..Len(data) : i <= j => data[i] <= data[j]
  BY <1>1 DEF Ordered
<1> SUFFICES /\ a \in Int /\ b \in Int /\ from <= a /\ b <= to
             /\ \A j \in 1..Len(data) : data[j] <= a \/ b <= data[j]
  BY ToSetOfSeq
<1>4. CASE a = from /\ b = data[1]
  BY <1>1, <1>2, <1>3, <1>4
<1>5. CASE a = data[Len(data)] /\ b = to
  BY <1>1, <1>2, <1>3, <1>5
<1>6. CASE \E i \in 1..Len(data) - 1 : a = data[i] /\ b = data[i + 1]
  <2>1. PICK i \in 1..Len(data) - 1 : a = data[i] /\ b = data[i + 1]
    BY <1>6
  <2>2. i \in 1..Len(data) /\ i + 1 \in 1..Len(data)
    OBVIOUS
  <2>3. ASSUME NEW j \in 1..Len(data) PROVE data[j] <= a \/ b <= data[j]
    <3>1. CASE j <= i
      BY <1>3, <2>1, <2>2, <3>1
    <3>2. CASE i + 1 <= j
      <4>1. data[i + 1] <= data[j]
        BY <1>3, <2>2, <3>2
      <4> QED
        BY <2>1, <4>1
    <3> QED
      BY <3>1, <3>2
  <2> QED
    BY <1>1, <2>1, <2>2, <2>3
<1> QED
  BY <1>4, <1>5, <1>6 DEF Neighbours

\* The neighbours an instant is between.
LEMMA NeighboursExist ==
  ASSUME NEW data \in Seq(Int), Ordered(data), data # <<>>,
         NEW from \in Int, NEW to \in Int,
         \A t \in ToSet(data) : from <= t /\ t <= to,
         NEW x \in from..to - 1
  PROVE  \E a, b \in Int : Neighbours(data, from, to, a, b) /\ a <= x /\ x < b
<1>1. \A i \in 1..Len(data) : data[i] \in Int /\ from <= data[i] /\ data[i] <= to
  BY ToSetOfSeq
<1>2. 1 \in 1..Len(data) /\ Len(data) \in 1..Len(data)
  OBVIOUS
<1> DEFINE S == {i \in 1..Len(data) : x < data[i]}
<1>3. CASE S = {}
  <2>1. ~ x < data[Len(data)]
    BY <1>2, <1>3
  <2> QED
    BY <1>1, <1>2, <2>1 DEF Neighbours
<1>4. CASE S # {}
  <2>1. PICK i \in S : \A j \in S : i <= j
    <3>1. S \subseteq Nat
      OBVIOUS
    <3> QED
      BY <1>4, <3>1, LeastOfNaturals
  <2>2. CASE i = 1
    BY <1>1, <1>2, <2>2 DEF Neighbours
  <2>3. CASE i # 1
    <3>1. i - 1 \in 1..Len(data) - 1 /\ i - 1 \in 1..Len(data) /\ (i - 1) + 1 = i
      BY <2>3
    <3>2. i - 1 \notin S
      BY <2>1, <3>1
    <3>3. data[i - 1] <= x /\ x < data[i]
      BY <1>1, <3>1, <3>2
    <3>4. Neighbours(data, from, to, data[i - 1], data[i])
      BY <3>1 DEF Neighbours
    <3> QED
      BY <1>1, <3>1, <3>3, <3>4
  <2> QED
    BY <2>2, <2>3
<1> QED
  BY <1>3, <1>4

\* An instant is shaded if and only if the last reading before it and the first
\* one behind it, or the ends of the window, are further than Gap apart.
THEOREM ShadedIffGap ==
  ASSUME NEW data \in Seq(Int), Ordered(data), data # <<>>,
         NEW from \in Int, NEW to \in Int,
         \A t \in ToSet(data) : from <= t /\ t <= to,
         NEW x \in from..to - 1,
         NEW before, before = Max({from} \cup {t \in ToSet(data) : t <= x}),
         NEW after, after = Min({to} \cup {t \in ToSet(data) : t > x})
  PROVE  (\E r \in Shaded(GetNoDataRegions(data, from, to)) : r[1] <= x /\ x < r[2])
           <=> after - before > Gap
<1> USE ChartAssumption
<1>1. ToSet(data) \subseteq Int /\ IsFiniteSet(ToSet(data))
  <2>1. ToSet(data) \subseteq from..to
    BY ToSetOfSeq
  <2>2. IsFiniteSet(from..to)
    BY FS_Interval
  <2> QED
    BY <2>1, <2>2, FS_Subset
<1> DEFINE B == {from} \cup {t \in ToSet(data) : t <= x}
           A == {to} \cup {t \in ToSet(data) : t > x}
<1>2. B \subseteq Int /\ A \subseteq Int
  BY <1>1
<1>3. /\ IsFiniteSet(B) /\ IsFiniteSet(A)
  <2>1. IsFiniteSet(ToSet(data) \cup {from}) /\ IsFiniteSet(ToSet(data) \cup {to})
    BY <1>1, FS_AddElement
  <2>2. B \subseteq ToSet(data) \cup {from} /\ A \subseteq ToSet(data) \cup {to}
    OBVIOUS
  <2> QED
    BY <2>1, <2>2, FS_Subset
<1>4. before \in B /\ \A t \in B : t <= before
  <2>1. before = Max(B) /\ B # {}
    OBVIOUS
  <2> HIDE DEF B
  <2>2. Max(B) \in B /\ \A t \in B : t <= Max(B)
    BY <1>2, <1>3, <2>1, MinMaxOfFinite
  <2> QED
    BY <2>1, <2>2
<1>5. after \in A /\ \A t \in A : after <= t
  <2>1. after = Min(A) /\ A # {}
    OBVIOUS
  <2> HIDE DEF A
  <2>2. Min(A) \in A /\ \A t \in A : Min(A) <= t
    BY <1>2, <1>3, <2>1, MinMaxOfFinite
  <2> QED
    BY <2>1, <2>2
<1>6. before \in Int /\ after \in Int
  BY <1>2, <1>4, <1>5
<1>7. ASSUME NEW a \in Int, NEW b \in Int, Neighbours(data, from, to, a, b), a <= x, x < b
      PROVE  before = a /\ after = b
  <2>1. /\ from <= a /\ b <= to /\ \A t \in ToSet(data) : t <= a \/ b <= t
    BY <1>7, NothingBetween
  <2>2. \A i \in 1..Len(data) : data[i] \in ToSet(data) /\ data[i] \in Int
    BY ToSetOfSeq
  <2>3. 1 \in 1..Len(data) /\ Len(data) \in 1..Len(data)
    OBVIOUS
  <2>4. (a = from \/ a \in ToSet(data)) /\ (b = to \/ b \in ToSet(data))
    BY <1>7, <2>2, <2>3 DEF Neighbours
  <2>5. a \in B /\ b \in A
    BY <1>7, <2>4
  <2>6. \A t \in B : t <= a
    BY <1>1, <1>7, <2>1
  <2>7. \A t \in A : b <= t
    BY <1>1, <1>7, <2>1
  <2> HIDE DEF A, B
  <2> QED
    BY <1>4, <1>5, <1>6, <2>5, <2>6, <2>7
<1>8. PICK a \in Int, b \in Int : Neighbours(data, from, to, a, b) /\ a <= x /\ x < b
  BY NeighboursExist
<1>9. before = a /\ after = b
  BY <1>7, <1>8
<1>10. ASSUME NEW r \in Shaded(GetNoDataRegions(data, from, to)), r[1] <= x, x < r[2]
       PROVE  after - before > Gap
  <2>1. r = <<r[1], r[2]>>
    BY RegionIsGap
  <2>2. Neighbours(data, from, to, r[1], r[2]) /\ r[2] - r[1] > Gap
    BY <2>1, RegionIsGap
  <2>3. r[1] \in Int /\ r[2] \in Int
    BY <2>2, NothingBetween
  <2>4. before = r[1] /\ after = r[2]
    BY <1>7, <1>10, <2>2, <2>3
  <2> QED
    BY <2>2, <2>4
<1>11. ASSUME after - before > Gap
       PROVE  \E r \in Shaded(GetNoDataRegions(data, from, to)) : r[1] <= x /\ x < r[2]
  <2>1. <<a, b>> \in Shaded(GetNoDataRegions(data, from, to))
    BY <1>8, <1>9, <1>11, RegionIsGap
  <2>2. <<a, b>>[1] <= x /\ x < <<a, b>>[2]
    BY <1>8
  <2> QED
    BY <2>1, <2>2
<1> QED
  BY <1>10, <1>11

\* The fields of a hook.
IsChart(c) ==
  c \in [chart : {c.chart}, series : {c.series}, from : {c.from}, to : {c.to},
         rose : {c.rose}, picture : {c.picture}, notes : {c.notes}]

ChartKind == {"line", "wind", "rain", "multi"}

\* The series of a hook that has something to render.
HasSeries(c) ==
  /\ c.chart \in ChartKind
  /\ c.series \in [DOMAIN c.series -> Seq(Int)]
  /\ c.chart # "multi" => \E s : DOMAIN c.series = {s}

\* What is on the screen is what render() makes of the hook as it is.
PictureIsCurrent(c) ==
  /\ c.notes \in Nat
  /\ DOMAIN c.series = {} => c.picture = NoPicture
  /\ DOMAIN c.series # {} /\ Drawn(c) = {} => c.picture = NoPicture /\ c.notes > 0
  /\ Drawn(c) # {} => c.picture # NoPicture /\ c.notes = 0
  /\ Drawn(c) # {} /\ c.chart # "multi" =>
       /\ c.picture.shaded = Shading(c)
       /\ c.picture.lines \subseteq SplitIntoSegments(Only(c))

TypesInv ==
  /\ now \in Nat
  /\ site \in [Source -> Slug] /\ station \in [Source -> Nat]
  /\ stored \in [Source -> SUBSET Dates]
  /\ saving \subseteq Source /\ mail \in Seq(Source)
  /\ missed \in [Source -> SUBSET Dates]

\* A page: its window, what it shows and what it hears of.
PageOK(p) ==
  /\ p \in [kind : {"installation", "compare"}, shown : SUBSET Source, type : Slug,
            heard : SUBSET Source, range : Ranges, from : Int, to : Int,
            live : BOOLEAN]
  /\ p.shown \subseteq p.heard
  /\ p.kind = "installation" => p.heard = Source /\ \E tab : p.shown = {tab}
  /\ p.from <= p.to /\ p.to <= now
  /\ p.live => p.to = p.from + p.range

\* A station has one sensor of a type, for a comparison.
SitesOK ==
  page.kind = "compare" => \A s, u \in Source :
    station[s] = station[u] /\ site[s] = site[u] => s = u

PageInv == PageOK(page) /\ SitesOK

\* The chart is of the page: its kind, its series and its window.  Without a
\* selection it may be one of an earlier selection.
ChartInv ==
  /\ IsChart(chart) /\ HasSeries(chart) /\ PictureIsCurrent(chart)
  /\ chart.from \in Int /\ chart.to \in Int /\ chart.to <= now
  /\ page.kind = "installation" <=> chart.chart # "multi"
  /\ page.shown # {} =>
       /\ DOMAIN chart.series = Charted(page)
       /\ ~page.live => chart.from = page.from /\ chart.to = page.to
       /\ page.live => chart.to - chart.from = page.range /\ page.from <= chart.from

\* The readings of the chart are in order, are those the server has, and none
\* is outside of the window.
ReadingsInv == \A s \in DOMAIN chart.series :
  /\ s \in Source /\ Ordered(chart.series[s])
  /\ \A t \in ToSet(chart.series[s]) :
       /\ t \in stored[s] /\ chart.from <= t /\ t <= chart.to
       /\ chart.chart = "wind" => t \in chart.rose

\* Why a live chart may lack a reading, or why it will not for long: its
\* message is still to come.
Excused(s, t) ==
  \/ t < chart.from
  \/ \E u \in ToSet(chart.series[s]) : t < u /\ u <= t + Recent
  \/ t \in missed[s]
  \/ FullSince(chart.series[s], t)
  \/ page.kind = "installation" /\ SummaryType(site[s]) = "none"
  \/ s \in saving \/ s \in ToSet(mail)

MissingInv == page.live => \A s \in Charted(page) :
  \A t \in stored[s] : t \in ToSet(chart.series[s]) \/ Excused(s, t)

PageIInv == TypesInv /\ PageInv /\ ChartInv /\ ReadingsInv /\ MissingInv

-----------------------------------------------------------------------------
(* Rendering                                                               *)

\* r is the hook c with another picture and count of messages.
Pictured(r, c, P, n) ==
  /\ IsChart(r) /\ r.chart = c.chart /\ r.series = c.series
  /\ r.from = c.from /\ r.to = c.to /\ r.rose = c.rose
  /\ r.picture = P /\ r.notes = n

\* A picture and a count of messages replace those of the hook.
LEMMA DrawnNotes ==
  ASSUME NEW c, IsChart(c), NEW P, NEW n, NEW r, r = [c EXCEPT !.picture = P, !.notes = n]
  PROVE  Pictured(r, c, P, n)
<1>1. /\ r.chart = c.chart /\ r.series = c.series
      /\ r.from = c.from /\ r.to = c.to /\ r.rose = c.rose
      /\ r.picture = P /\ r.notes = n
  BY DEF IsChart
<1>2. r \in [chart : {c.chart}, series : {c.series}, from : {c.from}, to : {c.to},
               rose : {c.rose}, picture : {P}, notes : {n}]
  BY DEF IsChart
<1> QED
  BY <1>1, <1>2 DEF IsChart, Pictured

\* The same, written in the other order.
LEMMA NotesDrawn ==
  ASSUME NEW c, IsChart(c), NEW P, NEW n, NEW r, r = [c EXCEPT !.notes = n, !.picture = P]
  PROVE  Pictured(r, c, P, n)
<1>1. /\ r.chart = c.chart /\ r.series = c.series
      /\ r.from = c.from /\ r.to = c.to /\ r.rose = c.rose
      /\ r.picture = P /\ r.notes = n
  BY DEF IsChart
<1>2. r \in [chart : {c.chart}, series : {c.series}, from : {c.from}, to : {c.to},
               rose : {c.rose}, picture : {P}, notes : {n}]
  BY DEF IsChart
<1> QED
  BY <1>1, <1>2 DEF IsChart, Pictured

\* Only the picture is replaced.
LEMMA PictureOnly ==
  ASSUME NEW c, IsChart(c), NEW P, NEW r, r = [c EXCEPT !.picture = P]
  PROVE  Pictured(r, c, P, c.notes)
<1>1. /\ r.chart = c.chart /\ r.series = c.series
      /\ r.from = c.from /\ r.to = c.to /\ r.rose = c.rose
      /\ r.picture = P /\ r.notes = c.notes
  BY DEF IsChart
<1>2. r \in [chart : {c.chart}, series : {c.series}, from : {c.from}, to : {c.to},
               rose : {c.rose}, picture : {P}, notes : {c.notes}]
  BY DEF IsChart
<1> QED
  BY <1>1, <1>2 DEF IsChart, Pictured

\* r is the hook c with other series and another window.
Refilled(r, c, S, f, u) ==
  /\ IsChart(r) /\ r.chart = c.chart /\ r.series = S
  /\ r.from = f /\ r.to = u /\ r.rose = c.rose
  /\ r.picture = c.picture /\ r.notes = c.notes

\* A load or an append replaces the series and the window.
LEMMA SeriesLoaded ==
  ASSUME NEW c, IsChart(c), NEW S, NEW f, NEW u, NEW r, r = [c EXCEPT !.series = S, !.from = f, !.to = u]
  PROVE  Refilled(r, c, S, f, u)
<1>1. /\ r.chart = c.chart /\ r.series = S
      /\ r.from = f /\ r.to = u /\ r.rose = c.rose
      /\ r.picture = c.picture /\ r.notes = c.notes
  BY DEF IsChart
<1>2. r \in [chart : {c.chart}, series : {S}, from : {f}, to : {u},
               rose : {c.rose}, picture : {c.picture}, notes : {c.notes}]
  BY DEF IsChart
<1> QED
  BY <1>1, <1>2 DEF IsChart, Refilled

\* r is the hook c with another rose.
Rosed(r, c, R) ==
  /\ IsChart(r) /\ r.chart = c.chart /\ r.series = c.series
  /\ r.from = c.from /\ r.to = c.to /\ r.rose = R
  /\ r.picture = c.picture /\ r.notes = c.notes

\* Only the rose is replaced.
LEMMA RoseOnly ==
  ASSUME NEW c, IsChart(c), NEW R, NEW r, r = [c EXCEPT !.rose = R]
  PROVE  Rosed(r, c, R)
<1>1. /\ r.chart = c.chart /\ r.series = c.series
      /\ r.from = c.from /\ r.to = c.to /\ r.rose = R
      /\ r.picture = c.picture /\ r.notes = c.notes
  BY DEF IsChart
<1>2. r \in [chart : {c.chart}, series : {c.series}, from : {c.from}, to : {c.to},
               rose : {R}, picture : {c.picture}, notes : {c.notes}]
  BY DEF IsChart
<1> QED
  BY <1>1, <1>2 DEF IsChart, Rosed

\* A chart of one sensor draws that one's readings.
LEMMA OnlySeries ==
  ASSUME NEW c, HasSeries(c), c.chart # "multi", NEW s \in DOMAIN c.series
  PROVE  /\ DOMAIN c.series = {s} /\ c.series[s] \in Seq(Int)
         /\ Only(c) = c.series[s] /\ Drawn(c) = ToSet(c.series[s])
<1>1. DOMAIN c.series = {s}
  BY DEF HasSeries
<1>2. c.series[s] \in Seq(Int)
  BY DEF HasSeries
<1>3. Only(c) = c.series[s]
  BY <1>1 DEF Only
<1>4. Drawn(c) = ToSet(c.series[s])
  BY <1>1 DEF Drawn
<1> QED
  BY <1>1, <1>2, <1>3, <1>4

\* The readings of all series.
LEMMA DrawnOf ==
  ASSUME NEW c
  PROVE  \A t : t \in Drawn(c) <=> \E s \in DOMAIN c.series : t \in ToSet(c.series[s])
BY DEF Drawn

\* What render() needs to know of its hook.
LEMMA SameDrawing ==
  ASSUME NEW c, NEW r, r.series = c.series, r.from = c.from, r.to = c.to
  PROVE  Drawn(r) = Drawn(c) /\ Only(r) = Only(c) /\ Shading(r) = Shading(c)
<1>1. Drawn(r) = Drawn(c)
  <2>1. \A t : t \in Drawn(r) <=> \E s \in DOMAIN r.series : t \in ToSet(r.series[s])
    BY DrawnOf
  <2>2. \A t : t \in Drawn(c) <=> \E s \in DOMAIN c.series : t \in ToSet(c.series[s])
    BY DrawnOf
  <2>3. \A t : t \in Drawn(r) <=> t \in Drawn(c)
    BY <2>1, <2>2
  <2> QED
    BY <2>3
<1>2. Only(r) = Only(c)
  BY DEF Only
<1>3. Shading(r) = Shading(c)
  BY <1>2 DEF Shading
<1> QED
  BY <1>1, <1>2, <1>3

\* render() leaves the picture of the hook as it is, and the rest alone.
LEMMA RenderKeeps ==
  ASSUME NEW c, IsChart(c), HasSeries(c), c.notes \in Nat,
         NEW r, r = Resized(c)
  PROVE  /\ IsChart(r) /\ HasSeries(r) /\ PictureIsCurrent(r)
         /\ r.chart = c.chart /\ r.series = c.series
         /\ r.from = c.from /\ r.to = c.to /\ r.rose = c.rose
<1>1. ASSUME NEW P, NEW n \in Nat,
             IsChart(r), r.chart = c.chart, r.series = c.series,
             r.from = c.from, r.to = c.to, r.rose = c.rose, r.picture = P, r.notes = n,
             DOMAIN c.series = {} => P = NoPicture,
             DOMAIN c.series # {} /\ Drawn(c) = {} => P = NoPicture /\ n > 0,
             Drawn(c) # {} => P # NoPicture /\ n = 0,
             Drawn(c) # {} /\ c.chart # "multi" =>
               P.shaded = Shading(c) /\ P.lines \subseteq SplitIntoSegments(Only(c))
      PROVE  IsChart(r) /\ HasSeries(r) /\ PictureIsCurrent(r)
  BY <1>1, SameDrawing DEF HasSeries, PictureIsCurrent
<1>2. CASE c.chart # "multi" /\ Drawn(c) = {}
  <2>1. Pictured(r, c, NoPicture, 1)
    <3>1. r = NoData(c)
      BY <1>2 DEF HasSeries, ChartKind, Resized, RenderLine, RenderWind, RenderRain
    <3> QED
      BY <3>1, DrawnNotes DEF NoData
  <2>2. /\ IsChart(r) /\ r.chart = c.chart /\ r.series = c.series
        /\ r.from = c.from /\ r.to = c.to /\ r.rose = c.rose
        /\ r.picture = NoPicture /\ r.notes = 1
    BY <2>1 DEF Pictured
  <2> QED
    BY <1>1, <1>2, <2>2
<1>3. ASSUME c.chart # "multi", Drawn(c) # {}, NEW P,
             Pictured(r, c, P, 0),
             P # NoPicture, P.shaded = Shading(c), P.lines \subseteq SplitIntoSegments(Only(c))
      PROVE  /\ IsChart(r) /\ HasSeries(r) /\ PictureIsCurrent(r)
             /\ r.chart = c.chart /\ r.series = c.series
             /\ r.from = c.from /\ r.to = c.to /\ r.rose = c.rose
  <2>1. /\ IsChart(r) /\ r.chart = c.chart /\ r.series = c.series
        /\ r.from = c.from /\ r.to = c.to /\ r.rose = c.rose
        /\ r.picture = P /\ r.notes = 0
    BY <1>3 DEF Pictured
  <2>2. DOMAIN c.series # {}
    BY <1>3 DEF HasSeries
  <2> QED
    BY <1>1, <1>3, <2>1, <2>2
<1>4. ASSUME c.chart # "multi", Drawn(c) # {} PROVE SplitIntoSegments(Only(c)) # {}
  <2>1. PICK s : s \in DOMAIN c.series
    BY <1>4 DEF HasSeries
  <2>2. Only(c) \in Seq(Int) /\ Drawn(c) = ToSet(Only(c))
    BY <1>4, <2>1, OnlySeries
  <2>3. Only(c) # <<>>
    BY <1>4, <2>2, ToSetOfSeq
  <2> QED
    BY <2>2, <2>3, SegmentsExist
<1>5. CASE c.chart = "line" /\ Drawn(c) # {}
  <2>1. PICK P : P = [NoPicture EXCEPT !.lines = SplitIntoSegments(Only(c)), !.shaded = Shading(c)]
    OBVIOUS
  <2>2. Pictured(r, c, P, 0)
    <3>1. r = [c EXCEPT !.notes = 0, !.picture = P]
      BY <1>5, <2>1 DEF Resized, RenderLine
    <3> QED
      BY <3>1, NotesDrawn
  <2>3. P.lines = SplitIntoSegments(Only(c)) /\ P.shaded = Shading(c)
    BY <2>1 DEF NoPicture
  <2>4. P # NoPicture
    BY <1>4, <1>5, <2>3 DEF NoPicture
  <2> QED
    BY <1>3, <1>5, <2>2, <2>3, <2>4
<1>6. CASE c.chart = "wind" /\ Drawn(c) # {}
  <2>1. PICK P : P = WithRose(SpeedChart(c), c)
    OBVIOUS
  <2>2. Pictured(r, c, P, 0)
    <3>1. r = [c EXCEPT !.notes = 0, !.picture = P]
      BY <1>6, <2>1 DEF Resized, RenderWind
    <3> QED
      BY <3>1, NotesDrawn
  <2>3. P.lines = SplitIntoSegments(Only(c)) /\ P.shaded = Shading(c)
    BY <2>1 DEF NoPicture, WithRose, SpeedChart
  <2>4. P # NoPicture
    BY <1>4, <1>6, <2>3 DEF NoPicture
  <2> QED
    BY <1>3, <1>6, <2>2, <2>3, <2>4
<1>7. CASE c.chart = "rain" /\ Drawn(c) # {}
  <2>1. PICK P : P = [NoPicture EXCEPT !.marks = Drawn(c), !.shaded = Shading(c)]
    OBVIOUS
  <2>2. Pictured(r, c, P, 0)
    <3>1. r = [c EXCEPT !.notes = 0, !.picture = P]
      BY <1>7, <2>1 DEF Resized, RenderRain
    <3> QED
      BY <3>1, NotesDrawn
  <2>3. P.lines = {} /\ P.shaded = Shading(c) /\ P.marks = Drawn(c)
    BY <2>1 DEF NoPicture
  <2>4. P # NoPicture
    BY <1>7, <2>3 DEF NoPicture
  <2> QED
    BY <1>3, <1>7, <2>2, <2>3, <2>4
<1>8. CASE c.chart = "multi"
  <2>1. CASE DOMAIN c.series = {}
    <3>1. Pictured(r, c, NoPicture, c.notes)
      <4>1. r = [c EXCEPT !.picture = NoPicture]
        BY <1>8, <2>1 DEF Resized, RenderMulti
      <4> QED
        BY <4>1, PictureOnly
    <3>2. /\ IsChart(r) /\ r.chart = c.chart /\ r.series = c.series
          /\ r.from = c.from /\ r.to = c.to /\ r.rose = c.rose
          /\ r.picture = NoPicture /\ r.notes = c.notes
      BY <3>1 DEF Pictured
    <3>3. Drawn(c) = {}
      BY <2>1 DEF Drawn
    <3> QED
      BY <1>1, <1>8, <2>1, <3>2, <3>3
  <2>2. CASE DOMAIN c.series # {} /\ Drawn(c) = {}
    <3>1. Pictured(r, c, NoPicture, c.notes + 1)
      <4>1. r = [c EXCEPT !.picture = NoPicture, !.notes = c.notes + 1]
        BY <1>8, <2>2 DEF Resized, RenderMulti
      <4> QED
        BY <4>1, DrawnNotes
    <3>2. /\ IsChart(r) /\ r.chart = c.chart /\ r.series = c.series
          /\ r.from = c.from /\ r.to = c.to /\ r.rose = c.rose
          /\ r.picture = NoPicture /\ r.notes = c.notes + 1
      BY <3>1 DEF Pictured
    <3> QED
      BY <1>1, <1>8, <2>2, <3>2
  <2>3. CASE Drawn(c) # {}
    <3>1. PICK P : P = [NoPicture EXCEPT !.lines = {c.series[s] : s \in DOMAIN c.series} \ {<<>>}]
      OBVIOUS
    <3>2. DOMAIN c.series # {}
      BY <2>3 DEF Drawn
    <3>3. Pictured(r, c, P, 0)
      <4>1. r = [c EXCEPT !.notes = 0, !.picture = P]
        BY <1>8, <2>3, <3>1, <3>2 DEF Resized, RenderMulti
      <4> QED
        BY <4>1, NotesDrawn
    <3>4. /\ IsChart(r) /\ r.chart = c.chart /\ r.series = c.series
          /\ r.from = c.from /\ r.to = c.to /\ r.rose = c.rose
          /\ r.picture = P /\ r.notes = 0
      BY <3>3 DEF Pictured
    <3>5. PICK s \in DOMAIN c.series : ToSet(c.series[s]) # {}
      BY <2>3 DEF Drawn
    <3>6. c.series[s] # <<>>
      BY <3>5, ToSetOfSeq DEF HasSeries
    <3>7. P.lines = {c.series[x] : x \in DOMAIN c.series} \ {<<>>}
      BY <3>1 DEF NoPicture
    <3>8. P # NoPicture
      <4>1. c.series[s] \in P.lines
        BY <3>6, <3>7
      <4> QED
        BY <4>1 DEF NoPicture
    <3> QED
      BY <1>1, <1>8, <2>3, <3>2, <3>4, <3>8
  <2> QED
    BY <2>1, <2>2, <2>3
<1> QED
  BY <1>2, <1>5, <1>6, <1>7, <1>8 DEF HasSeries, ChartKind

-----------------------------------------------------------------------------
(* Loading                                                                 *)

\* The series are those of sensors that are shown, in a tab that of the tab.
LEMMA ChartedIs ==
  ASSUME TypesInv, NEW p, PageOK(p)
  PROVE  /\ Charted(p) \subseteq p.shown
         /\ p.kind = "installation" => Charted(p) = p.shown
<1>1. Charted(p) \subseteq p.shown
  BY DEF Charted, Wanted
<1>2. ASSUME p.kind = "installation" PROVE Charted(p) = p.shown
  <2>1. PICK tab : p.shown = {tab}
    BY <1>2 DEF PageOK
  <2>2. tab \in Source /\ station[tab] \in Nat
    <3>1. p.shown \subseteq Source
      BY DEF PageOK
    <3> QED
      BY <2>1, <3>1 DEF TypesInv
  <2>3. Wanted(p) = {tab}
    BY <1>2, <2>1 DEF Wanted
  <2>4. {u \in Wanted(p) : station[u] < station[tab]} = {}
    BY <2>2, <2>3
  <2>5. Cardinality({u \in Wanted(p) : station[u] < station[tab]}) < Colors
    BY <2>4, FS_EmptySet, PageAssumption
  <2> QED
    BY <2>1, <2>3, <2>5 DEF Charted
<1> QED
  BY <1>1, <1>2

\* They follow from the page and the stations.
LEMMA ChartedSame ==
  ASSUME NEW p, page' = p, site' = site, station' = station
  PROVE  Charted(page)' = Charted(p)
BY DEF Charted, Wanted

\* The readings of a sensor are finitely many numbers.
LEMMA StoredIsFinite ==
  ASSUME TypesInv, NEW s \in Source
  PROVE  stored[s] \subseteq Int /\ IsFiniteSet(stored[s])
<1>1. now + MaxAhead \in Int /\ Earliest \in Int
  BY PageAssumption DEF TypesInv
<1>2. stored[s] \subseteq Earliest..now + MaxAhead
  BY DEF TypesInv, Dates
<1>3. IsFiniteSet(Earliest..now + MaxAhead)
  BY <1>1, FS_Interval
<1>4. IsFiniteSet(stored[s])
  BY <1>2, <1>3, FS_Subset
<1> QED
  BY <1>1, <1>2, <1>4

\* The answer of the read action: the readings of the interval in order.
LEMMA ForSensorIs ==
  ASSUME TypesInv, NEW s \in Source, NEW from \in Int, NEW to \in Int,
         NEW D, D = ForSensor(s, from, to)
  PROVE  /\ D \in Seq(Int) /\ Ordered(D)
         /\ ToSet(D) = {t \in stored[s] : from <= t /\ t <= to}
<1> PICK S : S = {t \in stored[s] : from <= t /\ t <= to}
  OBVIOUS
<1>1. S \subseteq Int /\ IsFiniteSet(S)
  <2>1. S \subseteq stored[s]
    OBVIOUS
  <2> QED
    BY <2>1, StoredIsFinite, FS_Subset
<1>2. D = Ascending(S)
  BY DEF ForSensor
<1> QED
  BY <1>1, <1>2, AscendingSeq

\* What a load leaves in the hook.
LEMMA PushLoads ==
  ASSUME TypesInv, NEW p, Charted(p) \subseteq Source, p.shown # {}, p.from \in Int, p.to \in Int,
         NEW c, IsChart(c), c.chart \in ChartKind, c.notes \in Nat,
         c.chart # "multi" => \E s : Charted(p) = {s},
         NEW r, r = PushChartData(p, c)
  PROVE  /\ IsChart(r) /\ HasSeries(r) /\ PictureIsCurrent(r)
         /\ r.chart = c.chart /\ r.series = Fetched(p)
         /\ r.from = p.from /\ r.to = p.to
         /\ r.chart = "wind" => r.rose = ToSet(Fetched(p)[Tab(p)])
<1> PICK S : S = Fetched(p)
  OBVIOUS
<1>1. S \in [Charted(p) -> Seq(Int)] /\ DOMAIN S = Charted(p)
  <2>1. ASSUME NEW s \in Charted(p) PROVE ForSensor(s, p.from, p.to) \in Seq(Int)
    BY ForSensorIs
  <2> QED
    BY <2>1 DEF Fetched
<1>y. PICK y : y = Load(c, S, p.from, p.to)
  OBVIOUS
<1>2. /\ IsChart(y)
      /\ y.chart = c.chart /\ y.series = S
      /\ y.from = p.from /\ y.to = p.to /\ y.rose = c.rose
      /\ y.picture = c.picture /\ y.notes = c.notes
  <2>1. y = [c EXCEPT !.series = S, !.from = p.from, !.to = p.to]
    BY <1>y DEF Load
  <2>2. Refilled(y, c, S, p.from, p.to)
    BY <2>1, SeriesLoaded
  <2> QED
    BY <2>2 DEF Refilled
<1>z. PICK z : z = [y EXCEPT !.rose = ToSet(S[Tab(p)])]
  OBVIOUS
<1>3. /\ IsChart(z)
      /\ z.chart = y.chart /\ z.series = y.series
      /\ z.from = y.from /\ z.to = y.to /\ z.rose = ToSet(S[Tab(p)])
      /\ z.picture = y.picture /\ z.notes = y.notes
  <2>1. IsChart(y)
    BY <1>2
  <2>2. Rosed(z, y, ToSet(S[Tab(p)]))
    BY <1>z, <2>1, RoseOnly
  <2> QED
    BY <2>2 DEF Rosed
<1>4. HasSeries(y) /\ HasSeries(z)
  BY <1>1, <1>2, <1>3 DEF HasSeries
<1>5. CASE c.chart = "wind"
  <2>1. r = Resized(z)
    <3>1. r = RenderWind([Load(c, S, p.from, p.to) EXCEPT !.rose = ToSet(S[Tab(p)])])
      BY <1>5 DEF PushChartData, WindData
    <3>2. z.chart = "wind"
      BY <1>2, <1>3, <1>5
    <3>3. r = RenderWind(z)
      BY <3>1, <1>y, <1>z
    <3> QED
      BY <3>2, <3>3 DEF Resized
  <2>2. z.notes \in Nat
    BY <1>2, <1>3
  <2>3. /\ IsChart(r) /\ HasSeries(r) /\ PictureIsCurrent(r)
        /\ r.chart = z.chart /\ r.series = z.series
        /\ r.from = z.from /\ r.to = z.to /\ r.rose = z.rose
    BY <1>3, <1>4, <2>1, <2>2, RenderKeeps
  <2> QED
    BY <1>2, <1>3, <2>3
<1>6. CASE c.chart # "wind"
  <2>1. r = Resized(y)
    BY <1>y, <1>2, <1>6 DEF PushChartData, LineData, RainData, MultiData, Resized, ChartKind
  <2>2. y.notes \in Nat
    BY <1>2
  <2>3. /\ IsChart(r) /\ HasSeries(r) /\ PictureIsCurrent(r)
        /\ r.chart = y.chart /\ r.series = y.series
        /\ r.from = y.from /\ r.to = y.to /\ r.rose = y.rose
    BY <1>2, <1>4, <2>1, <2>2, RenderKeeps
  <2> QED
    BY <1>2, <1>6, <2>3
<1> QED
  BY <1>5, <1>6

-----------------------------------------------------------------------------
(* The events of the viewer                                                *)

\* Whatever page and hook an event leaves, its load makes them agree.
LEMMA ReloadKeeps ==
  ASSUME PageIInv, NEW p, PageOK(p), p.kind = page.kind,
         NEW c, IsChart(c), c.chart \in ChartKind, c.notes \in Nat,
         p.kind = "installation" <=> c.chart # "multi",
         p.shown = {} => c = chart,
         Reload(p, c)
  PROVE  PageIInv'
<1>1. /\ page' = p /\ chart' = PushChartData(p, c)
      /\ missed' = [s \in Source |-> {t \in stored[s] : p.live /\ t > p.to}]
      /\ now' = now /\ site' = site /\ station' = station /\ stored' = stored /\ saving' = saving /\ mail' = mail
  BY DEF Reload
<1>2. TypesInv /\ PageInv /\ ChartInv /\ ReadingsInv /\ MissingInv
  BY DEF PageIInv
<1>3. /\ p.shown \subseteq Source /\ p.from \in Int /\ p.to \in Int /\ p.range \in Int
      /\ p.live \in BOOLEAN
  <2>1. /\ p.shown \subseteq Source /\ p.from \in Int /\ p.to \in Int /\ p.range \in Ranges
        /\ p.live \in BOOLEAN
    BY DEF PageOK
  <2>2. p.range \in Int
    <3>1. Ranges \subseteq Int
      BY PageAssumption
    <3> QED
      BY <2>1, <3>1
  <2> QED
    BY <2>1, <2>2
<1>4. /\ Charted(p) \subseteq Source
      /\ c.chart # "multi" => \E s : p.shown = {s} /\ Charted(p) = {s}
  BY <1>2, <1>3, ChartedIs DEF PageOK
<1>c. Charted(page)' = Charted(p)
  BY <1>1, ChartedSame
<1>5. TypesInv'
  <2>1. missed' \in [Source -> SUBSET Dates]
    <3>1. ASSUME NEW s \in Source PROVE {t \in stored[s] : p.live /\ t > p.to} \subseteq Dates
      BY <1>2 DEF TypesInv
    <3> QED
      BY <1>1, <3>1
  <2> QED
    BY <1>1, <1>2, <2>1 DEF TypesInv, Dates
<1>6. PageInv'
  <2>1. PageOK(page)'
    BY <1>1 DEF PageOK
  <2>2. SitesOK'
    BY <1>1, <1>2 DEF PageInv, SitesOK
  <2> QED
    BY <2>1, <2>2 DEF PageInv
<1>7. CASE p.shown = {}
  <2>1. chart' = chart
    BY <1>1, <1>7 DEF PushChartData
  <2>2. ChartInv'
    <3>1. (IsChart(chart) /\ HasSeries(chart) /\ PictureIsCurrent(chart))'
      <4>1. IsChart(chart) /\ HasSeries(chart) /\ PictureIsCurrent(chart)
        BY <1>2 DEF ChartInv
      <4>2. IsChart(chart') /\ HasSeries(chart') /\ PictureIsCurrent(chart')
        BY <2>1, <4>1
      <4> QED
        BY <4>2 DEF IsChart, HasSeries, PictureIsCurrent, Drawn, Shading, Only
    <3>2. chart.from \in Int /\ chart.to \in Int /\ chart.to <= now
      BY <1>2 DEF ChartInv
    <3>3. p.kind = "installation" <=> chart.chart # "multi"
      BY <1>7
    <3> QED
      BY <1>1, <1>7, <2>1, <3>1, <3>2, <3>3 DEF ChartInv
  <2>3. ReadingsInv'
    BY <1>1, <1>2, <2>1 DEF ReadingsInv
  <2>4. MissingInv'
    <3>1. Charted(p) = {}
      BY <1>2, <1>7, ChartedIs
    <3> QED
      BY <1>c, <3>1 DEF MissingInv
  <2> QED
    BY <1>5, <1>6, <2>2, <2>3, <2>4 DEF PageIInv
<1>8. CASE p.shown # {}
  <2>r. PICK r : r = chart'
    OBVIOUS
  <2>1. /\ IsChart(r) /\ HasSeries(r) /\ PictureIsCurrent(r)
        /\ r.chart = c.chart /\ r.series = Fetched(p)
        /\ r.from = p.from /\ r.to = p.to
        /\ r.chart = "wind" => r.rose = ToSet(Fetched(p)[Tab(p)])
    <3>1. r = PushChartData(p, c)
      BY <1>1, <2>r
    <3> QED
      BY <1>2, <1>3, <1>4, <1>8, <3>1, PushLoads
  <2>2. DOMAIN r.series = Charted(p)
    BY <2>1 DEF Fetched
  <2>3. ASSUME NEW s \in Charted(p)
        PROVE  /\ s \in Source /\ Ordered(r.series[s])
               /\ ToSet(r.series[s]) = {t \in stored[s] : p.from <= t /\ t <= p.to}
    <3>1. r.series[s] = ForSensor(s, p.from, p.to)
      BY <2>1 DEF Fetched
    <3> QED
      BY <1>2, <1>3, <1>4, <3>1, ForSensorIs
  <2>4. ChartInv'
    <3>1. IsChart(chart') /\ HasSeries(chart') /\ PictureIsCurrent(chart')
      BY <2>1, <2>r
    <3>2. (IsChart(chart) /\ HasSeries(chart) /\ PictureIsCurrent(chart))'
      BY <3>1 DEF IsChart, HasSeries, PictureIsCurrent, Drawn, Shading, Only
    <3>3. r.from \in Int /\ r.to \in Int /\ r.to <= now
      BY <1>3, <2>1 DEF PageOK
    <3>4. p.kind = "installation" <=> r.chart # "multi"
      BY <2>1
    <3>5. ~p.live => r.from = p.from /\ r.to = p.to
      BY <2>1
    <3>6. p.live => r.to - r.from = p.range /\ p.from <= r.from
      <4>1. p.live => p.to = p.from + p.range
        BY DEF PageOK
      <4> QED
        BY <1>3, <2>1, <4>1
    <3> QED
      BY <1>1, <1>c, <2>r, <2>2, <3>2, <3>3, <3>4, <3>5, <3>6 DEF ChartInv
  <2>5. ReadingsInv'
    <3>1. ASSUME NEW s \in Charted(p), NEW t \in ToSet(r.series[s])
          PROVE  /\ t \in stored[s] /\ r.from <= t /\ t <= r.to
                 /\ r.chart = "wind" => t \in r.rose
      <4>1. t \in stored[s] /\ r.from <= t /\ t <= r.to
        BY <2>1, <2>3
      <4>2. ASSUME r.chart = "wind" PROVE t \in r.rose
        <5>1. PICK x : p.shown = {x} /\ Charted(p) = {x}
          BY <1>4, <2>1, <4>2
        <5>2. Tab(p) = s
          BY <5>1 DEF Tab
        <5> QED
          BY <2>1, <4>2, <5>2
      <4> QED
        BY <4>1, <4>2
    <3> QED
      BY <1>1, <2>r, <2>2, <2>3, <3>1 DEF ReadingsInv, Ordered
  <2>6. MissingInv'
    <3>1. ASSUME p.live, NEW s \in Charted(p), NEW t \in stored[s]
          PROVE  t \in ToSet(r.series[s]) \/ t < r.from \/ t \in missed'[s]
      <4>1. t \in Int
        BY <1>2, <1>4, StoredIsFinite
      <4>2. CASE t > p.to
        BY <1>1, <1>4, <3>1, <4>2
      <4>3. CASE p.from <= t /\ t <= p.to
        BY <2>3, <4>3
      <4>4. CASE t < p.from
        BY <2>1, <4>4
      <4> QED
        BY <1>3, <4>1, <4>2, <4>3, <4>4
    <3> QED
      BY <1>1, <1>c, <2>r, <3>1 DEF MissingInv, Excused
  <2> QED
    BY <1>5, <1>6, <2>4, <2>5, <2>6 DEF PageIInv
<1> QED
  BY <1>7, <1>8

\* The smaller one of two numbers.
LEMMA MinOfTwo ==
  ASSUME NEW a \in Int, NEW b \in Int, NEW m, m = Min({a, b})
  PROVE  m \in {a, b} /\ m <= a /\ m <= b
<1>1. {a, b} \subseteq Int /\ IsFiniteSet({a, b}) /\ {a, b} # {}
  <2>1. IsFiniteSet({a}) /\ {a, b} = {a} \cup {b}
    BY FS_Singleton
  <2>2. IsFiniteSet({a} \cup {b})
    BY <2>1, FS_AddElement
  <2> QED
    BY <2>1, <2>2
<1> QED
  BY <1>1, MinMaxOfFinite

\* The lengths a window may have.
LEMMA RangeIsLength ==
  ASSUME NEW range \in Ranges
  PROVE  range \in Nat /\ range > 0 /\ Recent <= range /\ Recent \in Nat
<1>1. Ranges \subseteq Nat \ {0}
  BY PageAssumption
<1>2. \A r \in Ranges : Recent <= r
  BY PageAssumption
<1>3. Recent \in Nat
  BY PageAssumption
<1> QED
  BY <1>1, <1>2, <1>3

\* The fields of a page that has another window.
Moved(q, p, range, from, to, live) ==
  /\ q \in [kind : {p.kind}, shown : {p.shown}, type : {p.type}, heard : {p.heard}, range : {range},
            from : {from}, to : {to}, live : {live}]
  /\ q.kind = p.kind /\ q.shown = p.shown /\ q.type = p.type /\ q.heard = p.heard
  /\ q.range = range /\ q.from = from /\ q.to = to /\ q.live = live

\* A page may get any window that ends now at the latest.
LEMMA MovedIsOK ==
  ASSUME NEW p, PageOK(p), NEW range \in Ranges, NEW from \in Int, NEW to \in Int,
         NEW live \in BOOLEAN, from <= to, to <= now, live => to = from + range,
         NEW q, Moved(q, p, range, from, to, live)
  PROVE  PageOK(q) /\ q.kind = p.kind /\ q.shown = p.shown
<1>1. /\ p.kind \in {"installation", "compare"} /\ p.shown \in SUBSET Source
      /\ p.type \in Slug
      /\ p.heard \in SUBSET Source /\ p.shown \subseteq p.heard
      /\ p.kind = "installation" => p.heard = Source /\ \E tab : p.shown = {tab}
  BY DEF PageOK
<1>2. q \in [kind : {"installation", "compare"}, shown : SUBSET Source, type : Slug,
             heard : SUBSET Source, range : Ranges, from : Int, to : Int,
             live : BOOLEAN]
  BY <1>1 DEF Moved
<1>3. /\ q.kind = p.kind /\ q.shown = p.shown /\ q.type = p.type /\ q.heard = p.heard
      /\ q.range = range /\ q.from = from /\ q.to = to /\ q.live = live
  BY DEF Moved
<1> QED
  BY <1>1, <1>2, <1>3 DEF PageOK

\* Of the four fields of a window two or three are set anew ...
LEMMA LatestMoves ==
  ASSUME NEW p, PageOK(p), NEW range, NEW f, NEW u, NEW l, NEW q,
         q = [p EXCEPT !.range = range, !.from = f, !.to = u, !.live = l]
  PROVE  Moved(q, p, range, f, u, l)
<1>1. p \in [kind : {"installation", "compare"}, shown : SUBSET Source, type : Slug,
             heard : SUBSET Source, range : Ranges, from : Int, to : Int,
             live : BOOLEAN]
  BY DEF PageOK
<1>2. /\ q.kind = p.kind /\ q.shown = p.shown /\ q.type = p.type /\ q.heard = p.heard
      /\ q.range = range /\ q.from = f /\ q.to = u /\ q.live = l
  BY <1>1
<1>3. q \in [kind : {p.kind}, shown : {p.shown}, type : {p.type}, heard : {p.heard}, range : {range},
             from : {f}, to : {u}, live : {l}]
  BY <1>1
<1> QED
  BY <1>2, <1>3 DEF Moved

\* ... and the way back keeps the range.
LEMMA PrevMoves ==
  ASSUME NEW p, PageOK(p), NEW f, NEW u, NEW l, NEW q,
         q = [p EXCEPT !.from = f, !.to = u, !.live = l]
  PROVE  Moved(q, p, p.range, f, u, l)
<1>1. p \in [kind : {"installation", "compare"}, shown : SUBSET Source, type : Slug,
             heard : SUBSET Source, range : Ranges, from : Int, to : Int,
             live : BOOLEAN]
  BY DEF PageOK
<1>2. /\ q.kind = p.kind /\ q.shown = p.shown /\ q.type = p.type /\ q.heard = p.heard
      /\ q.range = p.range /\ q.from = f /\ q.to = u /\ q.live = l
  BY <1>1
<1>3. q \in [kind : {p.kind}, shown : {p.shown}, type : {p.type}, heard : {p.heard}, range : {p.range},
             from : {f}, to : {u}, live : {l}]
  BY <1>1
<1> QED
  BY <1>2, <1>3 DEF Moved

\* Following the present.
LEMMA LatestIsOK ==
  ASSUME now \in Nat, NEW p, PageOK(p), NEW range \in Ranges,
         NEW q, q = LatestChartWindow(p, range)
  PROVE  PageOK(q) /\ q.kind = p.kind /\ q.shown = p.shown
<1>f. PICK f : f = now - range
  OBVIOUS
<1>l. PICK l : l = TRUE
  OBVIOUS
<1>1. Moved(q, p, range, f, now, l)
  BY <1>f, <1>l, LatestMoves DEF LatestChartWindow
<1>2. range \in Nat
  BY RangeIsLength
<1>3. f \in Int /\ f <= now /\ now <= now /\ now \in Int
  BY <1>2, <1>f
<1>4. l => now = f + range
  BY <1>2, <1>f
<1>5. l \in BOOLEAN
  BY <1>l
<1> QED
  BY <1>1, <1>3, <1>4, <1>5, MovedIsOK

\* A window that begins at a chosen time ends now at the latest.
LEMMA ResizeIsOK ==
  ASSUME now \in Nat, NEW p, PageOK(p), NEW range \in Ranges, NEW from \in Int, from <= now,
         NEW q, q = ResizeChartWindow(p, from, range)
  PROVE  PageOK(q) /\ q.kind = p.kind /\ q.shown = p.shown
<1>m. PICK m : m = Min({from + range, now})
  OBVIOUS
<1>l. PICK l : l = (from + range <= now /\ now - m < LiveSlack)
  OBVIOUS
<1>1. Moved(q, p, range, from, m, l)
  BY <1>m, <1>l, LatestMoves DEF ResizeChartWindow
<1>2. range \in Nat
  BY RangeIsLength
<1>3. m \in {from + range, now} /\ m <= from + range /\ m <= now
  BY <1>2, <1>m, MinOfTwo
<1>4. m \in Int /\ from <= m
  BY <1>2, <1>3
<1>5. l \in BOOLEAN /\ (l => m = from + range)
  <2>1. l \in BOOLEAN
    BY <1>l, Zenon
  <2>2. l => from + range <= now
    BY <1>l, Zenon
  <2>3. from + range <= now => m = from + range
    BY <1>2, <1>4, <1>m DEF Min
  <2> QED
    BY <2>1, <2>2, <2>3
<1> QED
  BY <1>1, <1>3, <1>4, <1>5, MovedIsOK

\* The window before ...
LEMMA PrevIsOK ==
  ASSUME now \in Nat, NEW p, PageOK(p), NEW q, q = Prev(p)
  PROVE  PageOK(q) /\ q.kind = p.kind /\ q.shown = p.shown
<1>f. PICK f : f = p.from - p.range
  OBVIOUS
<1>l. PICK l : l = FALSE
  OBVIOUS
<1>1. Moved(q, p, p.range, f, p.from, l)
  BY <1>f, <1>l, PrevMoves DEF Prev
<1>2. p.range \in Ranges /\ p.from \in Int /\ p.to \in Int /\ p.from <= p.to /\ p.to <= now
  BY DEF PageOK
<1>3. p.range \in Nat
  BY <1>2, RangeIsLength
<1>4. f \in Int /\ f <= p.from /\ p.from <= now
  BY <1>2, <1>3, <1>f
<1>5. l => p.from = f + p.range
  BY <1>l
<1>6. l \in BOOLEAN
  BY <1>l
<1> QED
  BY <1>1, <1>2, <1>4, <1>5, <1>6, MovedIsOK

\* ... and the one behind.
LEMMA AdvanceIsOK ==
  ASSUME now \in Nat, NEW p, PageOK(p), NEW q, q = Advance(p)
  PROVE  PageOK(q) /\ q.kind = p.kind /\ q.shown = p.shown
<1>m. PICK m : m = Min({p.from + p.range, now})
  OBVIOUS
<1>1. q = ResizeChartWindow(p, m, p.range)
  BY <1>m DEF Advance
<1>2. p.range \in Ranges /\ p.from \in Int
  BY DEF PageOK
<1>3. p.range \in Nat
  BY <1>2, RangeIsLength
<1>4. p.from + p.range \in Int /\ now \in Int
  BY <1>2, <1>3
<1>5. m \in {p.from + p.range, now} /\ m <= now
  <2>1. PICK a \in Int, b \in Int : a = p.from + p.range /\ b = now
    BY <1>4
  <2>2. m = Min({a, b})
    BY <1>m, <2>1
  <2>3. m \in {a, b} /\ m <= b
    BY <2>2, MinOfTwo
  <2> QED
    BY <2>1, <2>3
<1>6. m \in Int
  BY <1>4, <1>5
<1> QED
  BY <1>1, <1>2, <1>5, <1>6, ResizeIsOK

\* An event that keeps the hook.
LEMMA ReloadOwnChart ==
  ASSUME PageIInv, NEW p, PageOK(p), p.kind = page.kind, Reload(p, chart)
  PROVE  PageIInv'
<1>1. IsChart(chart) /\ HasSeries(chart) /\ PictureIsCurrent(chart)
  BY DEF PageIInv, ChartInv
<1>2. chart.chart \in ChartKind /\ chart.notes \in Nat
  BY <1>1 DEF HasSeries, PictureIsCurrent
<1>3. p.kind = "installation" <=> chart.chart # "multi"
  BY DEF PageIInv, ChartInv
<1> QED
  BY <1>1, <1>2, <1>3, ReloadKeeps

\* Another length.
LEMMA SetChartRangeKeeps ==
  ASSUME PageIInv, SetChartRange
  PROVE  PageIInv'
<1>1. PageOK(page) /\ now \in Nat
  BY DEF PageIInv, PageInv, TypesInv
<1>2. page.from \in Int /\ page.from <= now
  BY <1>1 DEF PageOK
<1>3. PICK range \in Ranges :
        Reload(IF page.live THEN LatestChartWindow(page, range)
                            ELSE ResizeChartWindow(page, page.from, range), chart)
  BY DEF SetChartRange
<1>4. CASE page.live
  <2>1. PICK p : p = LatestChartWindow(page, range)
    OBVIOUS
  <2>2. PageOK(p) /\ p.kind = page.kind
    BY <1>1, <2>1, LatestIsOK
  <2>3. Reload(p, chart)
    BY <1>3, <1>4, <2>1
  <2> QED
    BY <2>2, <2>3, ReloadOwnChart
<1>5. CASE ~page.live
  <2>1. PICK p : p = ResizeChartWindow(page, page.from, range)
    OBVIOUS
  <2>2. PageOK(p) /\ p.kind = page.kind
    BY <1>1, <1>2, <2>1, ResizeIsOK
  <2>3. Reload(p, chart)
    BY <1>3, <1>5, <2>1
  <2> QED
    BY <2>2, <2>3, ReloadOwnChart
<1> QED
  BY <1>4, <1>5

\* Another begin.
LEMMA JumpKeeps ==
  ASSUME PageIInv, JumpToDatetime
  PROVE  PageIInv'
<1>1. PageOK(page) /\ now \in Nat
  BY DEF PageIInv, PageInv, TypesInv
<1>2. PICK from \in Earliest..now : Reload(ResizeChartWindow(page, from, page.range), chart)
  BY DEF JumpToDatetime
<1>3. from \in Int /\ from <= now
  BY <1>1, PageAssumption
<1>4. PICK p : p = ResizeChartWindow(page, from, page.range)
  OBVIOUS
<1>5. page.range \in Ranges
  BY <1>1 DEF PageOK
<1>6. PageOK(p) /\ p.kind = page.kind
  BY <1>1, <1>3, <1>4, <1>5, ResizeIsOK
<1>7. Reload(p, chart)
  BY <1>2, <1>4
<1> QED
  BY <1>6, <1>7, ReloadOwnChart

\* The buttons around the chart.
LEMMA NavKeeps ==
  ASSUME PageIInv, NavPrev \/ NavNext \/ NavNow
  PROVE  PageIInv'
<1>1. PageOK(page) /\ now \in Nat
  BY DEF PageIInv, PageInv, TypesInv
<1>2. page.range \in Ranges
  BY <1>1 DEF PageOK
<1>3. PICK p : /\ p = Prev(page) \/ p = Advance(page) \/ p = LatestChartWindow(page, page.range)
               /\ Reload(p, chart)
  BY DEF NavPrev, NavNext, NavNow
<1>4. PageOK(p) /\ p.kind = page.kind
  <2>1. CASE p = Prev(page)
    BY <1>1, <2>1, PrevIsOK
  <2>2. CASE p = Advance(page)
    BY <1>1, <2>2, AdvanceIsOK
  <2>3. CASE p = LatestChartWindow(page, page.range)
    BY <1>1, <1>2, <2>3, LatestIsOK
  <2> QED
    BY <1>3, <2>1, <2>2, <2>3
<1> QED
  BY <1>3, <1>4, ReloadOwnChart

\* An empty hook.
LEMMA MountedIs ==
  ASSUME NEW sort, NEW c, c = Mounted(sort)
  PROVE  /\ IsChart(c) /\ c.chart = sort /\ c.notes = 0
         /\ DOMAIN c.series = {} /\ c.series \in [DOMAIN c.series -> Seq(Int)]
         /\ c.picture = NoPicture /\ c.from = 0 /\ c.to = 0
<1>1. /\ c.chart = sort /\ c.notes = 0 /\ c.series = [s \in {} |-> <<>>]
      /\ c.picture = NoPicture /\ c.from = 0 /\ c.to = 0 /\ c.rose = {}
  BY DEF Mounted
<1>2. DOMAIN c.series = {} /\ c.series \in [DOMAIN c.series -> Seq(Int)]
  BY <1>1
<1>3. IsChart(c)
  BY <1>1 DEF IsChart, Mounted
<1> QED
  BY <1>1, <1>2, <1>3

\* The chart of a sensor is one of one series.
LEMMA ChartTypeIs ==
  ASSUME NEW slug
  PROVE  ChartType(slug) \in ChartKind /\ ChartType(slug) # "multi"
BY DEF ChartType, ChartKind

\* Another sensor of the station.
LEMMA SetChartTabKeeps ==
  ASSUME PageIInv, SetChartTab
  PROVE  PageIInv'
<1>1. PageOK(page) /\ ChartInv
  BY DEF PageIInv, PageInv
<1>2. PICK tab \in Source :
        /\ page.kind = "installation"
        /\ Reload([page EXCEPT !.shown = {tab}],
                  IF tab \in page.shown THEN chart ELSE Mounted(ChartType(site[tab])))
  BY DEF SetChartTab
<1>3. PICK p : p = [page EXCEPT !.shown = {tab}]
  OBVIOUS
<1>4. PICK c : c = IF tab \in page.shown THEN chart ELSE Mounted(ChartType(site[tab]))
  OBVIOUS
<1>5. Reload(p, c)
  BY <1>2, <1>3, <1>4
<1>6. PageOK(p) /\ p.kind = page.kind /\ p.shown = {tab}
  <2>1. /\ p.kind = page.kind /\ p.shown = {tab} /\ p.heard = page.heard
        /\ p.type = page.type
        /\ p.range = page.range /\ p.from = page.from /\ p.to = page.to /\ p.live = page.live
    BY <1>1, <1>3 DEF PageOK
  <2>2. p \in [kind : {"installation", "compare"}, shown : SUBSET Source, type : Slug,
               heard : SUBSET Source, range : Ranges, from : Int, to : Int,
               live : BOOLEAN]
    BY <1>1, <1>3 DEF PageOK
  <2>3. p.shown \subseteq p.heard
    BY <1>1, <1>2, <2>1 DEF PageOK
  <2> QED
    BY <1>1, <1>2, <2>1, <2>2, <2>3 DEF PageOK
<1>7. IsChart(c) /\ c.chart \in ChartKind /\ c.notes \in Nat /\ c.chart # "multi"
  <2>1. CASE tab \in page.shown
    BY <1>1, <1>2, <1>4, <2>1 DEF ChartInv, HasSeries, PictureIsCurrent
  <2>2. CASE tab \notin page.shown
    <3>1. PICK sort : sort = ChartType(site[tab])
      OBVIOUS
    <3>2. sort \in ChartKind /\ sort # "multi"
      BY <3>1, ChartTypeIs
    <3>3. c = Mounted(sort)
      BY <1>4, <2>2, <3>1
    <3> QED
      BY <3>2, <3>3, MountedIs
  <2> QED
    BY <2>1, <2>2
<1>8. p.kind = "installation" /\ p.shown # {}
  BY <1>2, <1>6
<1> QED
  BY <1>5, <1>6, <1>7, <1>8, ReloadKeeps

\* The selection and the subscriptions of a comparison.
LEMMA RefreshKeeps ==
  ASSUME PageIInv, page.kind = "compare", NEW q, q.shown \subseteq Source, q.type \in Slug,
         q = [page EXCEPT !.shown = q.shown] \/ q = [page EXCEPT !.type = q.type],
         Refresh(q)
  PROVE  PageIInv'
<1>1. PageOK(page)
  BY DEF PageIInv, PageInv
<1>2. /\ q.kind = page.kind /\ q.heard = page.heard
      /\ q.range = page.range /\ q.from = page.from /\ q.to = page.to /\ q.live = page.live
      /\ q \in [kind : {"installation", "compare"}, shown : SUBSET Source, type : Slug,
                heard : SUBSET Source, range : Ranges, from : Int, to : Int,
                live : BOOLEAN]
  <2>1. CASE q = [page EXCEPT !.shown = q.shown]
    BY <1>1, <2>1 DEF PageOK
  <2>2. CASE q = [page EXCEPT !.type = q.type]
    BY <1>1, <2>2 DEF PageOK
  <2> QED
    BY <2>1, <2>2
<1>3. PICK p : p = [q EXCEPT !.heard = (q.heard \ p.shown) \cup p.shown]
  <2>1. PICK p : p = [q EXCEPT !.heard = (q.heard \ q.shown) \cup q.shown]
    OBVIOUS
  <2>2. p.shown = q.shown
    BY <1>2, <2>1
  <2> QED
    BY <2>1, <2>2
<1>4. p.shown = q.shown
  BY <1>2, <1>3
<1>5. Reload(p, chart)
  BY <1>3, <1>4 DEF Refresh
<1>6. /\ p.kind = q.kind /\ p.heard = (q.heard \ q.shown) \cup q.shown
      /\ p.range = q.range /\ p.from = q.from /\ p.to = q.to /\ p.live = q.live
      /\ p \in [kind : {"installation", "compare"}, shown : SUBSET Source, type : Slug,
                heard : SUBSET Source, range : Ranges, from : Int, to : Int,
                live : BOOLEAN]
  BY <1>2, <1>3, <1>4
<1>7. PageOK(p)
  BY <1>1, <1>2, <1>4, <1>6 DEF PageOK
<1> QED
  BY <1>2, <1>5, <1>6, <1>7, ReloadOwnChart

\* One more station, or one less.
LEMMA ToggleStationKeeps ==
  ASSUME PageIInv, ToggleStation
  PROVE  PageIInv'
<1>1. page \in [kind : {"installation", "compare"}, shown : SUBSET Source, type : Slug,
                heard : SUBSET Source, range : Ranges, from : Int, to : Int,
                live : BOOLEAN]
  BY DEF PageIInv, PageInv, PageOK
<1>2. PICK s \in Source :
        /\ page.kind = "compare"
        /\ Refresh([page EXCEPT !.shown = SymDiff(@, {x \in Source : station[x] = station[s]})])
  BY DEF ToggleStation
<1>3. PICK shown : shown = SymDiff(page.shown, {x \in Source : station[x] = station[s]})
  OBVIOUS
<1>4. PICK q : q = [page EXCEPT !.shown = shown]
  OBVIOUS
<1>5. shown \subseteq Source
  BY <1>1, <1>3 DEF SymDiff
<1>6. q.shown = shown /\ q.type \in Slug
  BY <1>1, <1>4
<1>7. Refresh(q)
  BY <1>2, <1>3, <1>4
<1> QED
  BY <1>2, <1>4, <1>5, <1>6, <1>7, RefreshKeeps

\* Another type, for the stations as they are selected.
LEMMA SetMeasurementTypeKeeps ==
  ASSUME PageIInv, SetMeasurementType
  PROVE  PageIInv'
<1>1. page \in [kind : {"installation", "compare"}, shown : SUBSET Source, type : Slug,
                heard : SUBSET Source, range : Ranges, from : Int, to : Int,
                live : BOOLEAN]
  BY DEF PageIInv, PageInv, PageOK
<1>2. PICK type \in Types :
        page.kind = "compare" /\ Refresh([page EXCEPT !.type = type])
  BY DEF SetMeasurementType
<1>3. PICK q : q = [page EXCEPT !.type = type]
  OBVIOUS
<1>4. q.shown \subseteq Source /\ q.type = type /\ type \in Slug
  BY <1>1, <1>2, <1>3, PageAssumption
<1> QED
  BY <1>2, <1>3, <1>4, RefreshKeeps

\* All events of the viewer.
LEMMA ViewerEventKeeps ==
  ASSUME PageIInv, Viewer
  PROVE  PageIInv'
BY SetChartRangeKeeps, JumpKeeps, NavKeeps, SetChartTabKeeps, ToggleStationKeeps,
   SetMeasurementTypeKeeps
DEF Viewer

-----------------------------------------------------------------------------
(* Appending                                                               *)

\* A reading that is not before the others is put at the end.
LEMMA AppendOne ==
  ASSUME NEW data \in Seq(Int), Ordered(data), NEW t \in Int, \A u \in ToSet(data) : u <= t,
         NEW E, E = Append(data, t)
  PROVE  /\ E \in Seq(Int) /\ Ordered(E) /\ E # <<>> /\ Last(E) = t
         /\ \A u : u \in ToSet(E) <=> u \in ToSet(data) \/ u = t
         /\ \A u \in Int : FullSince(data, u) => FullSince(E, u)
<1>1. E \in Seq(Int) /\ Len(E) = Len(data) + 1 /\ Len(data) \in Nat
  OBVIOUS
<1>2. /\ E[Len(data) + 1] = t
      /\ \A i \in 1..Len(data) : E[i] = data[i]
  OBVIOUS
<1>3. \A u : u \in ToSet(data) <=> \E i \in 1..Len(data) : data[i] = u
  BY ToSetOfSeq
<1>4. \A u : u \in ToSet(E) <=> \E i \in 1..Len(E) : E[i] = u
  BY <1>1, ToSetOfSeq
<1>5. \A u : u \in ToSet(E) <=> u \in ToSet(data) \/ u = t
  <2>1. ASSUME NEW u, u \in ToSet(E) PROVE u \in ToSet(data) \/ u = t
    <3>1. PICK i \in 1..Len(E) : E[i] = u
      BY <1>4, <2>1
    <3>2. i \in 1..Len(data) \/ i = Len(data) + 1
      BY <1>1
    <3> QED
      BY <1>2, <1>3, <3>1, <3>2
  <2>2. ASSUME NEW u, u \in ToSet(data) PROVE u \in ToSet(E)
    <3>1. PICK i \in 1..Len(data) : data[i] = u
      BY <1>3, <2>2
    <3>2. i \in 1..Len(E) /\ E[i] = u
      BY <1>1, <1>2, <3>1
    <3> QED
      BY <1>4, <3>2
  <2>3. t \in ToSet(E)
    <3>1. Len(data) + 1 \in 1..Len(E)
      BY <1>1
    <3> QED
      BY <1>2, <1>4, <3>1
  <2> QED
    BY <2>1, <2>2, <2>3
<1>6. Ordered(E)
  <2>1. ASSUME NEW i \in 1..Len(E), NEW j \in 1..Len(E), i < j PROVE E[i] <= E[j]
    <3>1. i \in 1..Len(data)
      BY <1>1, <2>1
    <3>2. CASE j \in 1..Len(data)
      BY <1>2, <2>1, <3>1, <3>2 DEF Ordered
    <3>3. CASE j = Len(data) + 1
      <4>1. data[i] \in ToSet(data)
        BY <1>3, <3>1
      <4> QED
        BY <1>2, <3>1, <3>3, <4>1
    <3> QED
      BY <1>1, <3>2, <3>3
  <2> QED
    BY <2>1 DEF Ordered
<1>7. ASSUME NEW u \in Int, FullSince(data, u) PROVE FullSince(E, u)
  <2>1. MaxPoints \in Nat \ {0} /\ Len(data) >= MaxPoints /\ \A v \in ToSet(data) : u <= v
    BY <1>7, ChartAssumption DEF FullSince
  <2>2. 1 \in 1..Len(data) /\ data[1] \in Int
    BY <1>1, <2>1
  <2>3. data[1] \in ToSet(data)
    BY <1>3, <2>2
  <2>4. u <= t
    BY <2>1, <2>2, <2>3
  <2>5. Len(E) >= MaxPoints
    BY <1>1, <2>1
  <2> QED
    BY <1>5, <2>1, <2>4, <2>5 DEF FullSince
<1>8. Last(E) = t /\ E # <<>>
  BY <1>1, <1>2 DEF Last
<1> QED
  BY <1>1, <1>5, <1>6, <1>7, <1>8

\* What an append keeps of a series: D has been data, from on.
Follows(D, data, from) ==
  /\ D \in Seq(Int) /\ Ordered(D)
  /\ \A u \in ToSet(D) : from <= u
  /\ \A u \in ToSet(data) : u \in ToSet(D) \/ Past(D, from, u)
  /\ \A u \in Int : FullSince(data, u) => Past(D, from, u)

\* The series that gets the reading ...
LEMMA PointAdded ==
  ASSUME NEW data \in Seq(Int), Ordered(data), NEW t \in Int, \A u \in ToSet(data) : u <= t,
         NEW from \in Int, from <= t,
         NEW D, D = Capped(Trimmed(Append(data, t), from))
  PROVE  /\ Follows(D, data, from) /\ t \in ToSet(D)
         /\ \A u \in ToSet(D) : u \in ToSet(data) \/ u = t
<1>e. PICK E : E = Append(data, t)
  OBVIOUS
<1>1. /\ E \in Seq(Int) /\ Ordered(E) /\ E # <<>> /\ Last(E) = t
      /\ \A u : u \in ToSet(E) <=> u \in ToSet(data) \/ u = t
      /\ \A u \in Int : FullSince(data, u) => FullSince(E, u)
  BY <1>e, AppendOne
<1>2. D = Capped(Trimmed(E, from))
  BY <1>e
<1>3. /\ D \in Seq(Int) /\ Ordered(D)
      /\ ToSet(D) \subseteq {u \in ToSet(E) : u >= from}
      /\ \A u \in ToSet(E) \ ToSet(D) : Past(D, from, u)
      /\ \A u \in Int : FullSince(E, u) => Past(D, from, u)
      /\ E # <<>> /\ Last(E) >= from => Last(E) \in ToSet(D)
  BY <1>1, <1>2, GrownKeeps
<1>4. t \in ToSet(D)
  BY <1>1, <1>3
<1>5. \A u \in ToSet(D) : from <= u
  <2>1. \A u \in ToSet(D) : u \in Int /\ u >= from
    BY <1>3, ToSetOfSeq
  <2> QED
    BY <2>1
<1>6. \A u \in ToSet(D) : u \in ToSet(data) \/ u = t
  BY <1>1, <1>3
<1>7. \A u \in ToSet(data) : u \in ToSet(D) \/ Past(D, from, u)
  BY <1>1, <1>3
<1>8. \A u \in Int : FullSince(data, u) => Past(D, from, u)
  BY <1>1, <1>3
<1> QED
  BY <1>3, <1>4, <1>5, <1>6, <1>7, <1>8 DEF Follows

\* ... and the others, of which only the window moves.
LEMMA PointsPassed ==
  ASSUME NEW data \in Seq(Int), Ordered(data), NEW from \in Int,
         NEW D, D = Capped(Trimmed(data, from))
  PROVE  Follows(D, data, from) /\ ToSet(D) \subseteq ToSet(data)
<1>1. /\ D \in Seq(Int) /\ Ordered(D)
      /\ ToSet(D) \subseteq {u \in ToSet(data) : u >= from}
      /\ \A u \in ToSet(data) \ ToSet(D) : Past(D, from, u)
      /\ \A u \in Int : FullSince(data, u) => Past(D, from, u)
  BY GrownKeeps
<1>2. \A u \in ToSet(D) : u \in Int /\ u >= from
  BY <1>1, ToSetOfSeq
<1>3. \A u \in ToSet(D) : from <= u
  BY <1>2
<1> QED
  BY <1>1, <1>3 DEF Follows

\* The series of a hook after an append of t to that of s.
GrownSeries(c, s, t, from) ==
  [x \in DOMAIN c.series |->
     Capped(Trimmed(IF x = s THEN Append(c.series[x], t) ELSE c.series[x], from))]

\* r is the hook after an append of its kind.
Appended(r, c, s, t, R, from, to) ==
  /\ c.chart = "line" => r = LineAppend(c, s, t, from, to)
  /\ c.chart = "wind" => r = WindAppend(c, s, t, R, from, to)
  /\ c.chart = "rain" => r = RainAppend(c, s, t, from, to)
  /\ c.chart = "multi" => r = MultiAppend(c, s, t, from, to)

\* What an append leaves in the hook.
LEMMA AppendDraws ==
  ASSUME NEW c, IsChart(c), HasSeries(c), c.notes \in Nat,
         NEW s \in DOMAIN c.series, NEW t, NEW from, NEW to, NEW R,
         NEW S, S = GrownSeries(c, s, t, from), S \in [DOMAIN c.series -> Seq(Int)],
         NEW r, Appended(r, c, s, t, R, from, to)
  PROVE  /\ IsChart(r) /\ HasSeries(r) /\ PictureIsCurrent(r)
         /\ r.chart = c.chart /\ r.series = S /\ r.from = from /\ r.to = to
         /\ r.chart = "wind" => r.rose = R
<1>y. PICK y : y = Grow(c, s, t, from, to)
  OBVIOUS
<1>1. Refilled(y, c, S, from, to)
  <2>1. y = [c EXCEPT !.series = GrownSeries(c, s, t, from), !.from = from, !.to = to]
    BY <1>y DEF Grow, GrownSeries
  <2>2. y = [c EXCEPT !.series = S, !.from = from, !.to = to]
    BY <2>1
  <2> QED
    BY <2>2, SeriesLoaded
<1>2. /\ IsChart(y) /\ y.chart = c.chart /\ y.series = S
      /\ y.from = from /\ y.to = to /\ y.rose = c.rose
      /\ y.picture = c.picture /\ y.notes = c.notes
  BY <1>1 DEF Refilled
<1>z. PICK z : z = [y EXCEPT !.rose = R]
  OBVIOUS
<1>3. /\ IsChart(z)
      /\ z.chart = y.chart /\ z.series = y.series
      /\ z.from = y.from /\ z.to = y.to /\ z.rose = R
      /\ z.picture = y.picture /\ z.notes = y.notes
  <2>1. IsChart(y)
    BY <1>2
  <2>2. Rosed(z, y, R)
    BY <1>z, <2>1, RoseOnly
  <2> QED
    BY <2>2 DEF Rosed
<1>4. HasSeries(y) /\ HasSeries(z)
  BY <1>2, <1>3 DEF HasSeries
<1>5. CASE c.chart = "wind"
  <2>1. r = RenderWind(z)
    BY <1>y, <1>z, <1>5 DEF Appended, WindAppend
  <2>2. z.chart = "wind"
    BY <1>2, <1>3, <1>5
  <2>3. r = Resized(z)
    BY <2>1, <2>2 DEF Resized
  <2>4. z.notes \in Nat
    BY <1>2, <1>3
  <2>5. /\ IsChart(r) /\ HasSeries(r) /\ PictureIsCurrent(r)
        /\ r.chart = z.chart /\ r.series = z.series
        /\ r.from = z.from /\ r.to = z.to /\ r.rose = z.rose
    BY <1>3, <1>4, <2>3, <2>4, RenderKeeps
  <2> QED
    BY <1>2, <1>3, <2>5
<1>6. CASE c.chart # "wind"
  <2>1. c.chart \in {"line", "rain", "multi"}
    BY <1>6 DEF HasSeries, ChartKind
  <2>2. r = Resized(y)
    <3>1. CASE c.chart = "line"
      <4>1. r = RenderLine(y)
        BY <1>y, <3>1 DEF Appended, LineAppend
      <4> QED
        BY <1>2, <3>1, <4>1 DEF Resized
    <3>2. CASE c.chart = "rain"
      <4>1. r = RenderRain(y)
        BY <1>y, <3>2 DEF Appended, RainAppend
      <4> QED
        BY <1>2, <3>2, <4>1 DEF Resized
    <3>3. CASE c.chart = "multi"
      <4>1. r = RenderMulti(y)
        BY <1>y, <3>3 DEF Appended, MultiAppend
      <4> QED
        BY <1>2, <3>3, <4>1 DEF Resized
    <3> QED
      BY <2>1, <3>1, <3>2, <3>3
  <2>3. y.notes \in Nat
    BY <1>2
  <2>4. /\ IsChart(r) /\ HasSeries(r) /\ PictureIsCurrent(r)
        /\ r.chart = y.chart /\ r.series = y.series
        /\ r.from = y.from /\ r.to = y.to /\ r.rose = y.rose
    BY <1>2, <1>4, <2>2, <2>3, RenderKeeps
  <2> QED
    BY <1>2, <1>6, <2>4
<1> QED
  BY <1>5, <1>6

\* A message lets at most one reading be appended, of a source that is shown; one
\* about a series does of that one, unless it is of a kind that is never appended.
LEMMA MatchingIs ==
  ASSUME PageInv, NEW h \in Source, NEW M, M = Matching(h)
  PROVE  /\ M \subseteq page.shown
         /\ M # {} => \E m : M = {m}
         /\ h \in Charted(page) =>
              h \in M \/ (page.kind = "installation" /\ SummaryType(site[h]) = "none")
<1>1. page.kind \in {"installation", "compare"} /\ page.shown \subseteq Source
  BY DEF PageInv, PageOK
<1>2. CASE page.kind = "compare"
  <2>1. M = {x \in page.shown : station[x] = station[h] /\ site[x] = page.type}
    BY <1>2 DEF Matching
  <2>2. \A x, y \in M : x = y
    BY <1>1, <1>2, <2>1 DEF PageInv, SitesOK
  <2>3. M # {} => \E m : M = {m}
    BY <2>2
  <2>4. h \in Charted(page) => h \in M
    BY <1>2, <2>1 DEF Charted, Wanted
  <2> QED
    BY <2>1, <2>3, <2>4
<1>3. CASE page.kind = "installation"
  <2>1. M = {tab \in page.shown : SummaryType(site[h]) = SummaryType(site[tab])
                                    /\ SummaryType(site[h]) # "none"}
    BY <1>3 DEF Matching
  <2>2. PICK tab : page.shown = {tab}
    BY <1>3 DEF PageInv, PageOK
  <2>3. M \subseteq page.shown
    BY <2>1
  <2>4. h \in page.shown => h \in M \/ SummaryType(site[h]) = "none"
    BY <2>1
  <2>5. Charted(page) \subseteq page.shown
    BY DEF Charted, Wanted
  <2> QED
    BY <1>3, <2>2, <2>3, <2>4, <2>5
<1> QED
  BY <1>1, <1>2, <1>3

\* A step that leaves the page and the chart alone, and no reading out.
LEMMA ChartKept ==
  ASSUME PageIInv, chart' = chart, page' = page, site' = site, station' = station,
         now' \in Nat, now <= now',
         \A s \in Source : stored[s] \subseteq stored'[s]
  PROVE  PageInv' /\ ChartInv' /\ ReadingsInv'
<1>1. TypesInv /\ PageInv /\ ChartInv /\ ReadingsInv
  BY DEF PageIInv
<1>2. now \in Int /\ now' \in Int
  BY <1>1 DEF TypesInv
<1>3. PageInv'
  <2>1. page.to \in Int /\ page.to <= now
    BY <1>1 DEF PageInv, PageOK
  <2>2. page.to <= now'
    BY <1>2, <2>1
  <2>3. PageOK(page)'
    BY <1>1, <2>2 DEF PageInv, PageOK
  <2>4. SitesOK'
    BY <1>1 DEF PageInv, SitesOK
  <2> QED
    BY <2>3, <2>4 DEF PageInv
<1>c. Charted(page)' = Charted(page)
  BY ChartedSame
<1>4. ChartInv'
  <2>1. IsChart(chart) /\ HasSeries(chart) /\ PictureIsCurrent(chart)
    BY <1>1 DEF ChartInv
  <2>2. IsChart(chart') /\ HasSeries(chart') /\ PictureIsCurrent(chart')
    BY <2>1
  <2>3. (IsChart(chart) /\ HasSeries(chart) /\ PictureIsCurrent(chart))'
    BY <2>2 DEF IsChart, HasSeries, PictureIsCurrent, Drawn, Shading, Only
  <2>4. chart.to \in Int /\ chart.to <= now
    BY <1>1 DEF ChartInv
  <2>5. chart.to <= now'
    BY <1>2, <2>4
  <2> QED
    BY <1>1, <1>c, <2>3, <2>5 DEF ChartInv
<1>5. ReadingsInv'
  BY <1>1 DEF ReadingsInv, Ordered
<1> QED
  BY <1>3, <1>4, <1>5

\* More dates are possible as time passes.
LEMMA LaterIsLonger ==
  ASSUME NEW first \in Int, NEW ahead \in Int, NEW a \in Int, NEW b \in Int, a <= b
  PROVE  first..a + ahead \subseteq first..b + ahead
<1>1. a + ahead <= b + ahead
  OBVIOUS
<1>2. ASSUME NEW t \in first..a + ahead PROVE t \in first..b + ahead
  BY <1>1
<1> QED
  BY <1>2

\* Time passes.
LEMMA TickKeeps ==
  ASSUME PageIInv, Tick
  PROVE  PageIInv'
<1>1. TypesInv /\ MissingInv
  BY DEF PageIInv
<1>2. now' = now + 1 /\ UNCHANGED <<site, station, stored, saving, page, mail, chart, missed>>
  BY DEF Tick
<1>3. now' \in Nat /\ now <= now' /\ Earliest \in Nat /\ MaxAhead \in Nat /\ now \in Nat
  BY <1>1, <1>2, PageAssumption DEF TypesInv
<1>4. Dates \subseteq Dates'
  <2>1. now \in Int /\ now' \in Int /\ now <= now' /\ Earliest \in Int /\ MaxAhead \in Int
    BY <1>3
  <2>2. Earliest..now + MaxAhead \subseteq Earliest..now' + MaxAhead
    BY <2>1, LaterIsLonger
  <2> QED
    BY <2>2 DEF Dates
<1>5. TypesInv'
  BY <1>1, <1>2, <1>3, <1>4 DEF TypesInv
<1>6. Charted(page)' = Charted(page)
  BY <1>2, ChartedSame
<1>7. PageInv' /\ ChartInv' /\ ReadingsInv'
  BY <1>2, <1>3, ChartKept
<1>8. MissingInv'
  BY <1>1, <1>2, <1>6 DEF MissingInv, Excused, FullSince
<1> QED
  BY <1>5, <1>7, <1>8 DEF PageIInv

\* A reading is stored: its source is in saving until it is announced, so no
\* chart lacks it without excuse.
LEMMA StoreKeeps ==
  ASSUME PageIInv, NEW s \in Source, NEW t \in Dates, Store(s, t)
  PROVE  PageIInv'
<1>1. TypesInv /\ MissingInv /\ PageInv
  BY DEF PageIInv
<1>2. /\ stored' = [stored EXCEPT ![s] = @ \cup {t}]
      /\ saving' = saving \cup {s}
      /\ saving = {}
      /\ UNCHANGED <<now, site, station, page, mail, chart, missed>>
  BY DEF Store
<1>3. stored \in [Source -> SUBSET Dates]
  BY <1>1 DEF TypesInv
<1>4. /\ stored' \in [Source -> SUBSET Dates]
      /\ \A x \in Source : stored[x] \subseteq stored'[x]
      /\ \A x \in Source : x # s => stored'[x] = stored[x]
  BY <1>2, <1>3
<1>5. TypesInv'
  BY <1>1, <1>2, <1>4 DEF TypesInv, Dates
<1>6. now' \in Nat /\ now <= now' /\ Charted(page)' = Charted(page)
  BY ChartedSame, <1>1, <1>2, <1>4 DEF TypesInv
<1>7. PageInv' /\ ChartInv' /\ ReadingsInv'
  BY <1>2, <1>4, <1>6, ChartKept
<1>8. MissingInv'
  <2>1. Charted(page) \subseteq Source
    BY <1>1, ChartedIs DEF PageInv, PageOK
  <2>2. ASSUME page.live, NEW x \in Charted(page), NEW u \in stored'[x]
        PROVE  u \in ToSet(chart.series[x]) \/ Excused(x, u)'
    <3>1. CASE x = s
      BY <1>2, <3>1 DEF Excused
    <3>2. CASE x # s
      <4>1. u \in stored[x]
        BY <1>4, <2>1, <3>2
      <4>2. u \in ToSet(chart.series[x]) \/ Excused(x, u)
        BY <1>1, <2>2, <4>1 DEF MissingInv
      <4> QED
        BY <1>2, <4>2 DEF Excused, FullSince
    <3> QED
      BY <3>1, <3>2
  <2> QED
    BY <1>2, <1>6, <2>2 DEF MissingInv
<1> QED
  BY <1>5, <1>7, <1>8 DEF PageIInv

\* Its message goes to every page that shows the source.
LEMMA AnnounceKeeps ==
  ASSUME PageIInv, NEW s \in Source, Announce(s)
  PROVE  PageIInv'
<1>1. TypesInv /\ MissingInv /\ PageInv
  BY DEF PageIInv
<1>2. /\ saving' = saving \ {s}
      /\ mail' = IF s \in page.heard THEN Append(mail, s) ELSE mail
      /\ UNCHANGED <<now, site, station, stored, page, chart, missed>>
  BY DEF Announce
<1>3. mail \in Seq(Source) /\ mail' \in Seq(Source)
  BY <1>1, <1>2 DEF TypesInv
<1>4. TypesInv'
  BY <1>1, <1>2, <1>3 DEF TypesInv, Dates
<1>5. PageInv' /\ ChartInv' /\ ReadingsInv'
  <2>1. now' \in Nat /\ now <= now'
    BY <1>1, <1>2 DEF TypesInv
  <2>2. \A x \in Source : stored[x] \subseteq stored'[x]
    BY <1>2
  <2> QED
    BY <1>2, <2>1, <2>2, ChartKept
<1>6. \A x \in ToSet(mail) : x \in ToSet(mail')
  <2>1. ASSUME NEW i \in DOMAIN mail PROVE i \in DOMAIN mail' /\ mail'[i] = mail[i]
    BY <1>2, <1>3
  <2> QED
    BY <2>1 DEF ToSet
<1>7. s \in page.heard => s \in ToSet(mail')
  <2>1. ASSUME s \in page.heard PROVE Len(mail) + 1 \in DOMAIN mail' /\ mail'[Len(mail) + 1] = s
    BY <1>2, <1>3, <2>1
  <2> QED
    BY <2>1 DEF ToSet
<1>8. MissingInv'
  <2>1. Charted(page) \subseteq page.heard
    BY <1>1, ChartedIs DEF PageInv, PageOK
  <2>2. ASSUME page.live, NEW x \in Charted(page), NEW u \in stored[x]
        PROVE  u \in ToSet(chart.series[x]) \/ Excused(x, u)'
    <3>1. u \in ToSet(chart.series[x]) \/ Excused(x, u)
      BY <1>1, <2>2 DEF MissingInv
    <3>2. x \in saving => x \in saving' \/ x \in ToSet(mail')
      BY <1>2, <1>7, <2>1
    <3> QED
      BY <1>2, <1>6, <3>1, <3>2 DEF Excused, FullSince
  <2> QED
    BY <1>2, <2>2, ChartedSame DEF MissingInv
<1> QED
  BY <1>4, <1>5, <1>8 DEF PageIInv

\* Drawing the same hook again.
LEMMA ResizeKeeps ==
  ASSUME PageIInv, Resize
  PROVE  PageIInv'
<1>1. TypesInv /\ PageInv /\ ChartInv /\ ReadingsInv /\ MissingInv
  BY DEF PageIInv
<1>2. /\ chart' = Resized(chart)
      /\ UNCHANGED <<now, site, station, stored, saving, page, mail, missed>>
  BY DEF Resize
<1>3. IsChart(chart) /\ HasSeries(chart) /\ PictureIsCurrent(chart)
  BY <1>1 DEF ChartInv
<1>4. chart.notes \in Nat
  BY <1>3 DEF PictureIsCurrent
<1>5. /\ IsChart(chart') /\ HasSeries(chart') /\ PictureIsCurrent(chart')
      /\ chart'.chart = chart.chart /\ chart'.series = chart.series
      /\ chart'.from = chart.from /\ chart'.to = chart.to /\ chart'.rose = chart.rose
  BY <1>2, <1>3, <1>4, RenderKeeps
<1>6. TypesInv' /\ PageInv' /\ Charted(page)' = Charted(page)
  BY <1>1, <1>2, ChartedSame DEF TypesInv, Dates, PageInv, PageOK, SitesOK
<1>7. ChartInv'
  <2>1. (IsChart(chart) /\ HasSeries(chart) /\ PictureIsCurrent(chart))'
    BY <1>5 DEF IsChart, HasSeries, PictureIsCurrent, Drawn, Shading, Only
  <2> QED
    BY <1>1, <1>2, <1>5, <1>6, <2>1 DEF ChartInv
<1>8. ReadingsInv'
  BY <1>1, <1>2, <1>5 DEF ReadingsInv, Ordered
<1>9. MissingInv'
  BY <1>1, <1>2, <1>5, <1>6 DEF MissingInv, Excused, FullSince
<1> QED
  BY <1>6, <1>7, <1>8, <1>9 DEF PageIInv

\* A message is taken: what it leaves out is missed, or not to be had.
LEMMA TakenMessage ==
  ASSUME PageIInv, NewMeasurement, NEW M, M = Matching(Head(mail))
  PROVE  /\ TypesInv' /\ M \subseteq page.shown /\ (M # {} => \E m : M = {m})
         /\ \A s \in Charted(page) : \A t \in stored[s] : Excused(s, t) =>
              \/ t < chart.from
              \/ \E u \in ToSet(chart.series[s]) : t < u /\ u <= t + Recent
              \/ FullSince(chart.series[s], t)
              \/ t \in missed'[s]
              \/ page.kind = "installation" /\ SummaryType(site[s]) = "none"
              \/ s \in saving \/ s \in ToSet(mail')
              \/ s \in M
         /\ \A s \in M \cap Charted(page) : \A t \in stored[s] \ ToSet(chart.series[s]) :
              page.live /\ (t < now - Recent \/ t > now) => t \in missed'[s]
<1>1. TypesInv /\ PageInv /\ ChartInv
  BY DEF PageIInv
<1>2. /\ mail # <<>> /\ mail' = Tail(mail)
      /\ missed' = [s \in Source |->
                      missed[s] \cup {t \in stored[s] :
                        /\ page.live /\ s \in M \cap DOMAIN chart.series
                        /\ t \notin ToSet(chart.series[s])
                        /\ t < now - Recent \/ t > now}]
      /\ UNCHANGED <<now, site, station, stored, saving, page>>
  BY DEF NewMeasurement
<1>h. PICK h : h = Head(mail)
  OBVIOUS
<1>3. mail \in Seq(Source) /\ h \in Source /\ mail' \in Seq(Source)
  BY <1>1, <1>2, <1>h DEF TypesInv
<1>4. /\ M \subseteq page.shown
      /\ M # {} => \E m : M = {m}
      /\ h \in Charted(page) =>
           h \in M \/ (page.kind = "installation" /\ SummaryType(site[h]) = "none")
  BY <1>1, <1>3, <1>h, MatchingIs
<1>5. TypesInv'
  <2>1. missed' \in [Source -> SUBSET Dates]
    <3>1. ASSUME NEW s \in Source
          PROVE  missed'[s] \subseteq Dates
      BY <1>1, <1>2 DEF TypesInv
    <3> QED
      BY <1>2, <3>1
  <2> QED
    BY <1>1, <1>2, <1>3, <2>1 DEF TypesInv, Dates
<1>6. ASSUME NEW s \in ToSet(mail) PROVE s = h \/ s \in ToSet(mail')
  <2>1. PICK i \in 1..Len(mail) : mail[i] = s
    BY <1>3 DEF ToSet
  <2>2. CASE i = 1
    BY <1>2, <1>3, <1>h, <2>1, <2>2
  <2>3. CASE i # 1
    <3>1. i - 1 \in 1..Len(mail') /\ mail'[i - 1] = s
      BY <1>2, <1>3, <2>1, <2>3
    <3> QED
      BY <1>3, <3>1 DEF ToSet
  <2> QED
    BY <2>2, <2>3
<1>7. \A s \in Source : missed[s] \subseteq missed'[s]
  BY <1>2
<1>8. page.shown \subseteq Source /\ Charted(page) \subseteq page.shown
  BY <1>1, ChartedIs DEF PageInv, PageOK
<1>9. ASSUME NEW s \in Charted(page), NEW t \in stored[s], Excused(s, t)
      PROVE  \/ t < chart.from
             \/ \E u \in ToSet(chart.series[s]) : t < u /\ u <= t + Recent
             \/ FullSince(chart.series[s], t)
             \/ t \in missed'[s]
             \/ page.kind = "installation" /\ SummaryType(site[s]) = "none"
             \/ s \in saving \/ s \in ToSet(mail')
             \/ s \in M
  BY <1>4, <1>6, <1>7, <1>8, <1>9 DEF Excused
<1>10. ASSUME NEW s \in M \cap Charted(page), NEW t \in stored[s] \ ToSet(chart.series[s]),
              page.live, t < now - Recent \/ t > now
       PROVE  t \in missed'[s]
  <2>1. s \in Source /\ page.shown # {}
    BY <1>4, <1>8
  <2>2. s \in DOMAIN chart.series
    BY <1>1, <2>1 DEF ChartInv
  <2> QED
    BY <1>2, <1>10, <2>1, <2>2
<1> QED
  BY <1>4, <1>5, <1>9, <1>10

\* A message that appends nothing: no reading of the last minute is in the
\* database, or nothing that is shown is to get it.
LEMMA NothingAppended ==
  ASSUME PageIInv, NewMeasurement, NEW M, M = Matching(Head(mail)), chart' = chart,
         page.live => \A s \in M \cap Charted(page) : \A t \in stored[s] :
                        t < now - Recent \/ t > now
  PROVE  PageIInv'
<1>1. TypesInv /\ MissingInv
  BY DEF PageIInv
<1>2. UNCHANGED <<now, site, station, stored, saving, page>>
  BY DEF NewMeasurement
<1>3. TypesInv'
  BY TakenMessage
<1>4. PageInv' /\ ChartInv' /\ ReadingsInv'
  <2>1. now' \in Nat /\ now <= now'
    BY <1>1, <1>2 DEF TypesInv
  <2>2. \A s \in Source : stored[s] \subseteq stored'[s]
    BY <1>2
  <2> QED
    BY <1>2, <2>1, <2>2, ChartKept
<1>5. MissingInv'
  <2>1. ASSUME page.live, NEW s \in Charted(page), NEW t \in stored[s]
        PROVE  t \in ToSet(chart.series[s]) \/ Excused(s, t)'
    <3>1. CASE t \in ToSet(chart.series[s])
      BY <3>1
    <3>2. CASE Excused(s, t) /\ t \notin ToSet(chart.series[s])
      <4>1. \/ t < chart.from
            \/ \E u \in ToSet(chart.series[s]) : t < u /\ u <= t + Recent
            \/ FullSince(chart.series[s], t)
            \/ t \in missed'[s]
            \/ page.kind = "installation" /\ SummaryType(site[s]) = "none"
            \/ s \in saving \/ s \in ToSet(mail')
            \/ s \in M
        BY <3>2, TakenMessage
      <4>2. s \in M => t \in missed'[s]
        <5>1. s \in M => t < now - Recent \/ t > now
          BY <2>1
        <5>2. \A x \in M \cap Charted(page) : \A u \in stored[x] \ ToSet(chart.series[x]) :
                page.live /\ (u < now - Recent \/ u > now) => u \in missed'[x]
          BY TakenMessage
        <5> QED
          BY <2>1, <3>2, <5>1, <5>2
      <4> QED
        BY <1>2, <4>1, <4>2 DEF Excused, FullSince
    <3> QED
      BY <1>1, <2>1, <3>1, <3>2 DEF MissingInv
  <2> QED
    BY <1>2, <2>1, ChartedSame DEF MissingInv
<1> QED
  BY <1>3, <1>4, <1>5 DEF PageIInv

\* The latest reading of the last minute is appended to the one series that
\* is to get it.
LEMMA LatestAppended ==
  ASSUME PageIInv, NewMeasurement, page.live, NEW m, Matching(Head(mail)) = {m},
         m \in Charted(page),
         NEW recent, recent = ForSensor(m, now - Recent, now), recent # <<>>,
         chart' = Append1(m, chart)
  PROVE  PageIInv'
<1>1. TypesInv /\ PageInv /\ ChartInv /\ ReadingsInv /\ MissingInv
  BY DEF PageIInv
<1>2. UNCHANGED <<now, site, station, stored, saving, page>>
  BY DEF NewMeasurement
<1>3. TypesInv' /\ m \in page.shown
  BY TakenMessage
<1>4. /\ Charted(page) \subseteq Source /\ page.range \in Ranges /\ page.live \in BOOLEAN
      /\ page.from \in Int /\ page.to \in Int /\ page.to <= now
      /\ page.to = page.from + page.range
      /\ now \in Int
  <2>1. Charted(page) \subseteq page.shown
    BY <1>1, ChartedIs DEF PageInv
  <2> QED
    BY <1>1, <2>1 DEF PageInv, PageOK, TypesInv
<1>5. /\ page.range \in Nat /\ page.range > 0 /\ Recent <= page.range /\ Recent \in Nat
  BY <1>4, RangeIsLength
<1>from. PICK from : from = now - page.range
  OBVIOUS
<1>6. /\ from \in Int /\ page.from <= from /\ from <= now - Recent /\ now - Recent \in Int
      /\ now - from = page.range
  BY <1>4, <1>5, <1>from
<1>7. /\ IsChart(chart) /\ HasSeries(chart) /\ PictureIsCurrent(chart)
      /\ chart.from \in Int /\ chart.to \in Int /\ chart.to <= now
      /\ DOMAIN chart.series = Charted(page)
      /\ chart.to - chart.from = page.range /\ page.from <= chart.from
  BY <1>1, <1>3 DEF ChartInv
<1>8. chart.from <= from
  BY <1>4, <1>5, <1>6, <1>7
<1>9. recent \in Seq(Int) /\ Ordered(recent)
      /\ ToSet(recent) = {t \in stored[m] : now - Recent <= t /\ t <= now}
  BY <1>1, <1>3, <1>4, <1>6, ForSensorIs
<1>last. PICK last : last = Last(recent)
  OBVIOUS
<1>10. /\ last \in ToSet(recent) /\ last \in Int
       /\ \A t \in ToSet(recent) : t <= last
  BY <1>9, <1>last, LastIsLatest
<1>11. last \in stored[m] /\ now - Recent <= last /\ last <= now /\ from <= last
  BY <1>4, <1>6, <1>9, <1>10
<1>12. \A t \in stored[m] : t \in Int /\ (t <= now => t <= last)
  <2>1. \A t \in stored[m] : t \in Int
    BY <1>1, <1>4, StoredIsFinite
  <2>2. ASSUME NEW t \in stored[m], t < now - Recent PROVE t <= last
    BY <1>4, <1>6, <1>10, <1>11, <2>1, <2>2
  <2>3. ASSUME NEW t \in stored[m], ~(t < now - Recent), t <= now PROVE t <= last
    <3>1. t \in ToSet(recent)
      BY <1>6, <1>9, <2>1, <2>3
    <3> QED
      BY <1>10, <3>1
  <2> QED
    BY <2>1, <2>2, <2>3
<1>13. ASSUME NEW s \in Charted(page)
       PROVE  /\ chart.series[s] \in Seq(Int) /\ Ordered(chart.series[s])
              /\ \A t \in ToSet(chart.series[s]) : t \in stored[s] /\ t <= now
  <2>1. /\ chart.series[s] \in Seq(Int) /\ Ordered(chart.series[s])
        /\ \A t \in ToSet(chart.series[s]) : t \in stored[s] /\ t <= chart.to
    BY <1>1, <1>7 DEF ReadingsInv, HasSeries
  <2>2. \A t \in ToSet(chart.series[s]) : t \in Int
    BY <2>1, ToSetOfSeq
  <2> QED
    BY <1>4, <1>7, <2>1, <2>2
<1>S. PICK S : S = GrownSeries(chart, m, last, from)
  OBVIOUS
<1>14. ASSUME NEW s \in Charted(page)
       PROVE  /\ Follows(S[s], chart.series[s], from)
              /\ \A t \in ToSet(S[s]) : t \in stored[s] /\ t <= now
              /\ s = m => last \in ToSet(S[s])
  <2>1. S[s] = Capped(Trimmed(IF s = m THEN Append(chart.series[s], last) ELSE chart.series[s],
                              from))
    BY <1>7, <1>S DEF GrownSeries
  <2>2. CASE s = m
    <3>1. S[s] = Capped(Trimmed(Append(chart.series[s], last), from))
      BY <2>1, <2>2
    <3>2. \A t \in ToSet(chart.series[s]) : t <= last
      BY <1>12, <1>13, <2>2
    <3>3. /\ Follows(S[s], chart.series[s], from) /\ last \in ToSet(S[s])
          /\ \A u \in ToSet(S[s]) : u \in ToSet(chart.series[s]) \/ u = last
      BY <1>6, <1>10, <1>11, <1>13, <3>1, <3>2, PointAdded
    <3> QED
      BY <1>11, <1>13, <2>2, <3>3
  <2>3. CASE s # m
    <3>1. S[s] = Capped(Trimmed(chart.series[s], from))
      BY <2>1, <2>3
    <3> QED
      BY <1>6, <1>13, <2>3, <3>1, PointsPassed
  <2> QED
    BY <2>2, <2>3
<1>15. DOMAIN S = Charted(page) /\ S \in [DOMAIN chart.series -> Seq(Int)]
  <2>1. DOMAIN S = Charted(page) /\ S = [s \in Charted(page) |-> S[s]]
    BY <1>7, <1>S DEF GrownSeries
  <2>2. ASSUME NEW s \in Charted(page) PROVE S[s] \in Seq(Int)
    BY <1>14 DEF Follows
  <2> QED
    BY <1>7, <2>1, <2>2
<1>R. PICK R : R = ToSet(ForSensor(m, page.from, now))
  OBVIOUS
<1>r. PICK r : r = chart'
  OBVIOUS
<1>16. Appended(r, chart, m, last, R, from, now)
  BY <1>r, <1>R, <1>from, <1>last DEF Append1, Appended
<1>17. /\ IsChart(r) /\ HasSeries(r) /\ PictureIsCurrent(r)
       /\ r.chart = chart.chart /\ r.series = S /\ r.from = from /\ r.to = now
       /\ r.chart = "wind" => r.rose = R
  <2>1. chart.notes \in Nat /\ m \in DOMAIN chart.series
    BY <1>3, <1>7 DEF PictureIsCurrent
  <2> QED
    BY <1>7, <1>15, <1>16, <1>S, <2>1, AppendDraws
<1>18. PageInv' /\ Charted(page)' = Charted(page)
  BY <1>1, <1>2, ChartedSame DEF PageInv, PageOK, SitesOK
<1>19. ChartInv'
  <2>1. IsChart(chart') /\ HasSeries(chart') /\ PictureIsCurrent(chart')
    BY <1>17, <1>r
  <2>2. (IsChart(chart) /\ HasSeries(chart) /\ PictureIsCurrent(chart))'
    BY <2>1 DEF IsChart, HasSeries, PictureIsCurrent, Drawn, Shading, Only
  <2>3. page.kind = "installation" <=> r.chart # "multi"
    BY <1>1, <1>17 DEF ChartInv
  <2>4. r.to - r.from = page.range /\ page.from <= r.from /\ r.from \in Int /\ r.to \in Int
        /\ r.to <= now
    BY <1>4, <1>6, <1>17
  <2>5. DOMAIN r.series = Charted(page)
    BY <1>15, <1>17
  <2> QED
    BY <1>2, <1>18, <1>r, <2>2, <2>3, <2>4, <2>5 DEF ChartInv
<1>20. ASSUME NEW s \in Charted(page), NEW t \in ToSet(r.series[s])
       PROVE  /\ t \in stored[s] /\ r.from <= t /\ t <= r.to
              /\ r.chart = "wind" => t \in r.rose
  <2>1. t \in stored[s] /\ from <= t /\ t <= now
    BY <1>14, <1>17 DEF Follows
  <2>2. t \in Int
    BY <1>1, <1>4, <2>1, StoredIsFinite
  <2>3. ASSUME r.chart = "wind" PROVE t \in r.rose
    <3>1. s = m
      BY <1>7, <1>17, <2>3 DEF HasSeries
    <3>2. R = {u \in stored[m] : page.from <= u /\ u <= now}
      BY <1>1, <1>3, <1>4, <1>R, ForSensorIs
    <3>3. page.from <= t
      BY <1>4, <1>6, <2>1, <2>2
    <3> QED
      BY <1>17, <2>1, <2>2, <2>3, <3>1, <3>2, <3>3
  <2> QED
    BY <1>17, <2>1, <2>2, <2>3
<1>21. ReadingsInv'
  <2>1. ASSUME NEW s \in Charted(page) PROVE s \in Source /\ Ordered(r.series[s])
    BY <1>4, <1>14, <1>17 DEF Follows
  <2> QED
    BY <1>2, <1>15, <1>17, <1>r, <1>20, <2>1 DEF ReadingsInv, Ordered
<1>22. ASSUME NEW s \in Charted(page), NEW t \in stored[s]
       PROVE  t \in ToSet(r.series[s]) \/ Excused(s, t)'
  <2>d. PICK data : data = chart.series[s]
    OBVIOUS
  <2>D. PICK D : D = r.series[s]
    OBVIOUS
  <2>1. Follows(D, data, from) /\ (s = m => last \in ToSet(D)) /\ data \in Seq(Int)
    BY <1>13, <1>14, <1>17, <2>d, <2>D
  <2>2. t \in Int
    BY <1>1, <1>4, StoredIsFinite
  <2>3. t \in ToSet(data) \/ Excused(s, t)
    BY <1>1, <2>d DEF MissingInv
  <2>4. Past(D, from, t) => Excused(s, t)'
    BY <1>17, <1>r, <2>D DEF Past, Excused, FullSince
  <2>5. CASE t \in ToSet(data)
    BY <2>1, <2>4, <2>5, <2>D DEF Follows
  <2>6. CASE t < chart.from
    <3>1. t < from
      BY <1>6, <1>7, <1>8, <2>2, <2>6
    <3> QED
      BY <2>4, <3>1 DEF Past
  <2>7. CASE \E u \in ToSet(data) : t < u /\ u <= t + Recent
    <3>1. PICK u \in ToSet(data) : t < u /\ u <= t + Recent
      BY <2>7
    <3>2. u \in Int
      BY <2>1, <3>1, ToSetOfSeq
    <3>3. CASE u \in ToSet(D)
      BY <1>r, <2>D, <3>1, <3>3 DEF Excused
    <3>4. CASE Past(D, from, u)
      <4>1. ASSUME u < from PROVE Past(D, from, t)
        BY <1>6, <2>2, <3>1, <3>2, <4>1 DEF Past
      <4>2. ASSUME FullSince(D, u) PROVE FullSince(D, t)
        <5>1. D \in Seq(Int)
          BY <2>1 DEF Follows
        <5>2. \A v \in ToSet(D) : v \in Int
          BY <5>1, ToSetOfSeq
        <5> QED
          BY <2>2, <3>1, <3>2, <4>2, <5>2 DEF FullSince
      <4> QED
        BY <2>4, <3>4, <4>1, <4>2 DEF Past
    <3> QED
      BY <2>1, <3>1, <3>3, <3>4 DEF Follows
  <2>8. CASE FullSince(data, t)
    BY <2>1, <2>2, <2>4, <2>8 DEF Follows
  <2>9. CASE \/ t \in missed'[s]
             \/ page.kind = "installation" /\ SummaryType(site[s]) = "none"
             \/ s \in saving \/ s \in ToSet(mail')
    BY <1>2, <2>9 DEF Excused
  <2>10. CASE s = m /\ t \notin ToSet(data)
    <3>1. CASE t < now - Recent \/ t > now
      <4>1. t \in missed'[s]
        <5>1. \A x \in {m} \cap Charted(page) : \A u \in stored[x] \ ToSet(chart.series[x]) :
                page.live /\ (u < now - Recent \/ u > now) => u \in missed'[x]
          BY TakenMessage
        <5> QED
          BY <2>10, <2>d, <3>1, <5>1
      <4> QED
        BY <4>1 DEF Excused
    <3>2. CASE t = last
      BY <2>1, <2>10, <2>D, <3>2
    <3>3. CASE ~(t < now - Recent \/ t > now) /\ t # last
      <4>1. t < last /\ last <= t + Recent
        BY <1>4, <1>5, <1>10, <1>11, <1>12, <2>2, <2>10, <3>3
      <4> QED
        BY <1>r, <2>1, <2>10, <2>D, <4>1 DEF Excused
    <3> QED
      BY <3>1, <3>2, <3>3
  <2>11. Excused(s, t) =>
           \/ t < chart.from
           \/ \E u \in ToSet(data) : t < u /\ u <= t + Recent
           \/ FullSince(data, t)
           \/ t \in missed'[s]
           \/ page.kind = "installation" /\ SummaryType(site[s]) = "none"
           \/ s \in saving \/ s \in ToSet(mail')
           \/ s \in {m}
    BY <2>d, TakenMessage
  <2> QED
    BY <2>3, <2>5, <2>6, <2>7, <2>8, <2>9, <2>10, <2>11
<1>23. MissingInv'
  BY <1>2, <1>18, <1>22, <1>r DEF MissingInv
<1> QED
  BY <1>3, <1>18, <1>19, <1>21, <1>23 DEF PageIInv

\* A message is handled.
LEMMA NewMeasurementKeeps ==
  ASSUME PageIInv, NewMeasurement
  PROVE  PageIInv'
<1>M. PICK M : M = Matching(Head(mail))
  OBVIOUS
<1>1. chart' = IF page.live /\ M # {} THEN Append1(CHOOSE s \in M : TRUE, chart) ELSE chart
  BY <1>M DEF NewMeasurement
<1>2. CASE page.live /\ M # {}
  <2>1. PICK m : M = {m}
    BY <1>M, <1>2, TakenMessage
  <2>2. chart' = Append1(m, chart)
    BY <1>1, <1>2, <2>1
  <2>3. PICK recent : recent = ForSensor(m, now - Recent, now)
    OBVIOUS
  <2>l. CASE m \notin Charted(page)
    <3>1. ChartInv /\ PageInv /\ TypesInv
      BY DEF PageIInv
    <3>2. m \in page.shown /\ page.kind = "compare"
      <4>1. M \subseteq page.shown
        BY <1>M, TakenMessage
      <4>2. page.kind = "installation" => Charted(page) = page.shown
        BY <3>1, ChartedIs DEF PageInv
      <4> QED
        BY <2>1, <2>l, <3>1, <4>1, <4>2 DEF PageInv, PageOK
    <3>3. chart.chart = "multi" /\ m \notin DOMAIN chart.series
      BY <2>l, <3>1, <3>2 DEF ChartInv
    <3>4. chart' = chart
      BY <2>2, <3>3 DEF Append1, MultiAppend
    <3> QED
      BY <1>M, <2>1, <2>l, <3>4, NothingAppended
  <2>4. CASE recent = <<>>
    <3>1. chart' = chart
      BY <2>2, <2>3, <2>4 DEF Append1
    <3>2. TypesInv /\ m \in Source
      <4>1. M \subseteq page.shown
        BY <1>M, TakenMessage
      <4> QED
        BY <2>1, <4>1 DEF PageIInv, PageInv, PageOK
    <3>3. now \in Int /\ now - Recent \in Int
      BY <3>2, PageAssumption DEF TypesInv
    <3>4. ASSUME NEW t \in stored[m] PROVE t < now - Recent \/ t > now
      <4>1. t \in Int
        BY <3>2, <3>3, StoredIsFinite
      <4>2. recent \in Seq(Int) /\ ToSet(recent) = {u \in stored[m] : now - Recent <= u /\ u <= now}
        BY <2>3, <3>2, <3>3, ForSensorIs
      <4>3. ToSet(recent) = {}
        BY <2>4, <4>2, ToSetOfSeq
      <4> QED
        BY <3>3, <4>1, <4>2, <4>3
    <3> QED
      BY <1>M, <2>1, <3>1, <3>4, NothingAppended
  <2>5. CASE recent # <<>> /\ m \in Charted(page)
    BY <1>M, <1>2, <2>1, <2>2, <2>3, <2>5, LatestAppended
  <2> QED
    BY <2>l, <2>4, <2>5
<1>3. CASE ~(page.live /\ M # {})
  <2>1. chart' = chart
    BY <1>1, <1>3
  <2>2. page.live => \A s \in M \cap Charted(page) : \A t \in stored[s] :
                     t < now - Recent \/ t > now
    BY <1>3
  <2> QED
    BY <1>M, <2>1, <2>2, NothingAppended
<1> QED
  BY <1>2, <1>3

\* A page that opens.
LEMMA OpenedIs ==
  ASSUME now \in Nat, NEW sort \in {"installation", "compare"}, NEW shown, shown \subseteq Source,
         sort = "installation" => \E tab : shown = {tab},
         NEW p, p = Opened(sort, shown)
  PROVE  PageOK(p) /\ p.kind = sort /\ p.shown = shown /\ p.to = now
<1>h. PICK heard : heard = IF sort = "installation" THEN Source ELSE shown
  OBVIOUS
<1>1. p = [kind |-> sort, shown |-> shown, type |-> "temperature", heard |-> heard, range |-> DefaultRange,
           from |-> now - DefaultRange, to |-> now, live |-> TRUE]
  BY <1>h DEF Opened
<1>2. DefaultRange \in Ranges
  BY PageAssumption
<1>3. DefaultRange \in Nat
  BY <1>2, RangeIsLength
<1>4. heard \subseteq Source /\ shown \subseteq heard /\ (sort = "installation" => heard = Source)
  BY <1>h
<1>5. now - DefaultRange \in Int /\ now - DefaultRange <= now /\ now <= now
      /\ now = (now - DefaultRange) + DefaultRange /\ now \in Int
  BY <1>3
<1>6. /\ p.kind = sort /\ p.shown = shown /\ p.type = "temperature" /\ p.heard = heard /\ p.range = DefaultRange
      /\ p.from = now - DefaultRange /\ p.to = now /\ p.live = TRUE
  BY <1>1
<1>7. p \in [kind : {"installation", "compare"}, shown : SUBSET Source, type : Slug,
             heard : SUBSET Source, range : Ranges, from : Int, to : Int,
             live : BOOLEAN]
  BY <1>1, <1>2, <1>4, <1>5 DEF Slug
<1> QED
  BY <1>4, <1>5, <1>6, <1>7 DEF PageOK

\* The invariant holds when a page opens ...
LEMMA PageInit ==
  ASSUME Init
  PROVE  PageIInv
<1>1. /\ now = FirstTime /\ stored = [s \in Source |-> {}] /\ saving = {} /\ mail = <<>>
      /\ missed = [s \in Source |-> {}]
  BY DEF Init
<1>2. now \in Nat
  BY <1>1, PageAssumption
<1>3. ASSUME site \in [Source -> Slug], station \in [Source -> Nat] PROVE TypesInv
  BY <1>1, <1>2, <1>3 DEF TypesInv
<1>4. ASSUME TypesInv, PageInv PROVE MissingInv
  <2>1. Charted(page) \subseteq Source
    BY <1>4, ChartedIs DEF PageInv, PageOK
  <2> QED
    BY <1>1, <2>1 DEF MissingInv
<1>5. ASSUME NEW tab \in Source, site \in Sites, station = [s \in Source |-> 0],
             page = Opened("installation", {tab}),
             chart = PushChartData(page, Mounted(ChartType(site[tab])))
      PROVE  PageIInv
  <2>1. TypesInv
    <3>1. Sites \subseteq [Source -> Slug]
      BY PageAssumption
    <3> QED
      BY <1>3, <1>5, <3>1
  <2>2. PageOK(page) /\ page.kind = "installation" /\ page.shown = {tab} /\ page.to = now
    BY <1>2, <1>5, OpenedIs
  <2>o. Charted(page) = {tab} /\ SitesOK
    BY <2>1, <2>2, ChartedIs DEF SitesOK
  <2>3. /\ page.from \in Int /\ page.to \in Int /\ page.range \in Int
        /\ page.live => page.to = page.from + page.range
    <3>1. page.range \in Ranges
      BY <2>2 DEF PageOK
    <3>2. page.range \in Int
      BY <3>1, RangeIsLength
    <3> QED
      BY <2>2, <3>2 DEF PageOK
  <2>k. PICK sort : sort = ChartType(site[tab])
    OBVIOUS
  <2>c. PICK c : c = Mounted(sort)
    OBVIOUS
  <2>4. IsChart(c) /\ c.chart \in ChartKind /\ c.notes \in Nat /\ c.chart # "multi"
    BY <2>k, <2>c, ChartTypeIs, MountedIs
  <2>5. chart = PushChartData(page, c)
    BY <1>5, <2>k, <2>c
  <2>6. /\ IsChart(chart) /\ HasSeries(chart) /\ PictureIsCurrent(chart)
        /\ chart.chart = c.chart /\ chart.series = Fetched(page)
        /\ chart.from = page.from /\ chart.to = page.to
    <3>p. PICK p : p = page
      OBVIOUS
    <3>r. PICK r : r = chart
      OBVIOUS
    <3>1. /\ Charted(p) \subseteq Source /\ p.shown # {} /\ p.from \in Int /\ p.to \in Int
          /\ r = PushChartData(p, c)
      BY <2>2, <2>3, <2>5, <2>o, <3>p, <3>r
    <3>2. c.chart # "multi" => \E s : Charted(p) = {s}
      BY <2>o, <3>p
    <3>3. /\ IsChart(r) /\ HasSeries(r) /\ PictureIsCurrent(r)
          /\ r.chart = c.chart /\ r.series = Fetched(p)
          /\ r.from = p.from /\ r.to = p.to
          /\ r.chart = "wind" => r.rose = ToSet(Fetched(p)[Tab(p)])
      BY <2>1, <2>4, <3>1, <3>2, PushLoads
    <3> QED
      BY <3>3, <3>p, <3>r
  <2>7. DOMAIN chart.series = {tab}
    BY <2>o, <2>6 DEF Fetched
  <2>8. chart.series[tab] = ForSensor(tab, page.from, page.to)
    BY <2>o, <2>6 DEF Fetched
  <2>9. Ordered(chart.series[tab]) /\ ToSet(chart.series[tab]) \subseteq stored[tab]
    BY <2>1, <2>3, <2>8, ForSensorIs
  <2>10. ChartInv
    BY <1>2, <2>2, <2>3, <2>4, <2>6, <2>7, <2>o DEF ChartInv
  <2>11. ReadingsInv
    BY <1>1, <2>7, <2>9 DEF ReadingsInv
  <2> QED
    BY <1>4, <2>1, <2>2, <2>o, <2>10, <2>11 DEF PageIInv, PageInv
<1>6. ASSUME NEW network \in Networks, site = network.site, station = network.station,
             page = Opened("compare", {}), chart = Mounted("multi")
      PROVE  PageIInv
  <2>1. TypesInv
    <3>1. Networks \subseteq Network
      BY PageAssumption
    <3>2. site \in [Source -> Slug] /\ station \in [Source -> Nat]
      BY <1>6, <3>1 DEF Network
    <3> QED
      BY <1>3, <3>2
  <2>o. SitesOK
    BY <1>6, PageAssumption DEF SitesOK
  <2>2. PageOK(page) /\ page.kind = "compare" /\ page.shown = {}
    <3>1. "compare" # "installation"
      OBVIOUS
    <3>2. {} \subseteq Source
      OBVIOUS
    <3> QED
      BY <1>2, <1>6, <3>1, <3>2, OpenedIs
  <2>3. /\ IsChart(chart) /\ chart.chart = "multi" /\ chart.notes = 0
        /\ DOMAIN chart.series = {} /\ chart.series \in [DOMAIN chart.series -> Seq(Int)]
        /\ chart.picture = NoPicture /\ chart.from = 0 /\ chart.to = 0
    BY <1>6, MountedIs
  <2>4. HasSeries(chart)
    BY <2>3 DEF HasSeries, ChartKind
  <2>5. Drawn(chart) = {}
    BY <2>3 DEF Drawn
  <2>6. PictureIsCurrent(chart)
    BY <2>3, <2>5 DEF PictureIsCurrent
  <2>7. ChartInv
    BY <1>2, <2>2, <2>3, <2>4, <2>6 DEF ChartInv
  <2>8. ReadingsInv
    BY <2>3 DEF ReadingsInv
  <2> QED
    BY <1>4, <2>1, <2>2, <2>o, <2>7, <2>8 DEF PageIInv, PageInv
<1> QED
  BY <1>5, <1>6 DEF Init

\* ... and every step keeps it.
LEMMA PageStep ==
  ASSUME PageIInv, [Next]_vars
  PROVE  PageIInv'
<1>1. CASE Next
  BY <1>1, TickKeeps, StoreKeeps, AnnounceKeeps, NewMeasurementKeeps, ViewerEventKeeps, ResizeKeeps
  DEF Next
<1>2. CASE UNCHANGED vars
  <2>1. /\ now' = now /\ site' = site /\ station' = station /\ stored' = stored /\ saving' = saving
        /\ page' = page /\ mail' = mail /\ chart' = chart /\ missed' = missed
    BY <1>2 DEF vars
  <2>2. TypesInv /\ MissingInv
    BY DEF PageIInv
  <2>3. TypesInv'
    BY <2>1, <2>2 DEF TypesInv, Dates
  <2>4. MissingInv'
    BY <2>1, <2>2, ChartedSame DEF MissingInv, Excused, FullSince
  <2>5. PageInv' /\ ChartInv' /\ ReadingsInv'
    <3>1. now' \in Nat /\ now <= now'
      BY <2>1, <2>2 DEF TypesInv
    <3>2. \A s \in Source : stored[s] \subseteq stored'[s]
      BY <2>1
    <3> QED
      BY <2>1, <3>1, <3>2, ChartKept
  <2> QED
    BY <2>3, <2>4, <2>5 DEF PageIInv
<1> QED
  BY <1>1, <1>2

\* The page, the hook of its chart and the database agree as PageIInv says, in
\* every order of readings, messages and events: for any sensors or stations, any
\* lengths of windows, gaps and limits.
THEOREM PageAlways == Spec => []PageIInv
<1>1. Init => PageIInv
  BY PageInit
<1>2. PageIInv /\ [Next]_vars => PageIInv'
  BY PageStep
<1> QED
  BY <1>1, <1>2, PTL DEF Spec

-----------------------------------------------------------------------------
(* What the viewer sees                                                    *)

\* The series that are looked at.
LEMMA WatchedSeries ==
  ASSUME PageIInv, NEW s \in Watched
  PROVE  /\ page.shown # {} /\ DOMAIN chart.series = Charted(page)
         /\ s \in Charted(page) /\ s \in DOMAIN chart.series /\ s \in Source
         /\ chart.series[s] \in Seq(Int) /\ Ordered(chart.series[s])
         /\ \A t \in ToSet(chart.series[s]) :
              /\ t \in stored[s] /\ chart.from <= t /\ t <= chart.to
              /\ chart.chart = "wind" => t \in chart.rose
<1>1. page.shown # {} /\ s \in DOMAIN chart.series
  BY DEF Watched
<1>2. ChartInv /\ ReadingsInv
  BY DEF PageIInv
<1>3. DOMAIN chart.series = Charted(page) /\ HasSeries(chart)
  BY <1>1, <1>2 DEF ChartInv
<1>4. chart.series[s] \in Seq(Int)
  BY <1>1, <1>3 DEF HasSeries
<1> QED
  BY <1>1, <1>2, <1>3, <1>4 DEF ReadingsInv

\* What a chart of one sensor draws.
LEMMA ShadingRight ==
  ASSUME PageIInv, NEW s \in Watched, chart.chart # "multi", chart.series[s] # <<>>,
         NEW data, data = chart.series[s]
  PROVE  /\ chart.picture.shaded = Shaded(GetNoDataRegions(data, chart.from, chart.to))
         /\ chart.picture.lines \subseteq SplitIntoSegments(data)
<1>1. HasSeries(chart) /\ PictureIsCurrent(chart)
  BY DEF PageIInv, ChartInv
<1>2. s \in DOMAIN chart.series /\ data \in Seq(Int)
  BY WatchedSeries
<1>3. Only(chart) = data /\ Drawn(chart) = ToSet(data)
  BY <1>1, <1>2, OnlySeries
<1>4. Drawn(chart) # {}
  BY <1>2, <1>3, ToSetOfSeq
<1> QED
  BY <1>1, <1>3, <1>4 DEF PictureIsCurrent, Shading

\* The drawing is right: the lemmas about readings in order, of the series.
LEMMA PageDrawsRight == PageIInv => DrawingIsRight
<1> SUFFICES ASSUME PageIInv PROVE TimeOrdered /\ HoverFindsReading /\ ShadingIsGaps
  BY DEF DrawingIsRight
<1>0. chart.from \in Int /\ chart.to \in Int
  BY DEF PageIInv, ChartInv
<1>1. TimeOrdered
  <2>1. ASSUME NEW s \in Watched, NEW data, data = chart.series[s] PROVE InOrder(data)
    <3>1. data \in Seq(Int) /\ Ordered(data)
      BY <2>1, WatchedSeries
    <3> QED
      BY <3>1 DEF Ordered, InOrder
  <2> QED
    BY <2>1 DEF TimeOrdered
<1>2. HoverFindsReading
  <2>1. ASSUME NEW s \in Watched, NEW data, data = chart.series[s], data # <<>>,
               NEW x \in chart.from..chart.to,
               NEW after, after = {i \in 2..Len(data) : data[i] >= x}
        PROVE  Hovered(data, x) = data[IF after = {} THEN Len(data) ELSE Min(after)]
    <3>1. data \in Seq(Int) /\ Ordered(data)
      BY <2>1, WatchedSeries
    <3>2. x \in Int
      BY <1>0
    <3> QED
      BY <2>1, <3>1, <3>2, HoverFinds
  <2> QED
    BY <2>1 DEF HoverFindsReading
<1>3. ShadingIsGaps
  <2>1. ASSUME NEW s \in Watched, chart.chart # "multi", chart.series[s] # <<>>,
               NEW data, data = chart.series[s]
        PROVE  /\ data \in Seq(Int) /\ Ordered(data)
               /\ \A t \in ToSet(data) : chart.from <= t /\ t <= chart.to
               /\ chart.picture.shaded = Shaded(GetNoDataRegions(data, chart.from, chart.to))
               /\ chart.picture.lines \subseteq SplitIntoSegments(data)
    BY <2>1, WatchedSeries, ShadingRight
  <2>2. ASSUME NEW s \in Watched, chart.chart # "multi", chart.series[s] # <<>>,
               NEW data, data = chart.series[s],
               NEW x \in chart.from..chart.to - 1,
               NEW before, before = Max({chart.from} \cup {t \in ToSet(data) : t <= x}),
               NEW after, after = Min({chart.to} \cup {t \in ToSet(data) : t > x})
        PROVE  (\E r \in chart.picture.shaded : r[1] <= x /\ x < r[2]) <=> after - before > Gap
    <3>1. /\ data \in Seq(Int) /\ Ordered(data) /\ data # <<>>
          /\ \A t \in ToSet(data) : chart.from <= t /\ t <= chart.to
      BY <2>1, <2>2
    <3>2. (\E r \in Shaded(GetNoDataRegions(data, chart.from, chart.to)) : r[1] <= x /\ x < r[2])
            <=> after - before > Gap
      <4>f. PICK from, to : from = chart.from /\ to = chart.to
        OBVIOUS
      <4>1. from \in Int /\ to \in Int /\ x \in from..to - 1
            /\ \A t \in ToSet(data) : from <= t /\ t <= to
        BY <1>0, <2>2, <3>1, <4>f
      <4>2. before = Max({from} \cup {t \in ToSet(data) : t <= x})
        BY <2>2, <4>f
      <4>3. after = Min({to} \cup {t \in ToSet(data) : t > x})
        BY <2>2, <4>f
      <4>4. (\E r \in Shaded(GetNoDataRegions(data, from, to)) : r[1] <= x /\ x < r[2])
              <=> after - before > Gap
        BY <3>1, <4>1, <4>2, <4>3, ShadedIffGap
      <4> QED
        BY <4>4, <4>f
    <3>3. chart.picture.shaded = Shaded(GetNoDataRegions(data, chart.from, chart.to))
      BY <2>1, <2>2
    <3> QED
      BY <3>2, <3>3
  <2>3. ASSUME NEW s \in Watched, chart.chart # "multi", chart.series[s] # <<>>,
               NEW r \in chart.picture.shaded, NEW line \in chart.picture.lines
        PROVE  ~(line[1] <= r[1] /\ r[2] <= line[Len(line)])
    <3>d. PICK data : data = chart.series[s]
      OBVIOUS
    <3> QED
      BY <1>0, <2>1, <2>3, <3>d, NoLineOverShading
  <2> QED
    BY <2>2, <2>3 DEF ShadingIsGaps
<1> QED
  BY <1>1, <1>2, <1>3

\* The chart is the one the viewer has chosen.
LEMMA PageShowsChoice == PageIInv => ShowsChoice
<1> SUFFICES ASSUME PageIInv PROVE WindowIsChosen /\ ShowsSelection
  BY DEF ShowsChoice
<1>1. PageInv /\ ChartInv /\ ReadingsInv /\ PictureIsCurrent(chart)
  BY DEF PageIInv, ChartInv
<1>2. WindowIsChosen
  BY <1>1 DEF WindowIsChosen, ChartInv, ReadingsInv
<1>3. ShowsSelection
  <2>1. page.shown \subseteq page.heard
    BY <1>1 DEF PageInv, PageOK
  <2>2. /\ page.shown # {} => DOMAIN chart.series = Charted(page)
        /\ DOMAIN chart.series \subseteq Source
    BY <1>1 DEF ChartInv, ReadingsInv
  <2>3. ASSUME page.kind = "installation" PROVE DOMAIN chart.series = page.shown
    <3>1. Charted(page) = page.shown /\ page.shown # {}
      BY <1>1, <2>3, ChartedIs DEF PageIInv, PageInv, PageOK
    <3> QED
      BY <2>2, <3>1
  <2>4. ASSUME page.kind = "compare", page.shown # {}, NEW s \in Source,
               NEW ofType, ofType = {u \in page.shown : site[u] = page.type},
               NEW earlier, earlier = {u \in ofType : station[u] < station[s]}
        PROVE  s \in DOMAIN chart.series <=> s \in ofType /\ Cardinality(earlier) < Colors
    <3>1. Wanted(page) = ofType
      BY <2>4 DEF Wanted
    <3> QED
      BY <2>2, <2>4, <3>1 DEF Charted
  <2> QED
    BY <1>1, <2>1, <2>2, <2>3, <2>4 DEF ShowsSelection, PictureIsCurrent
<1> QED
  BY <1>2, <1>3

\* Without a message to come, MissingInv excuses what NothingMissing does.
LEMMA PageMissesNothing == PageIInv => NothingMissing
<1> SUFFICES ASSUME PageIInv PROVE MissingIsExcused /\ RoseCoversSpeed
  BY DEF NothingMissing
<1>1. MissingIsExcused
  <2>1. ASSUME page.live, mail = <<>>, saving = {}, NEW s \in Watched,
               NEW data, data = ToSet(chart.series[s]), NEW t \in stored[s] \ data
        PROVE  \/ t < chart.from
               \/ \E u \in data : t < u /\ u <= t + Recent
               \/ t \in missed[s]
               \/ Len(chart.series[s]) >= MaxPoints
               \/ page.kind = "installation" /\ SummaryType(site[s]) = "none"
    <3>1. s \in Charted(page)
      BY <2>1, WatchedSeries
    <3>2. Excused(s, t)
      BY <2>1, <3>1 DEF PageIInv, MissingInv
    <3>3. ToSet(mail) = {}
      BY <2>1 DEF ToSet
    <3> QED
      BY <2>1, <3>2, <3>3 DEF Excused, FullSince
  <2> QED
    BY <2>1 DEF MissingIsExcused
<1>2. RoseCoversSpeed
  BY WatchedSeries DEF RoseCoversSpeed
<1> QED
  BY <1>1, <1>2

\* No order of late readings, messages and events makes a hook draw readings out
\* of order, show a wrong reading in its tooltip, shade where there are readings or
\* draw a line over a gap.
THEOREM ChartDrawsRight == Spec => []DrawingIsRight
BY PageAlways, PageDrawsRight, PTL

\* A chart of the past stays as it was loaded, a live one has the chosen length,
\* and the series are those of the selection, whatever messages still wait.
THEOREM ChartShowsChoice == Spec => []ShowsChoice
BY PageAlways, PageShowsChoice, PTL

\* A live chart that has no message to come lacks a reading of its window only for
\* the reasons NothingMissing lists, and the rose has every reading of the speed.
THEOREM ChartMissesNothing == Spec => []NothingMissing
BY PageAlways, PageMissesNothing, PTL
=============================================================================
