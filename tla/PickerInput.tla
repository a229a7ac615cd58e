----------------------------- MODULE PickerInput -----------------------------
(***************************************************************************)
(* A date and time picker: the hook FlatpickrInput of                      *)
(* assets/js/hooks/flatpickr_input.js.  The viewer sees a text, the form   *)
(* has a hidden input with the instant the text stands for, the picker has *)
(* the date it has selected, and the server renders values of its own,     *)
(* which every patch of the page puts in the place of the viewer's.        *)
(*                                                                         *)
(* The form "jump" (the charts' and the webcams' pages) is submitted, the  *)
(* form "edit" (the measurements' editor) pushes every change.  The text   *)
(* has no seconds and no offset, so several instants may have the same,    *)
(* and an hour the clock skips has no instant.                             *)
(***************************************************************************)
EXTENDS Naturals, Sequences

CONSTANTS
  Instant,
  DateText,   \* the texts that read as a date of the viewer's zone
  Shown,      \* Shown[i]: the text of i in the viewer's zone
  Parsed,     \* Parsed[x]: the instant that text x is read as
  UtcText,    \* UtcText[i]: the text of i the server renders
  Empty,      \* the empty text
  NotADate,   \* any other text
  None,
  MaxPushes   \* bound: pushes under way

ASSUME TextAssumption ==
  /\ Shown \in [Instant -> DateText]
  /\ Parsed \in [DateText -> Instant]
  /\ \A x \in DateText : Shown[Parsed[x]] = x
  /\ UtcText \in [Instant -> DateText \cup {NotADate}]
  /\ Empty \notin DateText /\ NotADate \notin DateText
  /\ None \notin Instant

VARIABLES
  form,      \* "jump" or "edit"
  text,      \* the visible input
  selected,  \* the picker's selectedDates[0], or None
  hidden,    \* the hidden input, or None when it is empty
  pushes,    \* what has been pushed and is on its way
  value,     \* the server's value of the hidden input, or None
  display    \* the server's text of the visible input

inputVars == <<text, selected, hidden>>
pickerVars == <<form, inputVars, pushes, value, display>>

Texts == DateText \cup {Empty, NotADate}
Value == Instant \cup {None}

\* parseDisplay and parseCanonical fail on what is no date; formatCanonical
\* writes a local time in the form "edit", which is read back as Parsed.
ParseDisplay(x) == IF x \in DateText THEN Parsed[x] ELSE None
FormatCanonical(i) == IF i # None /\ form = "edit" THEN Parsed[Shown[i]] ELSE i

SetHiddenValue(v) ==
  /\ hidden' = v
  /\ pushes' = IF form = "edit" THEN Append(pushes, v) ELSE pushes

SyncValidOnly(x) ==
  /\ text' = x
  /\ selected' = ParseDisplay(x)
  /\ hidden' = FormatCanonical(selected')
  /\ pushes' = IF form = "edit" /\ selected' # None THEN Append(pushes, hidden') ELSE pushes

\* The visible input has text x: what is no date stays on screen, without a
\* date selected and with the hidden input empty.
SyncFromInput(x) ==
  /\ text' = x
  /\ selected' = ParseDisplay(x)
  /\ SetHiddenValue(FormatCanonical(selected'))

SyncFromSelectedDates(i) ==
  /\ text' = Shown[i]
  /\ selected' = i
  /\ SetHiddenValue(FormatCanonical(i))

CanPush == Len(pushes) < MaxPushes   \* bounded

-----------------------------------------------------------------------------
(* The viewer                                                              *)

Type(x) == CanPush /\ SyncFromInput(x) /\ UNCHANGED <<form, value, display>>

\* A date of the calendar, at a time of the day.
Pick(x) == CanPush /\ SyncFromSelectedDates(Parsed[x]) /\ UNCHANGED <<form, value, display>>

\* The library may read a date out of a text that is none before onClose.
Close(x) ==
  /\ CanPush
  /\ text = NotADate \/ x = text
  /\ SyncFromInput(x)
  /\ UNCHANGED <<form, value, display>>

\* The server jumps to the instant, or to now if it is in the future, and
\* renders where it went; without an instant it renders the text again.
SubmitJump(now) ==
  /\ form = "jump"
  /\ SyncFromInput(text)
  /\ IF hidden' = None
     THEN value' = None /\ display' = text
     ELSE value' \in {hidden', now} /\ display' = UtcText[value']
  /\ UNCHANGED form

-----------------------------------------------------------------------------
(* The server                                                              *)

\* The page moves on its own, as the buttons of the chart do.
ServerMoves(i) ==
  /\ form = "jump"
  /\ value' = i /\ display' = UtcText[i]
  /\ UNCHANGED <<form, inputVars, pushes>>

\* update_edit_form: the server takes what is pushed, in order.
UpdateEditForm ==
  /\ pushes # <<>>
  /\ value' = Head(pushes)
  /\ pushes' = Tail(pushes)
  /\ UNCHANGED <<form, inputVars, display>>

ApplyServerState ==
  /\ selected' = value /\ hidden' = value
  /\ text' = IF value = None THEN display ELSE Shown[value]

\* updated(): a patch, which the library holds back while a push of the
\* element is on its way.
Updated ==
  /\ pushes = <<>>
  /\ ApplyServerState
  /\ UNCHANGED <<form, pushes, value, display>>

-----------------------------------------------------------------------------

\* mounted() ends with applyServerState().
PickerMounted(kind) ==
  /\ form = kind
  /\ value \in Instant
  /\ display = IF form = "jump" THEN UtcText[value] ELSE Empty
  /\ form = "edit" => value = Parsed[Shown[value]]
  /\ selected = value /\ hidden = value /\ text = Shown[value]
  /\ pushes = <<>>

PickerNext ==
  \/ \E x \in Texts : Type(x) \/ Close(x)
  \/ \E x \in DateText : Pick(x)
  \/ \E i \in Instant : SubmitJump(i) \/ ServerMoves(i)
  \/ UpdateEditForm
  \/ Updated

PickerTypeOK ==
  /\ form \in {"jump", "edit"}
  /\ text \in Texts /\ display \in Texts
  /\ selected \in Value /\ hidden \in Value /\ value \in Value
  /\ pushes \in Seq(Value)

(* What the form will send is what the viewer sees: the hidden instant is  *)
(* shown as the text, and there is none exactly when the text is no date.  *)
(* The text is never that of the server, which is in another zone.         *)
ShownIsSent ==
  /\ hidden # None => text = Shown[hidden]
  /\ hidden = None => text \notin DateText

(* In the form that pushes its changes no patch takes a change back: every *)
(* one, a text that is no date included, has reached the server before.    *)
EditsSurvivePatch == [][Updated /\ form = "edit" => hidden' = hidden]_pickerVars
=============================================================================
