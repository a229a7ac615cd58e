----------------------------- MODULE FormInputs ------------------------------
(***************************************************************************)
(* The forms whose field is not the input the viewer sees: a page has the  *)
(* form of an article, with an editor, or one with a date and time picker. *)
(***************************************************************************)
EXTENDS PickerInput, EditorInput

VARIABLE kind   \* "article", "jump" or "edit"

formVars == <<kind, pickerVars, editorVars>>

FormInit ==
  /\ kind \in {"article", "jump", "edit"}
  /\ PickerMounted(IF kind = "edit" THEN "edit" ELSE "jump")
  /\ EditorMounted

ArticleStep == kind = "article" /\ EditorNext /\ UNCHANGED <<kind, pickerVars>>
PickerStep == kind # "article" /\ PickerNext /\ UNCHANGED <<kind, editorVars>>

FormNext == ArticleStep \/ PickerStep

FormSpec == FormInit /\ [][FormNext]_formVars

(* The types of both inputs.                                               *)
FormTypeOK == EditorTypeOK /\ PickerTypeOK

(* What a form has sent, and what it will send, is what its viewer sees,   *)
(* but for what a pending flush of the editor still copies: no order of    *)
(* writing, choosing, leaving the field, timers, submissions and patches   *)
(* of the page leaves the field or the server with something else.  The    *)
(* textarea in the place of an editor that is not loaded yet, or cannot be *)
(* loaded, is the exception: the document of the server is sent, not what  *)
(* the textarea shows.                                                     *)
FormSendsShown == ServerKnows /\ SubmitSendsSeen /\ ShownIsSent
=============================================================================
