----------------------------- MODULE EditorInput -----------------------------
(***************************************************************************)
(* The editor of an article: the hook HugeRteInput of                      *)
(* assets/js/hooks/hugerte_input.js.  The form's field is a hidden         *)
(* textarea, the source, that the server never patches; the viewer writes  *)
(* into an editor that is loaded after the page, and the hook copies the   *)
(* editor's document to the source and reports it to the server, which     *)
(* validates it.                                                           *)
(***************************************************************************)
CONSTANTS
  Content,    \* the documents
  NoContent,  \* the empty one
  Clean       \* Clean[c]: c as the editor writes it out

ASSUME CleanAssumption ==
  /\ NoContent \in Content
  /\ Clean \in [Content -> Content]
  /\ \A c \in Content : Clean[Clean[c]] = Clean[c]

VARIABLES
  stage,     \* "loading", "ready", or "gone" with the page
  document,  \* what the viewer sees: a bare textarea, then the editor
  source,    \* the value of the source
  pending,   \* the debounced flush is pending
  body,      \* the document the server knows
  sent       \* history: the last submission

editorVars == <<stage, document, source, pending, body, sent>>

\* A submission: the stage it comes in, the document it carries, the one the
\* viewer sees and the one the server has had.
Submission == [stage : {"none", "loading", "ready"},
               body : Content, seen : Content, known : Content]

\* mounted(): the editor is still to be loaded, and its textarea is empty.
EditorMounted ==
  /\ stage = "loading"
  /\ document = NoContent
  /\ source \in Content /\ body = source
  /\ pending = FALSE
  /\ sent = [stage |-> "none", body |-> NoContent, seen |-> NoContent, known |-> NoContent]

\* A changed value is reported to the server, as the form's phx-change.
SyncSource(value, notify) ==
  /\ source' = value
  /\ body' = IF notify /\ source # value THEN value ELSE body

FlushSync(content, notify) == SyncSource(Clean[content], notify)

\* The editor's "init" and the end of initEditor(), which nothing comes
\* between: the document is that of mounted(), whatever has been written to
\* the textarea.  Nobody but the editor changes the source.  It need not come:
\* when the import of the editor fails, the stage stays "loading".
InitEditor ==
  /\ stage = "loading"
  /\ stage' = "ready"
  /\ document' = source
  /\ FlushSync(source, FALSE)
  /\ UNCHANGED <<pending, sent>>

\* "input" of the editor, or writing into the textarea before there is one.
Input(content) ==
  /\ stage # "gone"
  /\ document' = content
  /\ pending' = (stage = "ready")
  /\ UNCHANGED <<stage, source, body, sent>>

\* "change", "undo" and "redo".
Change(content) ==
  /\ stage = "ready"
  /\ document' = content
  /\ FlushSync(content, TRUE)
  /\ UNCHANGED <<stage, pending, sent>>

Blur ==
  /\ stage = "ready"
  /\ FlushSync(document, TRUE)
  /\ UNCHANGED <<stage, document, pending, sent>>

\* The timer of scheduleSync().
Scheduled ==
  /\ pending
  /\ pending' = FALSE
  /\ FlushSync(document, TRUE)
  /\ UNCHANGED <<stage, document, sent>>

\* Another field changes: "validate" gets the form as a whole.
Validate ==
  /\ stage # "gone"
  /\ body' = source
  /\ UNCHANGED <<stage, document, source, pending, sent>>

Submit(value) ==
  /\ stage # "gone"
  /\ source' = value
  /\ body' = value
  /\ sent' = [stage |-> stage, body |-> value, seen |-> document, known |-> body]
  /\ UNCHANGED <<stage, document, pending>>

SubmitUnflushed == Submit(source)

\* The form is sent with the source as it is after beforeSubmit(), which does
\* nothing without an editor.
BeforeSubmit == Submit(IF stage = "ready" THEN Clean[document] ELSE source)

EditorDestroyed ==
  /\ stage # "gone"
  /\ stage' = "gone"
  /\ pending' = FALSE
  /\ UNCHANGED <<document, source, body, sent>>

EditorNext ==
  \/ InitEditor
  \/ \E content \in Content : Input(content) \/ Change(content)
  \/ Blur \/ Scheduled \/ Validate \/ BeforeSubmit
  \/ EditorDestroyed

EditorTypeOK ==
  /\ stage \in {"loading", "ready", "gone"}
  /\ document \in Content /\ source \in Content /\ body \in Content
  /\ pending \in BOOLEAN
  /\ sent \in Submission

(* The server knows the document the viewer sees in the editor whenever no *)
(* flush is pending: no order of writing, undoing, leaving the field,      *)
(* other fields, timers and submissions, some of which copy the document   *)
(* without reporting it, leaves it with an older one.                      *)
ServerKnows == stage = "ready" /\ ~pending => Clean[body] = Clean[document]

(* A submission carries the document the viewer sees in the editor, also   *)
(* while a flush is pending.  Before there is an editor, or when it cannot *)
(* be loaded, it does not: what is written into the textarea in the        *)
(* editor's place is neither sent nor kept, and what is sent instead is    *)
(* the document the server has already, though the textarea shows nothing  *)
(* of it.  So an article is not lost to a form that is sent too early.     *)
SubmitSendsSeen ==
  /\ sent.stage = "ready" => Clean[sent.body] = Clean[sent.seen]
  /\ sent.stage = "loading" => sent.body = sent.known
=============================================================================
