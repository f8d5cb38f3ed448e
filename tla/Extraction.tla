----------------------------- MODULE Extraction -----------------------------
(***************************************************************************)
(* One extraction between the claim of a task and its settlement, or one   *)
(* asked for by an administrator's evaluation: the attachments are parsed  *)
(* in a thread, with a budget of image transcriptions; the model is asked, *)
(* with retries, a fallback model and one repair of an unreadable answer;  *)
(* what it said is normalised and validated.                               *)
(***************************************************************************)
EXTENDS Naturals, Sequences

CONSTANTS
    Models,
    None,
    MaxFiles,       \* bound of the model: attachments of a mail
    PagesPerScan,   \* bound of the model: images embedded in a document
    MaxImages,      \* the largest settings.VISION_MAX_IMAGES_PER_TASK
    Retries         \* settings.LLM_MAX_RETRIES

ExtractionConstants ==
    None \notin Models /\ {MaxFiles, PagesPerScan, MaxImages, Retries} \subseteq Nat

\* "malformed": a legacy .doc or .xls that cannot be read; "scan": images inside a PDF
\* or a .docx; "packaged": the same saved as .doc; "plain": all that cannot fail, a
\* broken file of another type included, whose error becomes its text.
Kinds == {"plain", "image", "scan", "packaged", "malformed"}

VARIABLES
    caller,     \* "task": process_task; "admin": extract_mail_content
    files,      \* what the caller attached
    todo,       \* the files not parsed yet, the first of them perhaps in part
    page,       \* images of the first one that have been transcribed
    heard,      \* some of them gave text
    setting,    \* settings.LLM_MODEL
    fallback,   \* settings.LLM_FALLBACK_MODEL
    budget,     \* VisionBudget.max_attempts: what VISION_MAX_IMAGES_PER_TASK was
    asked,      \* VisionBudget.attempts
    late,       \* its max_duration_seconds are over
    pc,
    call,       \* the call_llm that runs
    sent,       \* requests made to the model for text, up to MaxRequests + 1
    draft,      \* draft_json: "answered", or "empty" for {}
    outcome

vars == <<caller, files, todo, page, heard, setting, fallback, budget, asked, late,
          pc, call, sent, draft, outcome>>
parsing == <<files, todo, page, heard, budget, asked, late>>
asking == <<call, sent, draft>>
given == <<caller, fallback>>

Call == [purpose : {"extract", "repair"}, model : Models, attempt : 0..Retries, mayFallBack : BOOLEAN]
NoCall == [purpose |-> "none"]
\* Two calls, each with a fallback
MaxRequests == 4 * (Retries + 1)

TypeOK ==
    /\ caller \in {"task", "admin"}
    /\ {files, todo} \subseteq UNION {[1..n -> Kinds] : n \in 0..MaxFiles}
    /\ page \in 0..PagesPerScan /\ heard \in BOOLEAN
    /\ setting \in Models /\ fallback \in Models \cup {None}
    /\ {budget, asked} \subseteq 0..MaxImages /\ late \in BOOLEAN
    /\ pc \in {"prepare", "parse", "load", "request", "normalise", "done"}
    /\ call \in Call \cup {NoCall} /\ sent \in 0..(MaxRequests + 1)
    /\ draft \in {"none", "answered", "empty"}
    /\ outcome \in {"none", "result", "error", "cancelled"}

Init ==
    /\ caller \in {"task", "admin"}
    /\ files \in UNION {[1..n -> Kinds] : n \in 0..MaxFiles}
    /\ todo = <<>> /\ page = 0 /\ heard = FALSE
    /\ setting \in Models /\ fallback \in Models \cup {None}
    /\ budget = 0 /\ asked = 0 /\ late = FALSE
    /\ pc = "prepare" /\ call = NoCall /\ sent = 0
    /\ draft = "none" /\ outcome = "none"

-----------------------------------------------------------------------------
(* Settings of the process: an administrator's save, another task's        *)
(* refresh_runtime_settings.  In production none of this happens.          *)

Reconfigure ==
    /\ pc # "done"
    /\ setting' \in Models \ {setting}
    /\ UNCHANGED <<given, parsing, pc, asking, outcome>>

End(result) == pc' = "done" /\ outcome' = result

\* The limit is read once the task's own refresh is over, which swallows its errors.
Prepare ==
    /\ pc = "prepare" /\ caller = "task"
    /\ setting' \in Models
    /\ todo' = files /\ budget' \in {1, MaxImages}
    /\ pc' = "parse"
    /\ UNCHANGED <<given, files, page, heard, asked, late, asking, outcome>>

\* A stored file is gone; the rest of the task's files are not looked at.
FileMissing ==
    /\ pc = "prepare" /\ caller = "task" /\ files # <<>>
    /\ End("error")
    /\ UNCHANGED <<given, parsing, setting, asking>>

\* prepare_mail_payload: no refresh, and each file that is gone is left out.
PrepareMail ==
    /\ pc = "prepare" /\ caller = "admin"
    /\ \E n \in 0..Len(files) : \E there \in [1..n -> 1..Len(files)] :
           /\ \A i, j \in 1..n : i < j => there[i] < there[j]
           /\ todo' = [i \in 1..n |-> files[there[i]]]
    /\ files' = todo' /\ budget' \in {1, MaxImages}
    /\ pc' = "parse"
    /\ UNCHANGED <<given, page, heard, setting, asked, late, asking, outcome>>

-----------------------------------------------------------------------------
(* process_uploaded_files, in its thread *)

Spent == asked >= budget \/ late

Late ==
    /\ ~late /\ pc = "parse"
    /\ late' = TRUE
    /\ UNCHANGED <<given, files, todo, page, heard, setting, budget, asked, pc, asking, outcome>>

Parsing(kinds) == pc = "parse" /\ todo # <<>> /\ Head(todo) \in kinds
NextFile == todo' = Tail(todo) /\ page' = 0 /\ heard' = FALSE

\* A cancelled attempt is over; the thread goes on.
ParseFails == pc' = "done" /\ outcome' = (IF outcome = "cancelled" THEN outcome ELSE "error")

ParsePlain ==
    /\ Parsing({"plain"})
    /\ NextFile
    /\ UNCHANGED <<given, files, setting, budget, asked, late, pc, asking, outcome>>

\* Mutant: the exception of the legacy parsers becomes the text of the file, like others.
MalformedAsText ==
    /\ Parsing({"malformed"})
    /\ NextFile
    /\ UNCHANGED <<given, files, setting, budget, asked, late, pc, asking, outcome>>

\* "Malformed legacy Office files must stop before invoking or billing the LLM."
Malformed ==
    /\ Parsing({"malformed"})
    /\ ParseFails
    /\ UNCHANGED <<given, parsing, setting, asking>>

\* An attempt is taken from the budget whether the vision model or, when it is disabled or
\* fails, the local OCR transcribes; an image beyond the budget has no text.
Transcribe ==
    /\ Parsing({"image"})
    /\ NextFile
    /\ asked' = IF Spent THEN asked ELSE asked + 1
    /\ UNCHANGED <<given, files, setting, budget, late, pc, asking, outcome>>

TranscribePage ==
    /\ Parsing({"scan", "packaged"}) /\ page < PagesPerScan /\ ~Spent
    /\ asked' = asked + 1 /\ page' = page + 1
    /\ heard' \in {TRUE, heard}
    /\ UNCHANGED <<given, files, todo, setting, budget, late, pc, asking, outcome>>

CloseScan ==
    /\ Parsing({"scan"}) /\ (page = PagesPerScan \/ Spent)
    /\ NextFile
    /\ UNCHANGED <<given, files, setting, budget, asked, late, pc, asking, outcome>>

\* parse_doc takes text from the images for an error text, and refuses a document
\* that has neither text nor tables.
ClosePackaged ==
    /\ Parsing({"packaged"}) /\ (page = PagesPerScan \/ Spent)
    /\ \/ ~heard /\ NextFile /\ UNCHANGED <<pc, outcome>>
       \/ ParseFails /\ UNCHANGED <<todo, page, heard>>
    /\ UNCHANGED <<given, files, setting, budget, asked, late, asking>>

Parsed ==
    /\ pc = "parse" /\ todo = <<>>
    /\ pc' = IF outcome = "cancelled" THEN "done" ELSE "load"
    /\ UNCHANGED <<given, parsing, setting, asking, outcome>>

-----------------------------------------------------------------------------
(* call_llm, under extract_draft_json *)

Counted == IF sent > MaxRequests THEN sent ELSE sent + 1

Ask(purpose, model, mayFallBack) ==
    /\ call' = [purpose |-> purpose, model |-> model, attempt |-> 0, mayFallBack |-> mayFallBack]
    /\ sent' = Counted

\* The examples and the prompt in use are read, or errors of that swallowed.
LoadGuidance ==
    /\ pc = "load"
    /\ pc' = "request" /\ Ask("extract", setting, TRUE)
    /\ UNCHANGED <<given, parsing, setting, draft, outcome>>

Drafted(content) == draft' = content /\ pc' = "normalise" /\ call' = NoCall

Answer ==
    /\ pc = "request"
    /\ Drafted("answered")
    /\ UNCHANGED <<given, parsing, setting, sent, outcome>>

\* No JSON object with a field of ours: asked to repair it, once
Unreadable ==
    /\ pc = "request"
    /\ \/ call.purpose = "extract" /\ Ask("repair", setting, TRUE) /\ UNCHANGED <<draft, pc>>
       \/ call.purpose = "repair" /\ Drafted("empty") /\ UNCHANGED sent
    /\ UNCHANGED <<given, parsing, setting, outcome>>

\* The exception of an extract call ends the attempt, that of a repair call is swallowed.
CallFails ==
    \/ call.purpose = "extract" /\ End("error") /\ UNCHANGED asking
    \/ call.purpose = "repair" /\ Drafted("empty") /\ UNCHANGED <<sent, outcome>>

\* Another status of 4xx: neither retried nor asked of the fallback model
Refused ==
    /\ pc = "request"
    /\ CallFails
    /\ UNCHANGED <<given, parsing, setting>>

\* 429, 5xx, a timeout, no connection, no choice or an empty content
TryAgain ==
    /\ pc = "request" /\ call.attempt < Retries
    /\ call' = [call EXCEPT !.attempt = @ + 1] /\ sent' = Counted
    /\ UNCHANGED <<given, parsing, setting, pc, draft, outcome>>

\* Mutant: each of the two models falls back on the other.
FallsBackAgain == fallback # None /\ (call.mayFallBack \/ call.model # setting)

FallsBack == call.mayFallBack /\ fallback \notin {None, call.model}

GiveUp ==
    /\ pc = "request" /\ call.attempt = Retries
    /\ \/ FallsBack /\ Ask(call.purpose, fallback, FALSE) /\ UNCHANGED <<pc, draft, outcome>>
       \/ ~FallsBack /\ CallFails
    /\ UNCHANGED <<given, parsing, setting>>

\* normalize makes every draft an object with all fields; an empty one passes the schema,
\* and an evaluation compares without validating.
Normalise ==
    /\ pc = "normalise"
    /\ \/ End("result")
       \/ draft = "answered" /\ caller = "task" /\ End("error")
    /\ UNCHANGED <<given, parsing, setting, asking>>

\* The time limit of the task, or of the evaluation, at any await
Cancel ==
    /\ outcome = "none"
    /\ outcome' = "cancelled"
    /\ pc' = IF pc = "parse" THEN pc ELSE "done"
    /\ UNCHANGED <<given, parsing, setting, asking>>

-----------------------------------------------------------------------------
Step ==
    \/ Prepare \/ FileMissing \/ PrepareMail
    \/ ParsePlain \/ Malformed \/ Transcribe \/ TranscribePage \/ CloseScan \/ ClosePackaged \/ Parsed
    \/ LoadGuidance \/ Answer \/ Unreadable \/ Refused \/ TryAgain \/ GiveUp \/ Normalise

Next == Step \/ Reconfigure \/ Late \/ Cancel

\* Every request has a timeout, so that each step comes to its end.
Fairness == WF_vars(Step)

Spec == Init /\ [][Next]_vars /\ Fairness

-----------------------------------------------------------------------------
\* What one extraction may cost, whatever the model answers and whoever changes the
\* settings under it: neither more requests than two calls with their retries and
\* fallbacks, nor more images than the limit it started with, also in the thread of a
\* cancelled attempt; and a malformed legacy file stops it before the first request.
AskedWithinBounds ==
    /\ sent <= MaxRequests /\ asked <= budget
    /\ (\E i \in DOMAIN files : files[i] = "malformed") => sent = 0 /\ outcome # "result"

\* An extraction ends: retries, fallbacks and repairs run out.
ExtractionEnds == <>(pc = "done")
=============================================================================
