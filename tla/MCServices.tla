----------------------------- MODULE MCServices -----------------------------
(***************************************************************************)
(* What runs behind the API, side by side: a behaviour is one of the       *)
(* in-process queue, of one extraction, or of the webhook jobs of one      *)
(* task.  They share rows only where one module models both sides; the     *)
(* Celery queue has runs of its own.                                       *)
(***************************************************************************)
EXTENDS LocalQueue

CONSTANTS k1,
          Models, MaxFiles, PagesPerScan, MaxImages, Retries,
          Jobs, MaxCrashes, MaxPosts

TenantOfTask == [t \in Tasks |-> k1]

VARIABLES part,
          caller, files, todo, page, heard, setting, fallback, budget, asked, late,
          pc, call, sent, draft, outcome,
          status, callback, round, attempt, job, told, crashes

extractionVars == <<caller, files, todo, page, heard, setting, fallback, budget, asked,
                    late, pc, call, sent, draft, outcome>>
notificationVars == <<status, callback, round, attempt, job, told, crashes>>
vars == <<part, localVars, extractionVars, notificationVars>>

Extraction == INSTANCE Extraction
Notification == INSTANCE TaskNotification

ASSUME LocalConstants /\ Extraction!ExtractionConstants /\ Notification!NotificationConstants

\* Only the part that moves chooses its inputs.
OthersFixed ==
    /\ part # "local" => env = "alone"
    /\ part # "extraction" => /\ caller = "task" /\ files = <<>> /\ fallback = None
                              /\ setting = CHOOSE m \in Models : TRUE

Init ==
    /\ part \in {"local", "extraction", "notification"}
    /\ LocalInit /\ Extraction!Init /\ Notification!Init
    /\ OthersFixed

\* A bound of the model: no retries while another process takes tasks as well.
Next ==
    \/ /\ part = "local" /\ LocalNext /\ (env = "shared" => retries' = 0)
       /\ UNCHANGED <<part, extractionVars, notificationVars>>
    \/ part = "extraction" /\ Extraction!Next /\ UNCHANGED <<part, localVars, notificationVars>>
    \/ part = "notification" /\ Notification!Next /\ UNCHANGED <<part, localVars, extractionVars>>

\* The fairness of the parts, where they move
Fairness ==
    /\ WF_localVars(part = "local" /\ Begin) /\ WF_localVars(part = "local" /\ Exit)
    /\ \A t \in Tasks : WF_localVars(part = "local" /\ Enqueue(t))
    /\ \A w \in Workers : WF_localVars(part = "local" /\ Work(w))
    /\ WF_extractionVars(part = "extraction" /\ Extraction!Step)
    /\ \A r \in Notification!Rounds :
           WF_notificationVars(part = "notification" /\ Notification!Announce(r))
    /\ \A j \in Jobs : WF_notificationVars(part = "notification" /\ Notification!Deliver(j))

Spec == Init /\ [][Next]_vars /\ Fairness

\* See Extraction: what one may cost.
AskedWithinBounds == Extraction!AskedWithinBounds

\* See Extraction: it ends.
ExtractionEnds == part = "extraction" => Extraction!ExtractionEnds

\* See TaskNotification: callback_status claims no delivery that did not happen.
CallbackTruthful == Notification!CallbackTruthful

\* See TaskNotification: callback_status comes to rest.
CallbackSettles == Notification!CallbackSettles
=============================================================================
