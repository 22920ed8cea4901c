------------------------------- MODULE AvSave -------------------------------
(***************************************************************************)
(* A file saved to disk by the page (av-cli/assets/app.js) through the     *)
(* streaming service worker (autonomi-stream-sw.js): a one-shot token is   *)
(* registered with the worker and confirmed on a port, a click sends the   *)
(* browser to the token's address, and the worker answers with a body that *)
(* the page feeds over the port, one chunk for each pull.                  *)
(*                                                                         *)
(* The browser can kill the worker's realm or replace the worker at any    *)
(* time; what the realm held is then gone, and the page is told of a       *)
(* replacement only.  The network and the disk may go silent for ever: the *)
(* deadlines of the page end a pipe then, and nothing ends a save that is  *)
(* still opening its file or reads it into memory.                         *)
(*                                                                         *)
(* A file is its number of chunks, a chunk its position.                   *)
(***************************************************************************)
EXTENDS Naturals, Sequences, FiniteSets

CONSTANTS
    Saves,     \* the saves the user clicks, each with its own token
    Rows,      \* those of a result row; the others are of the player's dialog
    Chunks,    \* the length of the file, in chunks
    MaxDeaths  \* bound: how often the browser kills the worker or replaces it

ASSUME ChunksAssumption == Chunks \in Nat \ {0}
ASSUME RowsAssumption == Rows \subseteq Saves
ASSUME DeathsAssumption == MaxDeaths \in Nat

VARIABLES
    save,      \* the page's side of each save: mediaSave, runOpen, pipeReaderToPort
    toWorker,  \* the port of each save, from the page to the worker
    toPage,    \* and from the worker to the page
    posted,    \* the av-download messages on their way, with their addressee
    clicked,   \* the saves whose navigation has not reached the worker
    body,      \* streamDownload: the response body of each save
    downloads, \* the tokens the living realm knows
    worker,    \* how many workers and realms there have been
    controller,\* the worker the page believes is in control
    reasons    \* keepaliveReasons

vars == <<save, toWorker, toPage, posted, clicked, body, downloads, worker, controller,
          reasons>>

page == <<save, controller, reasons>>
realm == <<body, downloads, worker>>

Settled == {"saved", "failed", "cancelled"}

SaveState ==
    [at : {"idle", "opening", "opened", "confirming", "piping", "draining"} \cup Settled,
     to : 0 .. MaxDeaths,           \* the worker asked last
     again : BOOLEAN,               \* the token was registered a second time
     seen : 0 .. MaxDeaths,         \* history: the controller at the click
     parts : Seq(1 .. Chunks),      \* pending: bytes already in hand
     next : 1 .. Chunks + 1,        \* what the reader returns next
     reading : 0 .. 2,              \* reads in progress
     handed : Seq(1 .. Chunks),     \* what went down the port, or into the Blob
     deadline : {"none", "first", "network", "worker"},
     aborted : BOOLEAN]

BodyState == [at : {"none", "open", "closed", "errored", "cancelled", "refused", "lost"},
              pulling : BOOLEAN, queued : Nat, got : Seq(1 .. Chunks)]

NoBody == [at |-> "none", pulling |-> FALSE, queued |-> 0, got |-> <<>>]

\* What travels on a port, besides "ready", "pull" and "cancelled" to the page.
Message == [type : {"chunk"}, of : 1 .. Chunks] \cup [type : {"done", "error"}]

SaveTypeOK ==
    /\ DOMAIN save = Saves /\ \A s \in Saves : save[s] \in SaveState
    /\ DOMAIN body = Saves /\ \A s \in Saves : body[s] \in BodyState
    /\ \A s \in Saves : \A i \in DOMAIN toWorker[s] : toWorker[s][i] \in Message
    /\ downloads \subseteq Saves /\ clicked \subseteq Saves
    /\ worker.swaps \in Nat /\ worker.kills \in Nat
    /\ worker.swaps + worker.kills <= MaxDeaths
    /\ controller \in 0 .. worker.swaps
    /\ reasons \subseteq {"download"}

Init ==
    /\ save = [s \in Saves |->
                 [at |-> "idle", to |-> 0, again |-> FALSE, seen |-> 0, parts |-> <<>>,
                  next |-> 1, reading |-> 0, handed |-> <<>>, deadline |-> "none", aborted |-> FALSE]]
    /\ toWorker = [s \in Saves |-> <<>>]
    /\ toPage = [s \in Saves |-> <<>>]
    /\ posted = {}
    /\ clicked = {}
    /\ body = [s \in Saves |-> NoBody]
    /\ downloads = {}
    /\ worker = [swaps |-> 0, kills |-> 0]
    /\ controller = 0
    /\ reasons = {}

-----------------------------------------------------------------------------
(* The page: opening the file and finding the worker                       *)

Become(s, state) == save' = [save EXCEPT ![s] = state]

\* Save in the player's dialog.
OpenFromDialog(s) ==
    /\ save[s].at = "idle" /\ s \notin Rows
    /\ Become(s, [save[s] EXCEPT !.at = "opening"])
    /\ UNCHANGED <<toWorker, toPage, posted, clicked, realm, controller, reasons>>

\* The network answers openAutonomi, which has no deadline: it fails, or the
\* file is past SAVE_BUFFER_CAP or not.
OpenAutonomi(s) ==
    /\ save[s].at = "opening"
    /\ \E at \in {"opened", "draining", "failed"} : Become(s, [save[s] EXCEPT !.at = at])
    /\ UNCHANGED <<toWorker, toPage, posted, clicked, realm, controller, reasons>>

\* An open of a row that the plan turned into a download: the leading bytes
\* were read to ask for the plan.
OpenFromRow(s) ==
    /\ save[s].at = "idle" /\ s \in Rows
    /\ \E at \in {"opened", "draining"} :
         Become(s, [save[s] EXCEPT !.at = at, !.parts = <<1>>, !.next = 2])
    /\ UNCHANGED <<toWorker, toPage, posted, clicked, realm, controller, reasons>>

\* registerOn: the token is posted to a worker with a fresh port.
RegisterOn(s, to, again) ==
    /\ Become(s, [save[s] EXCEPT !.at = "confirming", !.to = to, !.again = again])
    /\ posted' = posted \cup {[save |-> s, to |-> to]}

\* startSWDownload up to the first confirmation, or no worker at all.
StartSWDownload(s) ==
    /\ save[s].at = "opened"
    /\ \/ RegisterOn(s, controller, FALSE)
       \/ /\ Become(s, [save[s] EXCEPT !.at = "draining"])
          /\ UNCHANGED posted
    /\ UNCHANGED <<toWorker, toPage, clicked, realm, controller, reasons>>

\* Mutant: the controller is not looked at again.
NeverReplaced(s) == TRUE

\* The worker asked is in control still, or was the second one asked.
NotReplaced(s) == save[s].again \/ controller = save[s].to

\* A controller that changed during the first registration is asked too.
AskAgain(s) ==
    /\ ~NotReplaced(s)
    /\ RegisterOn(s, controller, TRUE)
    /\ UNCHANGED <<clicked, reasons>>

\* The worker confirms the token: downloadUrl, keepaliveAdd, and a pipe that
\* waits for its first pull.
HearReady(s) ==
    /\ save[s].at = "confirming"
    /\ toPage[s] = <<"ready">>
    /\ \/ AskAgain(s)
       \/ /\ NotReplaced(s)
          /\ Become(s, [save[s] EXCEPT !.at = "piping", !.deadline = "first",
                                       !.seen = controller])
          /\ clicked' = clicked \cup {s}
          /\ reasons' = reasons \cup {"download"}
          /\ UNCHANGED posted
    /\ toPage' = [toPage EXCEPT ![s] = <<>>]
    /\ UNCHANGED <<toWorker, realm, controller>>

\* It did not in time: the save goes through memory.
ConfirmTimeout(s) ==
    /\ save[s].at = "confirming"
    /\ \/ AskAgain(s)
       \/ /\ NotReplaced(s)
          /\ Become(s, [save[s] EXCEPT !.at = "draining"])
          /\ UNCHANGED <<posted, clicked, reasons>>
    /\ toPage' = [toPage EXCEPT ![s] = <<>>]
    /\ UNCHANGED <<toWorker, realm, controller>>

-----------------------------------------------------------------------------
(* The page: pipeReaderToPort                                              *)

\* finish: what it does to the save (its locals go with it; what a failed one
\* handed over is of no use), and to its port and the pings of all saves.
Finish(s, at) ==
    [save[s] EXCEPT !.at = at, !.deadline = "none", !.reading = 0,
                    !.parts = <<>>, !.next = 1, !.aborted = FALSE,
                    !.handed = IF at = "saved" THEN @ ELSE <<>>]

Close(s) ==
    /\ reasons' = reasons \ {"download"}
    /\ toPage' = [toPage EXCEPT ![s] = <<>>]

Post(s, msg) == toWorker' = [toWorker EXCEPT ![s] = Append(@, msg)]

\* The reader of a stopped save fails, whatever the reason.
Failure(s) == IF save[s].aborted THEN "cancelled" ELSE "failed"

\* One chunk goes down the port; from here the worker owes a pull.
Hand(s, chunk) ==
    /\ LET inHand == save[s].parts # <<>> IN
         Become(s, [save[s] EXCEPT !.handed = Append(@, chunk), !.deadline = "worker",
                                   !.parts = IF inHand THEN Tail(@) ELSE @,
                                   !.reading = IF inHand THEN @ ELSE @ - 1,
                                   !.next = IF inHand THEN @ ELSE @ + 1])
    /\ Post(s, [type |-> "chunk", of |-> chunk])
    /\ UNCHANGED reasons

\* A pull: the bytes in hand go first, then the network owes a chunk.
HandlePull(s) ==
    /\ save[s].at = "piping"
    /\ toPage[s] # <<>> /\ Head(toPage[s]) = "pull"
    /\ \/ /\ save[s].aborted
          /\ Post(s, [type |-> "error"])
          /\ Become(s, Finish(s, "cancelled"))
          /\ Close(s)
       \/ /\ ~save[s].aborted
          /\ toPage' = [toPage EXCEPT ![s] = Tail(@)]
          /\ save[s].parts # <<>>
          /\ Hand(s, Head(save[s].parts))
       \/ /\ ~save[s].aborted
          /\ toPage' = [toPage EXCEPT ![s] = Tail(@)]
          /\ save[s].parts = <<>>
          /\ Become(s, [save[s] EXCEPT !.reading = @ + 1, !.deadline = "network"])
          /\ UNCHANGED <<toWorker, reasons>>
    /\ UNCHANGED <<posted, clicked, realm, controller>>

ReadChunk(s) ==
    /\ save[s].at = "piping" /\ save[s].reading > 0
    /\ ~save[s].aborted
    /\ save[s].next <= Chunks
    /\ Hand(s, save[s].next)
    /\ UNCHANGED <<toPage, posted, clicked, realm, controller>>

\* Mutant: the end of the stream is the end of the file.
WholeAtEnd(s) == TRUE

\* received === totalBytes.
Whole(s) == Len(save[s].handed) = Chunks

\* The end of the stream, where it should be or before.
ReadEnd(s) ==
    /\ save[s].at = "piping" /\ save[s].reading > 0
    /\ ~save[s].aborted
    /\ \/ Whole(s) /\ Post(s, [type |-> "done"]) /\ Become(s, Finish(s, "saved"))
       \/ ~Whole(s) /\ Post(s, [type |-> "error"]) /\ Become(s, Finish(s, "failed"))
    /\ Close(s)
    /\ UNCHANGED <<posted, clicked, realm, controller>>

\* The network fails, or the user stopped the save.
ReadFails(s) ==
    /\ save[s].at = "piping" /\ save[s].reading > 0
    /\ Post(s, [type |-> "error"])
    /\ Become(s, Finish(s, Failure(s)))
    /\ Close(s)
    /\ UNCHANGED <<posted, clicked, realm, controller>>

\* Mutant: the page gives up without a word to the worker.
GiveUp(s) ==
    /\ save[s].at = "piping" /\ save[s].deadline # "none"
    /\ Become(s, Finish(s, Failure(s)))
    /\ Close(s)
    /\ UNCHANGED <<toWorker, posted, clicked, realm, controller>>

\* The deadline that is armed passes.
TimerFires(s) ==
    /\ save[s].at = "piping" /\ save[s].deadline # "none"
    /\ Post(s, [type |-> "error"])
    /\ Become(s, Finish(s, Failure(s)))
    /\ Close(s)
    /\ UNCHANGED <<posted, clicked, realm, controller>>

\* The browser's own download list dropped it.
HearCancelled(s) ==
    /\ save[s].at = "piping"
    /\ toPage[s] # <<>> /\ Head(toPage[s]) = "cancelled"
    /\ Become(s, Finish(s, "cancelled"))
    /\ Close(s)
    /\ UNCHANGED <<toWorker, posted, clicked, realm, controller>>

\* Stop, which only a row has, and only while bytes are moving.
Stop(s) ==
    /\ s \in Rows
    /\ save[s].at \in {"piping", "draining"}
    /\ Become(s, [save[s] EXCEPT !.aborted = TRUE])
    /\ UNCHANGED <<toWorker, toPage, posted, clicked, realm, controller, reasons>>

\* drainRest and downloadBlob: the rest is read into memory, to its end, to an
\* early one, to a failure or to Stop.  None of its reads has a deadline.
Drain(s) ==
    /\ save[s].at = "draining"
    /\ \E end \in save[s].next - 1 .. Chunks :
         Become(s, IF ~save[s].aborted /\ end = Chunks
                   THEN [Finish(s, "saved") EXCEPT !.handed = [i \in 1 .. end |-> i]]
                   ELSE Finish(s, Failure(s)))
    /\ UNCHANGED <<toWorker, toPage, posted, clicked, realm, controller, reasons>>

\* The controllerchange event: every pipe ends, and says nothing on its port.
ControllerChange ==
    /\ controller # worker.swaps
    /\ controller' = worker.swaps
    /\ save' = [s \in Saves |->
                 IF save[s].at = "piping" THEN Finish(s, Failure(s)) ELSE save[s]]
    /\ reasons' = {}
    /\ toPage' = [s \in Saves |-> IF save[s].at = "piping" THEN <<>> ELSE toPage[s]]
    /\ UNCHANGED <<toWorker, posted, clicked, realm>>

-----------------------------------------------------------------------------
(* The worker                                                              *)

\* The av-download message: a worker that was replaced never gets it, a killed
\* one is started again to hear it.  Tokens nobody came for are swept by age.
RegisterToken(m) ==
    /\ m \in posted
    /\ posted' = posted \ {m}
    /\ \/ m.to # worker.swaps /\ UNCHANGED <<downloads, toPage>>
       \/ /\ m.to = worker.swaps
          /\ \E swept \in {{}, {s \in downloads \ clicked : save[s].at \in {"draining"} \cup Settled}} :
               downloads' = (downloads \ swept) \cup {m.save}
          /\ toPage' = IF m.save \in downloads THEN toPage
                       ELSE [toPage EXCEPT ![m.save] = Append(@, "ready")]
    /\ UNCHANGED <<toWorker, clicked, body, worker, page>>

\* The navigation: streamDownload for a token it knows, which spends it, and
\* 404 for one it does not.
Fetch(s) ==
    /\ s \in clicked
    /\ clicked' = clicked \ {s}
    /\ body' = [body EXCEPT ![s].at = IF s \in downloads THEN "open" ELSE "refused"]
    /\ downloads' = downloads \ {s}
    /\ UNCHANGED <<toWorker, toPage, posted, worker, page>>

\* A body that does not end well is thrown away by the browser.
Broken(at) == [NoBody EXCEPT !.at = at]

\* A port the page has closed drops what is posted on it.
Tell(s, msg) ==
    toPage' = IF save[s].at \in Settled THEN toPage
              ELSE [toPage EXCEPT ![s] = Append(@, msg)]

\* Mutant: a pull settles at once, so the browser asks without being answered.
PullAhead(s) ==
    /\ body[s].at = "open"
    /\ body[s].queued = 0
    /\ Len(toPage[s]) < 2
    /\ body' = [body EXCEPT ![s].pulling = TRUE]
    /\ Tell(s, "pull")
    /\ UNCHANGED <<toWorker, posted, clicked, downloads, worker, page>>

\* The stream asks for a chunk when its queue is empty and none is owed.
Pull(s) ==
    /\ body[s].at = "open"
    /\ body[s].queued = 0 /\ ~body[s].pulling
    /\ body' = [body EXCEPT ![s].pulling = TRUE]
    /\ Tell(s, "pull")
    /\ UNCHANGED <<toWorker, posted, clicked, downloads, worker, page>>

\* port.onmessage: what a message of the page does to a body.
Taken(b, msg) ==
    IF b.at # "open" THEN b
    ELSE IF msg.type = "done" THEN [b EXCEPT !.at = "closed", !.pulling = FALSE]
    ELSE IF msg.type = "error" THEN Broken("errored")
    ELSE [b EXCEPT !.queued = @ + 1, !.pulling = FALSE, !.got = Append(@, msg.of)]

\* Messages wait on the port until there is a stream.
WorkerTakes(s) ==
    /\ body[s].at \in {"open", "errored", "closed"}
    /\ toWorker[s] # <<>>
    /\ toWorker' = [toWorker EXCEPT ![s] = Tail(@)]
    /\ body' = [body EXCEPT ![s] = Taken(@, Head(toWorker[s]))]
    /\ UNCHANGED <<toPage, posted, clicked, downloads, worker, page>>

\* The browser writes a chunk to disk.
WriteOut(s) ==
    /\ body[s].queued > 0
    /\ body' = [body EXCEPT ![s].queued = @ - 1]
    /\ UNCHANGED <<toWorker, toPage, posted, clicked, downloads, worker, page>>

\* cancel(): the user drops the download in the browser.
UserCancels(s) ==
    /\ body[s].at = "open"
    /\ body' = [body EXCEPT ![s] = Broken("cancelled")]
    /\ Tell(s, "cancelled")
    /\ toWorker' = [toWorker EXCEPT ![s] = <<>>]
    /\ UNCHANGED <<posted, clicked, downloads, worker, page>>

\* What dies with a realm: its tokens, its bodies and its ends of the ports.
RealmDies ==
    /\ downloads' = {}
    /\ body' = [s \in Saves |->
                 IF body[s].at = "open" THEN Broken("lost") ELSE body[s]]
    /\ toWorker' = [s \in Saves |->
                 IF s \in downloads \/ body[s].at = "open" THEN <<>> ELSE toWorker[s]]
    /\ UNCHANGED <<toPage, posted, clicked, page>>

Kill ==
    /\ worker.swaps + worker.kills < MaxDeaths
    /\ worker' = [worker EXCEPT !.kills = @ + 1]
    /\ RealmDies

Swap ==
    /\ worker.swaps + worker.kills < MaxDeaths
    /\ worker' = [worker EXCEPT !.swaps = @ + 1]
    /\ RealmDies

-----------------------------------------------------------------------------

\* A stopped save's reader fails by itself; everything else it waits for from
\* the network may not come.
PageStep(s) ==
    \/ StartSWDownload(s) \/ HearReady(s) \/ ConfirmTimeout(s)
    \/ HandlePull(s) \/ HearCancelled(s) \/ TimerFires(s)
    \/ save[s].aborted /\ (ReadFails(s) \/ Drain(s))

NetworkStep(s) ==
    OpenAutonomi(s) \/ Drain(s) \/ ReadChunk(s) \/ ReadEnd(s) \/ ReadFails(s)

UserStep(s) == OpenFromDialog(s) \/ OpenFromRow(s) \/ Stop(s) \/ UserCancels(s)

WorkerStep(s) ==
    \/ \E m \in posted : m.save = s /\ RegisterToken(m)
    \/ Fetch(s) \/ Pull(s) \/ WorkerTakes(s)

Next ==
    \/ \E s \in Saves :
         PageStep(s) \/ NetworkStep(s) \/ WorkerStep(s) \/ UserStep(s) \/ WriteOut(s)
    \/ ControllerChange \/ Kill \/ Swap

\* The page handles its events and its timers fire; a living worker handles
\* its own.  Nothing is asked of the network, of the disk or of the user.
Fairness ==
    /\ \A s \in Saves :
         /\ WF_vars(PageStep(s))
         /\ WF_vars(WorkerStep(s))
    /\ WF_vars(ControllerChange)

Spec == Init /\ [][Next]_vars /\ Fairness

-----------------------------------------------------------------------------
(* Properties                                                              *)

\* "Downloaded as" is said, and a download completes in the browser, only of a
\* whole file: every chunk once and in order, the bytes read for the plan
\* first (app.js, the check against totalBytes in the pipe and in drainRest).
SavedIsWhole ==
    LET file == [i \in 1 .. Chunks |-> i] IN
      \A s \in Saves : /\ save[s].at = "saved" => save[s].handed = file
                       /\ body[s].at = "closed" => body[s].got = file

\* A slow disk pauses the network read: of one save at most one chunk is on its
\* way or waits in the worker, and one read is in progress.
OneChunkInFlight ==
    \A s \in Saves :
      LET sent == {i \in DOMAIN toWorker[s] : toWorker[s][i].type = "chunk"}
      IN save[s].reading + Cardinality(sent) + body[s].queued <= 1

\* The worker answers 404 to a click only when its realm died too late for the
\* page to see: it was killed, replaced after the click, or replaced again
\* while the token was registered for the second time.
RefusedOnlyIfRealmLost ==
    \A s \in Saves :
      body[s].at = "refused" =>
        worker.kills > 0 \/ save[s].again \/ worker.swaps # save[s].seen

\* The worker is kept awake "for as long as something rides it": pings go out
\* as long as a pipe runs.
KeptAwake == (\E s \in Saves : save[s].at = "piping") => reasons # {}

(***************************************************************************)
(* Whatever dies or goes silent, and the network and the disk with it: a   *)
(* save that has its file open is piped to an end or turns to memory, one  *)
(* that was stopped ends, and no download hangs in the browser's list.     *)
(***************************************************************************)
SavesEnd ==
    \A s \in Saves :
      /\ save[s].at \in {"opened", "confirming", "piping"} ~>
           save[s].at \in Settled \cup {"draining"}
      /\ save[s].aborted ~> save[s].at \in Settled
      /\ body[s].at = "open" ~> body[s].at # "open"

\* Known not to hold: every save the user clicks settles.  Behind a network
\* that goes silent the dialog's Save stays disabled, in openAutonomi as in
\* drainRest, and neither has the deadline a pipe has (app.js).
EverySaveSettles ==
    \A s \in Saves : save[s].at # "idle" ~> save[s].at \in Settled

=============================================================================
