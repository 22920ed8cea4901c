----------------------------- MODULE AvDownload -----------------------------
(***************************************************************************)
(* Getting the bytes of a location (av-cli/src/download.rs): is there a    *)
(* backend, which one answers, and, when it is the ant CLI, the progress   *)
(* read from the diagnostics file that CLI appends to while it runs.       *)
(*                                                                         *)
(* Three parties act at once: the fetch itself, the ant child process that *)
(* writes its diagnostics, and the machine, on which the antd daemon comes *)
(* and goes and the ant CLI is installed and removed.  One fetch is        *)
(* modelled: each has a child and a diagnostics file of its own.           *)
(***************************************************************************)
EXTENDS Naturals, Sequences, FiniteSets

CONSTANTS
    Chunks,      \* the chunks of the record
    Callers,     \* who may ask, a subset of CallerKinds
    Places,      \* where ant may be when the fetch begins
    MaxLines,    \* bound: the lines the ant CLI writes
    MaxChanges   \* bound: how often the machine changes

CallerKinds == {"page",      \* POST /api/view/fetch, which streams progress
                "route",     \* GET /api/download
                "index",     \* POST /api/index
                "command"}   \* av index at a terminal

AntAt == {"none", "path", "home", "broken"}

ASSUME CallersAssumption == Callers \subseteq CallerKinds /\ Places \subseteq AntAt
ASSUME BoundsAssumption == MaxLines \in Nat /\ MaxChanges \in Nat

VARIABLES
    antd,     \* the antd daemon answers
    ant,      \* where the ant CLI is, and whether it runs
    knows,    \* the server's cached `antd_running`
    changes,  \* bound: the changes left
    fetch,    \* the thread that fetches
    child,    \* the ant process
    file,     \* its diagnostics file, in half lines
    there,    \* that file exists
    tailer    \* DiagnosticsTailer

machine == <<antd, ant, knows, changes>>
vars == <<machine, fetch, child, file, there, tailer>>

\* A line of the diagnostics file: a chunk found, an attempt that failed, or
\* something that is no record.  It reaches the file in two writes at worst.
Junk == [outcome |-> "junk"]
Line == [outcome : {"found", "failed"}, chunk : Chunks] \cup {Junk}
Half == [line : Line, end : BOOLEAN]

Report == [index : Chunks, chunks : Nat, retried : BOOLEAN]

Ended == {"ok", "ok_cli", "failed", "refused", "missing"}

FetchState == [at : {"idle", "check", "ask_start", "ask_install", "verify", "data",
                     "stream", "body", "spawn", "stat", "read", "drain", "wait",
                     "return"} \cup Ended,
               caller : CallerKinds,
               last : BOOLEAN,    \* the pass after the child has exited
               len  : Nat,        \* the length read_appended was told, until it reads
               held : BOOLEAN]    \* the ant CLI has worked from the check to the spawn

\* pending: what is past the last newline; done, failed: the two maps; log:
\* the events sent to the caller, in order.
TailerState == [offset : Nat, pending : Seq(Half), done : SUBSET Chunks,
                failed : SUBSET Chunks, log : Seq(Report)]

Init ==
    /\ antd \in BOOLEAN
    /\ ant \in Places
    /\ knows \in BOOLEAN
    /\ changes = MaxChanges
    /\ fetch \in [at : {"idle"}, caller : Callers, last : {FALSE}, len : {0}, held : {FALSE}]
    /\ child = "none"
    /\ file = << >>
    /\ there = FALSE
    /\ tailer = [offset |-> 0, pending |-> << >>, done |-> {}, failed |-> {}, log |-> << >>]

At(s) == fetch.at = s
Goto(s) == fetch' = [fetch EXCEPT !.at = s]

-----------------------------------------------------------------------------
(* Is there a backend?                                                     *)

\* Mutant: only PATH is searched.
ResolvedOnPath == ant = "path"

\* ant_resolve_path: PATH, then the directory the installer writes to.  A file
\* is enough.
Resolved == ant \in {"path", "home", "broken"}

\* ant_cli_binary_available: and `ant --version` succeeds.
Available == Resolved /\ ant # "broken"

Begin ==
    /\ At("idle")
    /\ Goto("check")
    /\ knows' = IF fetch.caller = "command" THEN antd ELSE knows
    /\ UNCHANGED <<antd, ant, changes, child, file, there, tailer>>

\* A caller that indexes checks again before it fetches.
Admitted == IF fetch.caller \in {"page", "route"} THEN "data" ELSE "verify"

\* no_backend_error, and step 0 of av index: the cached flag, or the ant CLI.
CheckBackend ==
    /\ At("check")
    /\ fetch' = [fetch EXCEPT !.held = Available,
                              !.at = IF knows \/ Available THEN Admitted
                                     ELSE IF fetch.caller = "command" THEN "ask_start"
                                     ELSE "refused"]
    /\ UNCHANGED <<machine, child, file, there, tailer>>

\* start_antd_daemon, if the user agrees: three seconds of pings.
StartAntd ==
    /\ At("ask_start")
    /\ \E agreed, up \in BOOLEAN :
          /\ antd' = (antd \/ (agreed /\ up))
          /\ Goto(IF agreed /\ antd' THEN "verify" ELSE "ask_install")
    /\ UNCHANGED <<ant, knows, changes, child, file, there, tailer>>

\* What an installer can leave behind.
Landed == {ant, "path", "home", "broken"}

\* install_ant_cli, if the user agrees.  An installer that ran is believed, and
\* the fetch goes on even when no ant is found afterwards.
InstallAnt ==
    /\ At("ask_install")
    /\ \E agreed, ran \in BOOLEAN, where \in Landed :
          /\ ant' = IF agreed THEN where ELSE ant
          /\ fetch' = [fetch EXCEPT
                          !.held = ant' \in {"path", "home"},
                          !.at = IF agreed /\ ran THEN "verify" ELSE "refused"]
    /\ UNCHANGED <<antd, knows, changes, child, file, there, tailer>>

\* verify_uri_exists: antd's health, or the ant CLI.
VerifyUri ==
    /\ At("verify")
    /\ Goto(IF antd \/ Available THEN "data" ELSE "failed")
    /\ UNCHANGED <<machine, child, file, there, tailer>>

-----------------------------------------------------------------------------
(* download_content                                                        *)

\* A web address or a file on this machine has no backend to choose: it is
\* probed by a caller that indexes, and read.
FetchDirectly ==
    /\ At("check")
    /\ \E outcome \in {"ok", "failed"} : Goto(outcome)
    /\ UNCHANGED <<machine, child, file, there, tailer>>

\* Anything but decodable data leads on to the stream.
GetData ==
    /\ At("data")
    /\ \/ antd /\ Goto("ok")
       \/ Goto("stream")
    /\ UNCHANGED <<machine, child, file, there, tailer>>

OpenStream ==
    /\ At("stream")
    /\ \/ antd /\ Goto("body")
       \/ Goto("spawn")
    /\ UNCHANGED <<machine, child, file, there, tailer>>

\* A stream that breaks is an error: there is no second fallback.
ReadBody ==
    /\ At("body")
    /\ \/ antd /\ Goto("ok")
       \/ Goto("failed")
    /\ UNCHANGED <<machine, child, file, there, tailer>>

Watched == fetch.caller = "page"

Spawned == [fetch EXCEPT !.held = FALSE, !.at = IF Watched THEN "stat" ELSE "wait"]

\* Mutant: the CLI is spawned by its bare name.
SpawnByName ==
    /\ At("spawn")
    /\ IF ResolvedOnPath
       THEN /\ child' = "running"
            /\ there' = Watched
            /\ fetch' = Spawned
       ELSE Goto("missing") /\ UNCHANGED <<child, there>>
    /\ UNCHANGED <<machine, file, tailer>>

\* download_via_ant_cli, up to the spawn.  Its files may not open, and a binary,
\* broken or not, may not start.
Spawn ==
    /\ At("spawn")
    /\ \/ /\ Resolved
          /\ child' = "running"
          /\ there' = Watched
          /\ fetch' = Spawned
       \/ /\ Goto("failed")
          /\ UNCHANGED <<child, there>>
       \/ /\ ~Resolved
          /\ Goto("missing")
          /\ UNCHANGED <<child, there>>
    /\ UNCHANGED <<machine, file, tailer>>

-----------------------------------------------------------------------------
(* DiagnosticsTailer::poll                                                 *)

\* Opening and measuring the file.  One that is missing, or no longer than the
\* offset, has nothing new.
Stat ==
    /\ At("stat")
    /\ IF there /\ Len(file) > tailer.offset
       THEN fetch' = [fetch EXCEPT !.len = Len(file), !.at = "read"]
       ELSE Goto("drain")
    /\ UNCHANGED <<machine, child, file, there, tailer>>

\* read_to_end, on the file that was opened: the child may have appended since.
ReadAppended ==
    /\ At("read")
    /\ tailer' = [tailer EXCEPT
                     !.pending = @ \o SubSeq(file, tailer.offset + 1, Len(file)),
                     !.offset = Len(file)]
    /\ fetch' = [fetch EXCEPT !.len = 0, !.at = "drain"]
    /\ UNCHANGED <<machine, child, file, there>>

\* The line the halves up to a newline make.
Joined(halves) ==
    IF Len(halves) = 2 /\ ~halves[1].end /\ halves[1].line = halves[2].line
    THEN halves[2].line ELSE Junk

\* Mutant: a chunk found again is reported again.
ChunkEventEachTime(line, t) ==
    IF line = Junk THEN t
    ELSE IF line.outcome = "failed" THEN [t EXCEPT !.failed = @ \cup {line.chunk}]
    ELSE [t EXCEPT !.done = @ \cup {line.chunk},
                   !.failed = @ \ {line.chunk},
                   !.log = Append(@, [index   |-> line.chunk,
                                      chunks  |-> Len(t.log) + 1,
                                      retried |-> line.chunk \in t.failed])]

\* chunk_event: what a line does to the maps, and the event it sends, if any.
ChunkEvent(line, t) ==
    IF line = Junk THEN t
    ELSE IF line.outcome = "failed" THEN [t EXCEPT !.failed = @ \cup {line.chunk}]
    ELSE IF line.chunk \in t.done THEN t
    ELSE [t EXCEPT !.done = @ \cup {line.chunk},
                   !.failed = @ \ {line.chunk},
                   !.log = Append(@, [index   |-> line.chunk,
                                      chunks  |-> Cardinality(t.done) + 1,
                                      retried |-> line.chunk \in t.failed])]

Newlines == {k \in DOMAIN tailer.pending : tailer.pending[k].end}

\* One whole line leaves `pending`.
Drain ==
    /\ At("drain")
    /\ \E n \in Newlines :
          /\ \A k \in Newlines : n <= k
          /\ tailer' = ChunkEvent(Joined(SubSeq(tailer.pending, 1, n)),
                                  [tailer EXCEPT !.pending = SubSeq(@, n + 1, Len(@))])
    /\ UNCHANGED <<machine, fetch, child, file, there>>

\* Half a line waits for the next poll.
Drained ==
    /\ At("drain")
    /\ Newlines = {}
    /\ Goto(IF fetch.last THEN "return" ELSE "wait")
    /\ UNCHANGED <<machine, child, file, there, tailer>>

Exited == child \in {"exit_0", "exit_1"}

\* try_wait, and one more pass over the file once the child has exited.  An error
\* of it ends the fetch, whatever the child does.
Wait ==
    /\ At("wait")
    /\ \/ /\ Exited
          /\ fetch' = [fetch EXCEPT !.last = TRUE,
                                    !.at = IF Watched THEN "stat" ELSE "return"]
       \/ child = "running" /\ Watched /\ Goto("stat")
       \/ Goto("failed")
    /\ UNCHANGED <<machine, child, file, there, tailer>>

\* The child's exit status is the authority; its output file may be unreadable.
ReturnFromCli ==
    /\ At("return")
    /\ \/ child = "exit_0" /\ Goto("ok_cli")
       \/ Goto("failed")
    /\ UNCHANGED <<machine, child, file, there, tailer>>

Fetch ==
    \/ Begin \/ CheckBackend \/ StartAntd \/ InstallAnt \/ VerifyUri
    \/ FetchDirectly \/ GetData \/ OpenStream \/ ReadBody
    \/ Spawn \/ Stat \/ ReadAppended \/ Drain \/ Drained \/ Wait \/ ReturnFromCli

-----------------------------------------------------------------------------
(* The ant CLI and the machine                                             *)

Written == Len(file) \div 2

\* The lines that are whole.
Feed == [k \in 1 .. Written |-> file[2 * k].line]

\* Half a line at a time: the rest of one, or the start of another.
Write ==
    /\ child = "running"
    /\ there
    /\ IF Len(file) % 2 = 1
       THEN file' = Append(file, [line |-> file[Len(file)].line, end |-> TRUE])
       ELSE /\ Written < MaxLines
            /\ \E line \in Line : file' = Append(file, [line |-> line, end |-> FALSE])
    /\ UNCHANGED <<machine, fetch, child, there, tailer>>

FoundIn(lines) ==
    {c \in Chunks : \E k \in DOMAIN lines : lines[k] = [outcome |-> "found", chunk |-> c]}

\* It succeeds once every chunk was found.  When it fails, or is killed, it may
\* leave half a line, or take the file with it.
Exit ==
    /\ child = "running"
    /\ \/ /\ there => Len(file) % 2 = 0 /\ FoundIn(Feed) = Chunks
          /\ child' = "exit_0"
          /\ UNCHANGED there
       \/ /\ child' = "exit_1"
          /\ there' \in {there, FALSE}
    /\ UNCHANGED <<machine, fetch, file, tailer>>

\* The machine matters to a fetch until it has come to the child, or ended.
Choosing == fetch.at \in {"idle", "check", "ask_start", "ask_install", "verify", "data",
                          "stream", "body", "spawn"}

\* antd is started or stopped, and ant installed or removed, by somebody else.
Change ==
    /\ Choosing
    /\ changes > 0
    /\ changes' = changes - 1
    /\ \/ antd' = ~antd /\ UNCHANGED ant
       \/ ant' \in {"none", "path", "home"} \ {ant} /\ UNCHANGED antd
    /\ fetch' = [fetch EXCEPT !.held = @ /\ ant' \in {"path", "home"}]
    /\ UNCHANGED <<knows, child, file, there, tailer>>

\* POST /api/deps/ant/install from another tab: the installer runs unless ant
\* is there, and the server probes antd again.
InstallFromPage ==
    /\ Choosing
    /\ changes > 0
    /\ changes' = changes - 1
    /\ ~Available
    /\ ant' \in Landed
    /\ knows' = antd
    /\ UNCHANGED <<antd, fetch, child, file, there, tailer>>

Next == Fetch \/ Write \/ Exit \/ Change \/ InstallFromPage

Spec == Init /\ [][Next]_vars

-----------------------------------------------------------------------------
\* Types.
DownloadTypeOK ==
    /\ antd \in BOOLEAN /\ knows \in BOOLEAN /\ there \in BOOLEAN
    /\ ant \in AntAt
    /\ changes \in 0 .. MaxChanges
    /\ fetch \in FetchState
    /\ child \in {"none", "running", "exit_0", "exit_1"}
    /\ file \in Seq(Half)
    /\ tailer \in TailerState

\* What the feed says, whoever reads it: the lines where a chunk is found for
\* the first time, and whether an attempt at it had failed before.
FirstFound(lines) ==
    {k \in DOMAIN lines :
        /\ lines[k].outcome = "found"
        /\ \A j \in 1 .. k - 1 : lines[j] # lines[k]}

Expected(lines, k) ==
    [index   |-> lines[k].chunk,
     chunks  |-> Cardinality({j \in FirstFound(lines) : j <= k}),
     retried |-> \E j \in 1 .. k - 1 :
                    lines[j] = [outcome |-> "failed", chunk |-> lines[k].chunk]]

Reports(lines) == {Expected(lines, k) : k \in FirstFound(lines)}

(***************************************************************************)
(* "Emitted once per distinct chunk": however the writes of the child and  *)
(* the reads of the tailer fall, what the caller has been told is what the *)
(* whole lines of the file say up to some point, each chunk counted once,  *)
(* and a retry told as a retry.  And "one last pass": a watched fetch that *)
(* returns the bytes the ant CLI wrote has told of every chunk it found.   *)
(***************************************************************************)
ProgressIsTrue ==
    /\ \A n \in DOMAIN tailer.log :
          /\ tailer.log[n].chunks = n
          /\ tailer.log[n] \in Reports(Feed)
    /\ At("ok_cli") /\ Watched =>
          {tailer.log[n].index : n \in DOMAIN tailer.log} = FoundIn(Feed)

(***************************************************************************)
(* "Detection and use must agree": a fetch that was let through with a     *)
(* working ant CLI, which has been working ever since, does not end with   *)
(* ant not found.                                                          *)
(***************************************************************************)
DetectionAgrees == At("missing") => ~fetch.held

=============================================================================
