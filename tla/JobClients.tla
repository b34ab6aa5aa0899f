----------------------------- MODULE JobClients -----------------------------
(***************************************************************************)
(* The two clients that follow a job: followJob of the command line, which *)
(* prefers the event stream and falls back to polling, and the list of     *)
(* instances in the web client, which polls and streams at once.  Between  *)
(* the server's stream and a client lies the wire, read in chunks of any   *)
(* length.  Faults of Postgres and of the server happen at any time.       *)
(***************************************************************************)
EXTENDS JobStream, SseFrames

CONSTANTS Worlds,      \* the client there is (Reader), the line ends of its stream, and as bounds
                       \* the cuts of a frame, the list requests under way together, the faults
          MaxFaults    \* bound: stops of Postgres and crashes

ASSUME WorldsAssumption == \A w \in Worlds :
    /\ w.client \in Reader /\ w.client \in {"cli", "web"}
    /\ w.eol \in {<<LF>>, <<CR, LF>>} /\ (w.client = "web" => w.eol = <<LF>>)
    /\ w.cuts \subseteq Nat \ {0}

VARIABLES
    world,
    faults,
    wire,      \* what the server has sent and the client has not received
    buffer,    \* the parser's
    sent,      \* history: the frame last sent
    heard,     \* history: the frame last parsed of this connection
    follow,    \* the command line: where followJob is, its last snapshot, a copy under way
    screen,    \* the web client: the status shown, liveIdsKey, streamsRef, processedRef, toasts
    poll       \* the list requests

wireVars == <<wire, buffer, sent, heard>>
clientVars == <<wireVars, follow, screen, poll>>
everything == <<watchedVars, world, faults, clientVars>>

me == world.client
job == rjob[me]
Nothing == [event |-> "none", job |-> Absent]
NoPoll == [at |-> "free", status |-> "absent"]
Live(status) == status \in Active
AllPolls == UNION {w.polls : w \in Worlds}

ClientInit ==
    /\ StreamInit
    /\ world \in Worlds /\ faults = 0
    /\ wire = <<>> /\ buffer = <<>> /\ sent = Nothing /\ heard = Nothing
    /\ follow = [at |-> "connect", last |-> Absent, copy |-> Absent]
    /\ screen = [shown |-> "absent", key |-> FALSE, stream |-> FALSE, processed |-> FALSE,
                 toasts |-> 0, told |-> "none"]
    /\ poll = [p \in world.polls |-> NoPoll]

-----------------------------------------------------------------------------
(* The connection *)

Hangs == wire' = <<>> /\ buffer' = <<>> /\ sent' = Nothing /\ heard' = Nothing

(* A stream opens: live, from history with its only frame, or a 404. *)
OpenLive == ConnectLive(me) /\ Hangs
OpenHistory ==
    /\ ConnectHistory(me) /\ spc'[me] = "doneHistory"
    /\ wire' = Wire("done", frame'[me], world.eol)
    /\ sent' = [event |-> "done", job |-> frame'[me]]
    /\ UNCHANGED <<buffer, heard>>
NotFound == ConnectHistory(me) /\ spc'[me] = "off" /\ UNCHANGED wireVars

(* Mutant: the event is named after the payload was built. *)
ServerSendsNamedLate ==
    /\ wire = <<>> /\ CopyRest(me)
    /\ LET event == IF mem[job].status \in Terminal THEN "done" ELSE "job"
       IN  /\ wire' = Wire(event, frame'[me], world.eol)
           /\ sent' = [event |-> event, job |-> frame'[me]]
    /\ UNCHANGED <<buffer, heard, follow, screen, poll>>

(* The stream's generator yields a frame when the one before it was read. *)
ServerSends ==
    /\ wire = <<>> /\ CopyRest(me)
    /\ LET event == IF rterm[me] THEN "done" ELSE "job"
       IN  /\ wire' = Wire(event, frame'[me], world.eol)
           /\ sent' = [event |-> event, job |-> frame'[me]]
    /\ UNCHANGED <<buffer, heard, follow, screen, poll>>

ServerStreams ==
    /\ Notice(me) \/ ChooseType(me) \/ CopyStatus(me)
    /\ UNCHANGED clientVars

(* Bound: a frame arrives whole, or in two chunks. *)
Chunks == {n \in world.cuts : buffer = <<>> /\ n < Len(wire)} \cup ({Len(wire)} \ {0})
Chunk(n) == SubSeq(wire, 1, n)

(* A chunk of n characters arrives, and the parser cuts the buffer; there   *)
(* is one frame on the wire, so at most one is completed.                   *)
Receives(n, cut) ==
    /\ wire' = SubSeq(wire, n + 1, Len(wire))
    /\ buffer' = cut.rest
    /\ heard' = IF Frames(cut.raw) = <<>> THEN heard ELSE Frames(cut.raw)[1]
    /\ UNCHANGED sent

-----------------------------------------------------------------------------
(* followJob *)

Accepted == pc[job] \notin {Unborn, "persistQueued"}

CliGoes(place) == follow' = [follow EXCEPT !.at = place] /\ UNCHANGED <<screen, poll>>

(* The stream fails for any reason but a 404: polling. *)
CliConnects ==
    /\ me = "cli" /\ follow.at = "connect" /\ Accepted
    /\ \/ (OpenLive \/ OpenHistory) /\ CliGoes("sse")
       \/ NotFound /\ CliGoes("notFound")
       \/ CliGoes("poll") /\ UNCHANGED <<watchedVars, wireVars>>

(* A snapshot is yielded, and a terminal one ends the loop. *)
Yields(snapshot, next) ==
    [follow EXCEPT !.last = snapshot, !.copy = Absent,
                   !.at = IF snapshot.status \in Terminal THEN "returned" ELSE next]

CliReceives == \E n \in Chunks :
    /\ me = "cli" /\ follow.at = "sse"
    /\ \E cut \in CliBuffer(buffer, Chunk(n)) :
           /\ Receives(n, cut)
           /\ follow' = IF Frames(cut.raw) # <<>> /\ heard'.event \in {"job", "done"}
                        THEN Yields(heard'.job, "sse") ELSE follow
    /\ UNCHANGED <<watchedVars, screen, poll>>

(* The server has closed a stream whose last frame was not terminal, or the *)
(* connection was cut: what was on its way is lost.                         *)
CliStreamEnds ==
    /\ me = "cli" /\ follow.at = "sse"
    /\ spc[me] = "off" \/ (spc[me] \in {"done", "doneHistory"} /\ wire = <<>>)
    /\ Hangs /\ CliGoes("poll") /\ UNCHANGED watchedVars

(* Nothing came for 60 seconds. *)
Watchdog ==
    /\ me = "cli" /\ follow.at = "sse"
    /\ Disconnect(me)
    /\ Hangs /\ CliGoes("poll")

(* Mutant: the stored row is preferred to the live job. *)
CliPollsRow ==
    /\ me = "cli" /\ follow.at = "poll"
    /\ \/ server # "serving" /\ CliGoes("error") /\ UNCHANGED watchedVars
       \/ /\ server = "serving" /\ GetPool
          /\ IF pgUp /\ row[job] # Absent
             THEN follow' = Yields(row[job], "poll") /\ UNCHANGED <<screen, poll>>
             ELSE CliGoes("notFound")
          /\ UNCHANGED <<server, pgUp, swept, jobVars, streamVars>>
    /\ UNCHANGED wireVars

(* GET /instances/jobs/{id}: the live job, copied as in the stream, or its  *)
(* row, or a 404.                                                           *)
CliPolls ==
    /\ me = "cli" /\ follow.at = "poll"
    /\ \/ server # "serving" /\ CliGoes("error") /\ UNCHANGED watchedVars
       \/ /\ server = "serving" /\ InMemory(job)
          /\ follow' = [follow EXCEPT !.at = "copy", !.copy.status = mem[job].status]
          /\ UNCHANGED <<watchedVars, screen, poll>>
       \/ /\ server = "serving" /\ ~InMemory(job) /\ GetPool
          /\ IF pgUp /\ row[job] # Absent
             THEN follow' = Yields(row[job], "poll") /\ UNCHANGED <<screen, poll>>
             ELSE CliGoes("notFound")
          /\ UNCHANGED <<server, pgUp, swept, jobVars, streamVars>>
    /\ UNCHANGED wireVars

CliCopies ==
    /\ me = "cli" /\ follow.at = "copy"
    /\ IF InMemory(job)
       THEN /\ follow' = Yields([mem[job] EXCEPT !.status = follow.copy.status], "poll")
            /\ UNCHANGED <<screen, poll>>
       ELSE CliGoes("error")
    /\ UNCHANGED <<watchedVars, wireVars>>

CliStep == CliConnects \/ CliReceives \/ CliStreamEnds \/ CliPolls \/ CliCopies

-----------------------------------------------------------------------------
(* The list of instances *)

(* Mutant: the interval ends when the list has the job. *)
AsksUntilListed(p) == poll[p].at = "free" /\ server = "serving" /\ screen.shown = "absent"

Asks(p) == poll[p].at = "free" /\ server = "serving"

(* loadJobs, from its interval or after a done event: list_jobs copies the  *)
(* live jobs, then awaits the stored ones, over which the live ones win.    *)
Asked(p) ==
    [poll EXCEPT ![p] = [at |-> IF InMemory(job) THEN "answer" ELSE "rows", status |-> mem[job].status]]

WebPolls(p) ==
    /\ me = "web" /\ Asks(p)
    /\ poll' = Asked(p)
    /\ UNCHANGED <<watchedVars, wireVars, follow, screen>>

(* Without Postgres there are only the live jobs. *)
WebPollReadsRows(p) ==
    /\ poll[p].at = "rows" /\ server = "serving" /\ GetPool
    /\ poll' = [poll EXCEPT ![p] = [at |-> "answer", status |-> IF pgUp THEN row[job].status ELSE "absent"]]
    /\ UNCHANGED <<server, pgUp, swept, jobVars, streamVars, wireVars, follow, screen>>

(* setJobs(list), however old the answer; a request that failed changes     *)
(* nothing.                                                                 *)
WebPollAnswers(p) ==
    /\ poll[p].at = "answer"
    /\ screen' = [screen EXCEPT !.shown = poll[p].status]
    /\ poll' = [poll EXCEPT ![p] = NoPoll]
    /\ UNCHANGED <<watchedVars, wireVars, follow>>

WebPollFails(p) ==
    /\ poll[p].at # "free" /\ server # "serving"
    /\ poll' = [poll EXCEPT ![p] = NoPoll]
    /\ UNCHANGED <<watchedVars, wireVars, follow, screen>>

(* The effect on liveIdsKey: a stream for a live job that has none. *)
WebEffect ==
    /\ me = "web" /\ screen.key # Live(screen.shown)
    /\ LET keyed == [screen EXCEPT !.key = Live(screen.shown)]
       IN  IF Live(screen.shown) /\ ~screen.stream
           THEN \/ (OpenLive \/ OpenHistory) /\ screen' = [keyed EXCEPT !.stream = TRUE]
                \/ NotFound /\ screen' = keyed
                \/ screen' = keyed /\ UNCHANGED <<watchedVars, wireVars>>
           ELSE screen' = keyed /\ UNCHANGED <<watchedVars, wireVars>>
    /\ UNCHANGED <<follow, poll>>

(* The done event: the stream is forgotten, the outcome told once. *)
Done(s, status) ==
    IF s.processed THEN [s EXCEPT !.stream = FALSE]
    ELSE [s EXCEPT !.stream = FALSE, !.processed = TRUE, !.toasts = @ + 1,
                   !.told = IF status = "succeeded" THEN "succeeded" ELSE "failed"]

(* Each frame replaces the job in the list, if the list has it. *)
Shows(f) ==
    LET s == [screen EXCEPT !.shown = IF @ = "absent" THEN @ ELSE f.job.status]
    IN  IF f.event = "done" THEN Done(s, f.job.status) ELSE s

WebReceives == \E n \in Chunks :
    /\ me = "web" /\ screen.stream
    /\ \E cut \in WebBuffer(buffer, Chunk(n)) :
        LET told == Frames(cut.raw) # <<>> /\ heard'.event = "done" /\ ~screen.processed
            free == {p \in world.polls : Asks(p)}
        IN /\ Receives(n, cut)
           /\ screen' = IF Frames(cut.raw) = <<>> THEN screen ELSE Shows(heard')
           /\ IF told /\ free # {} THEN \E p \in free : poll' = Asked(p) ELSE UNCHANGED poll
    /\ UNCHANGED <<watchedVars, follow>>

(* The connection was cut: the stream is forgotten, the key is not. *)
WebStreamCut ==
    /\ me = "web" /\ screen.stream /\ spc[me] = "off"
    /\ Hangs
    /\ screen' = [screen EXCEPT !.stream = FALSE]
    /\ UNCHANGED <<watchedVars, follow, poll>>

(* After the done event the request is over. *)
WebStreamOver ==
    /\ me = "web" /\ ~screen.stream
    /\ Disconnect(me) /\ Hangs
    /\ UNCHANGED <<follow, screen, poll>>

PollStep(p) == WebPolls(p) \/ WebPollReadsRows(p) \/ WebPollAnswers(p) \/ WebPollFails(p)

WebStream == WebReceives \/ WebStreamCut \/ WebStreamOver

WebStep ==
    \/ WebEffect \/ WebStream
    \/ \E p \in world.polls : PollStep(p)

-----------------------------------------------------------------------------
Faults ==
    /\ faults < MaxFaults /\ faults' = faults + 1
    /\ \/ "crash" \in world.faults /\ CrashCutsStreams
       \/ "postgres" \in world.faults /\ PostgresStops /\ UNCHANGED streamVars
    /\ UNCHANGED clientVars

Server ==
    /\ \/ (PostgresStarts \/ LazyConnect \/ Boot) /\ UNCHANGED <<streamVars, clientVars>>
       \/ (\E j \in Job : JobStep(j)) /\ UNCHANGED <<streamVars, clientVars>>
       \/ ServerSends \/ ServerStreams
    /\ UNCHANGED faults

Client == (CliStep \/ Watchdog \/ WebStep) /\ UNCHANGED faults

ClientNext == (Faults \/ Server \/ Client) /\ UNCHANGED world

Still == UNCHANGED <<world, faults>>

(* Threads and the event loop run on, what was sent arrives unless the      *)
(* connection is cut, an awaited answer comes, the interval fires again.    *)
(* Nothing is assumed of the watchdog, of faults, and of a new boot.        *)
ClientSpec ==
    /\ ClientInit /\ [][ClientNext]_everything
    /\ \A j \in Job :
          WF_everything((PersistQueued(j) \/ Worker(j)) /\ UNCHANGED <<streamVars, clientVars>> /\ Still)
    /\ WF_everything((ServerSends \/ ServerStreams) /\ Still)
    /\ WF_everything((CliStep \/ WebStream) /\ Still)
    /\ WF_everything(WebEffect /\ Still)
    /\ \A p \in AllPolls : WF_everything(p \in world.polls /\ PollStep(p) /\ Still)

-----------------------------------------------------------------------------
(* Properties *)

(* However the stream is cut into chunks, when all of it has arrived the    *)
(* client has parsed the frame last sent and its buffer is empty.           *)
FramesArrive ==
    wire = <<>> /\ (follow.at = "sse" \/ screen.stream) => buffer = <<>> /\ heard = sent

(* What a client was told at the end is how the live job ended, whichever   *)
(* of stream, polls and row it came by: followJob's last snapshot is        *)
(* terminal and complete, a toast names the outcome.  A list request that   *)
(* was overtaken by the done event may show the job as running again and    *)
(* open a second stream; the outcome is told once.                          *)
OutcomeIsTold ==
    /\ follow.at = "returned" =>
          /\ follow.last.status \in Terminal
          /\ InMemory(job) => follow.last.status = mem[job].status
          /\ follow.last.status = "succeeded" => follow.last.result
    /\ screen.told # "none" /\ InMemory(job) => screen.told = mem[job].status
    /\ screen.toasts <= 1

(* Over stream, watchdog and polls the progress of a live job that the      *)
(* command line prints never goes back.                                     *)
ProgressOnlyGrows ==
    [][InMemory(job)' => Rank(follow.last.status) <= Rank(follow'.last.status)]_everything

(* followJob ends, without its watchdog, unless the job's row says for ever *)
(* that it is running: left by a dead process, and not swept.               *)
StuckRow == ~InMemory(job) /\ row[job].status \in Active

FollowEnds ==
    me = "cli" /\ <>Accepted
        => <>(follow.at \in {"returned", "notFound", "error"}) \/ <>[]StuckRow

(* Once a job is over and the server stays up, the list shows it as over,   *)
(* for good, whatever answers were late and whichever streams were cut.     *)
Over == IF InMemory(job) THEN mem[job].status \in Terminal ELSE pgUp /\ row[job].status \in Terminal

ScreenSettles ==
    me = "web" /\ <>[](server = "serving" /\ Over) => <>[](screen.shown \in Terminal)
=============================================================================
