--------------------------- MODULE SessionManager ---------------------------
(***************************************************************************)
(* The sessions of the user interface (backend/sessions.rs) and the stream *)
(* page (pages/stream/state.rs) that starts and stops them: the UI thread, *)
(* a thread per attempt to connect, and per session the core (module       *)
(* Session), the media thread and the thread that stops it.                *)
(*                                                                         *)
(* Attempt number i makes session number i.  The core is abstracted to     *)
(* what it promises: it ends by itself or after stop(), and its last event *)
(* is one Quit.  The hole punching of a remote connection (module          *)
(* Holepunch) ends, with a hole or without.  Of the settings only their    *)
(* lock is kept, which an attempt holds across the hole punching.          *)
(***************************************************************************)
EXTENDS Naturals, Sequences

CONSTANTS Attempts,  \* bound: how many attempts to connect are made
          Remote     \* SUBSET of the attempts: those over PSN

Seqs == INSTANCE SequencesExt

Ids == 1 .. Attempts
NoId == 0

VARIABLES
  page,      \* the stream page: "none", "new", "started" (its attempt was made), "failed"
  home,      \* BOOLEAN: a task that navigates home is waiting
  attempts,  \* how many attempts were started
  conn,      \* conn[i]: the place of the connecting thread of attempt i
  lock,      \* who holds the settings
  current,   \* SessionManager: current, pending_holepunch
  pending,
  shared,    \* shared[i]: SessionShared: core, stop, media (the channel is open), done
  stopper,   \* stopper[i]: the place of the thread that stops session i
  media,     \* media[i]: the media thread of session i
  queue      \* the Quit events for the UI: [id, by]
vars == <<page, home, attempts, conn, lock, current, pending, shared, stopper, media, queue>>
ui == <<page, home, attempts>>

TypeOK ==
  /\ page \in {"none", "new", "started", "failed"} /\ home \in BOOLEAN
  /\ attempts \in 0 .. Attempts
  /\ conn \in [Ids -> {"none", "begin", "wake", "settings", "punch", "build", "new",
                       "spawn", "publish", "failed", "over"}]
  /\ lock \in Ids \cup {NoId} /\ current \in Ids \cup {NoId} /\ pending \in Ids \cup {NoId}
  /\ shared \in [Ids -> [core : {"none", "running", "stopping", "over"},
                         stop : BOOLEAN, media : BOOLEAN, done : BOOLEAN]]
  /\ stopper \in [Ids -> {"none", "poll", "join", "close", "quit", "flag", "over"}]
  /\ media \in [Ids -> {"none", "running", "over"}]
  /\ queue \in Seq([id : Ids \cup {NoId}, by : {"core", "manager", "connect"}])

Init ==
  /\ page = "none" /\ home = FALSE /\ attempts = 0
  /\ conn = [i \in Ids |-> "none"]
  /\ lock = NoId /\ current = NoId /\ pending = NoId
  /\ shared = [i \in Ids |-> [core |-> "none", stop |-> FALSE, media |-> TRUE, done |-> FALSE]]
  /\ stopper = [i \in Ids |-> "none"] /\ media = [i \in Ids |-> "none"]
  /\ queue = <<>>

\* stop_current: the punching is canceled, the session asked to stop.
StopCurrent ==
  /\ pending' = NoId /\ current' = NoId
  /\ shared' = IF current = NoId THEN shared ELSE [shared EXCEPT ![current].stop = TRUE]

ConnGoes(i, from, to) == conn[i] = from /\ conn' = [conn EXCEPT ![i] = to]
Sends(id, by) == queue' = Append(queue, [id |-> id, by |-> by])
-----------------------------------------------------------------------------
(* SessionManager::connect, on a thread of its own *)

Begin(i) ==
  /\ ConnGoes(i, "begin", "wake") /\ StopCurrent
  /\ UNCHANGED <<ui, lock, stopper, media, queue>>

\* wake_before_session: up to 25 s, nobody can end it earlier.
Woken(i) ==
  /\ ConnGoes(i, "wake", "settings")
  /\ UNCHANGED <<ui, lock, current, pending, shared, stopper, media, queue>>

TakeSettings(i) ==
  /\ lock = NoId /\ lock' = i
  /\ \/ /\ i \in Remote
        /\ \/ ConnGoes(i, "settings", "punch") /\ pending' = i
           \/ ConnGoes(i, "settings", "failed") /\ UNCHANGED pending
     \/ i \notin Remote /\ ConnGoes(i, "settings", "build") /\ UNCHANGED pending
  /\ UNCHANGED <<ui, current, shared, stopper, media, queue>>

\* psn_connect_phase ends; a cancel that comes late does not fail it.
Punched(i) ==
  /\ ConnGoes(i, "punch", "build") \/ ConnGoes(i, "punch", "failed")
  /\ pending' = NoId
  /\ UNCHANGED <<ui, lock, current, shared, stopper, media, queue>>

\* build_connect_info, the GPU sink and the camera; the settings are let go.
Build(i) ==
  /\ \/ ConnGoes(i, "build", "new") /\ lock' = NoId
     \/ ConnGoes(i, "build", "failed") /\ UNCHANGED lock
  /\ UNCHANGED <<ui, current, pending, shared, stopper, media, queue>>

\* Session::new and start.
NewSession(i) ==
  /\ \/ ConnGoes(i, "new", "spawn") /\ shared' = [shared EXCEPT ![i].core = "running"]
     \/ ConnGoes(i, "new", "failed") /\ UNCHANGED shared
  /\ UNCHANGED <<ui, lock, current, pending, stopper, media, queue>>

SpawnThreads(i) ==
  /\ ConnGoes(i, "spawn", "publish")
  /\ media' = [media EXCEPT ![i] = "running"] /\ stopper' = [stopper EXCEPT ![i] = "poll"]
  /\ UNCHANGED <<ui, lock, current, pending, shared, queue>>

Publish(i) ==
  /\ ConnGoes(i, "publish", "over")
  /\ current' = i
  /\ UNCHANGED <<ui, lock, pending, shared, stopper, media, queue>>

\* An error lets go of the settings and is told as the Quit of session 0.
Failed(i) ==
  /\ ConnGoes(i, "failed", "over")
  /\ lock' = IF lock = i THEN NoId ELSE lock
  /\ Sends(NoId, "connect")
  /\ UNCHANGED <<ui, current, pending, shared, stopper, media>>

Connect(i) == \/ Begin(i) \/ Woken(i) \/ TakeSettings(i) \/ Punched(i) \/ Build(i)
              \/ NewSession(i) \/ SpawnThreads(i) \/ Publish(i) \/ Failed(i)
-----------------------------------------------------------------------------
(* The core, the thread that stops it, and the media thread *)

\* The session thread sends its Quit as the last thing it does.
CoreEnds(i) ==
  /\ shared[i].core \in {"running", "stopping"}
  /\ shared' = [shared EXCEPT ![i].core = "over"]
  /\ Sends(i, "core")
  /\ UNCHANGED <<ui, conn, lock, current, pending, stopper, media>>

StopperGoes(i, from, to) == stopper[i] = from /\ stopper' = [stopper EXCEPT ![i] = to]

\* Looks every 50 ms; stop() asks the core.
SeeStop(i) ==
  /\ shared[i].stop /\ StopperGoes(i, "poll", "join")
  /\ shared' = IF shared[i].core = "running" THEN [shared EXCEPT ![i].core = "stopping"]
               ELSE shared
  /\ UNCHANGED <<ui, conn, lock, current, pending, media, queue>>

\* A plausible bug: the session is not joined.
JoinNothing(i) ==
  /\ StopperGoes(i, "join", "close")
  /\ UNCHANGED <<ui, conn, lock, current, pending, shared, media, queue>>

JoinCore(i) ==
  /\ shared[i].core = "over" /\ StopperGoes(i, "join", "close")
  /\ UNCHANGED <<ui, conn, lock, current, pending, shared, media, queue>>

\* A plausible bug: the sender for the media thread is kept.
KeepMedia(i) ==
  /\ StopperGoes(i, "close", "quit")
  /\ UNCHANGED <<ui, conn, lock, current, pending, shared, media, queue>>

CloseMedia(i) ==
  /\ StopperGoes(i, "close", "quit")
  /\ shared' = [shared EXCEPT ![i].media = FALSE]
  /\ UNCHANGED <<ui, conn, lock, current, pending, media, queue>>

\* The GPU sink is dropped, then the end is told.
TellEnd(i) ==
  /\ StopperGoes(i, "quit", "flag") /\ Sends(i, "manager")
  /\ UNCHANGED <<ui, conn, lock, current, pending, shared, media>>

SetDone(i) ==
  /\ StopperGoes(i, "flag", "over")
  /\ shared' = [shared EXCEPT ![i].done = TRUE]
  /\ UNCHANGED <<ui, conn, lock, current, pending, media, queue>>

Stopper(i) == SeeStop(i) \/ JoinCore(i) \/ CloseMedia(i) \/ TellEnd(i) \/ SetDone(i)

\* media::run returns when the channel is closed.
MediaEnds(i) ==
  /\ media[i] = "running" /\ ~shared[i].media
  /\ media' = [media EXCEPT ![i] = "over"]
  /\ UNCHANGED <<ui, conn, lock, current, pending, shared, stopper, queue>>
-----------------------------------------------------------------------------
(* The UI thread *)

OpenPage ==
  /\ page = "none" /\ attempts < Attempts /\ page' = "new"
  /\ UNCHANGED <<home, attempts, conn, lock, current, pending, shared, stopper, media, queue>>

\* tick_real starts one attempt per page, unless an error is shown.
Tick ==
  /\ page = "new" /\ page' = "started"
  /\ attempts' = attempts + 1 /\ conn' = [conn EXCEPT ![attempts + 1] = "begin"]
  /\ UNCHANGED <<home, lock, current, pending, shared, stopper, media, queue>>

\* Quit: the settings are asked for the disconnect action, then the session is
\* stopped, whosever Quit it is. Without a page it is only shown.
HandleQuit ==
  /\ queue # <<>> /\ queue' = Tail(queue)
  /\ \/ /\ page # "none" /\ lock = NoId
        /\ StopCurrent /\ home' = TRUE
        /\ \/ Head(queue).by # "manager" /\ page' = "failed"
           \/ Head(queue).by # "connect" /\ UNCHANGED page
     \/ page = "none" /\ UNCHANGED <<page, home, shared, current, pending>>
  /\ UNCHANGED <<attempts, conn, lock, stopper, media>>

\* navigate: away from the page, which stops its session.
LeavePage ==
  /\ page # "none" /\ page' = "none" /\ StopCurrent
  /\ UNCHANGED <<home, attempts, conn, lock, stopper, media, queue>>

\* disconnect_now, from the dialog: the page stays until the Quit comes.
Disconnect ==
  /\ page # "none" /\ StopCurrent
  /\ UNCHANGED <<ui, conn, lock, stopper, media, queue>>

\* The task of HandleQuit navigates.
GoHome ==
  /\ home /\ home' = FALSE
  /\ \/ page # "none" /\ page' = "none" /\ StopCurrent
     \/ page = "none" /\ UNCHANGED <<page, shared, current, pending>>
  /\ UNCHANGED <<attempts, conn, lock, stopper, media, queue>>

Next == \/ OpenPage \/ Tick \/ HandleQuit \/ LeavePage \/ Disconnect \/ GoHome
        \/ \E i \in Ids : Connect(i) \/ CoreEnds(i) \/ Stopper(i) \/ MediaEnds(i)

\* Every thread goes on; a core that was asked to stop ends (module Session).
Spec == Init /\ [][Next]_vars
        /\ WF_vars(HandleQuit) /\ WF_vars(GoHome)
        /\ \A i \in Ids :
             /\ WF_vars(Connect(i)) /\ WF_vars(Stopper(i))
             /\ WF_vars(shared[i].core = "stopping" /\ CoreEnds(i)) /\ WF_vars(MediaEnds(i))
-----------------------------------------------------------------------------
Told(id, by) == [id |-> id, by |-> by] \in Seqs!ToSet(queue)

\* wait_stopped lets the process end at stop_done: from then on the core of this
\* session does not run, and no Quit of it reaches the UI any more.
NothingAfterDone ==
  [][\A i \in Ids : shared[i].done =>
       /\ shared'[i].core = "over"
       /\ \A by \in {"core", "manager"} : Told(i, by)' => Told(i, by)]_vars

\* Whatever happens to the pages and the other sessions, a session that was asked to
\* stop ends with all of its threads, and every Quit is handled, also when the UI
\* thread has to wait for the settings that a connecting thread holds.
StopCompletes ==
  /\ \A i \in Ids : shared[i].stop ~> shared[i].done /\ media[i] = "over"
  /\ []<>(queue = <<>>)

Active(i) == shared[i].core = "running" /\ ~shared[i].stop

\* sessions.rs:808 says of the manager: at most one active session.
AtMostOneActive == \A i, j \in Ids : Active(i) /\ Active(j) => i = j
=============================================================================
