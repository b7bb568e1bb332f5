------------------------------ MODULE Cluster -------------------------------
(* Hybrid mode: the control plane exports the database, keeps the result as   *)
(* its current payload and broadcasts it; one task per WebSocket connection   *)
(* registers a data plane, sends it the current payload and forwards the      *)
(* broadcasts; a data plane applies what it receives, keeps it in a disk      *)
(* cache, reports its hash in pings and reconnects for ever.                  *)
(*                                                                            *)
(* A configuration is the sequence of its tables in the order of the export,  *)
(* a table one of Contents or Truncated.  The hash of a configuration covers  *)
(* all of it (calculate_config_hash) and is the configuration itself here;    *)
(* None is EMPTY_CONFIG_HASH and "no configuration".  The control plane only  *)
(* builds tables load_from_json accepts, so loading never fails.              *)
EXTENDS Naturals, FiniteSets, Sequences, SequencesExt

CONSTANTS
  DataPlanes,       \* node identifiers
  NumTables,        \* tables of a configuration
  SilentTables,     \* tables whose handlers send no refresh signal (consumers)
  Contents,         \* what a table may hold
  Initial,          \* what each holds when the model starts
  Truncated,        \* what is exported of a table when a page cannot be read
  None,
  Corrupt,          \* a cache file that is not JSON
  BasicInfo,        \* the first message of a data plane
  ChannelCapacity,  \* of the broadcast channel (16)
  MaxChanges,       \* bound: writes of the Admin API
  MaxConnections,   \* bound: connections ever made
  MaxFaults         \* bound: restarts of the control plane, unread pages, failed saves

Tables == 1..NumTables
Connections == 1..MaxConnections

Config == [Tables -> Contents \cup {Truncated}]
Hash == Config \cup {None}

ASSUME ClusterAssumption ==
  /\ NumTables \in Nat \ {0}
  /\ SilentTables \subseteq Tables
  /\ Initial \in Contents /\ Truncated \notin Contents
  /\ None \notin Config /\ Corrupt \notin Hash
  /\ ChannelCapacity \in Nat \ {0}
  /\ MaxConnections \in Nat \ {0} /\ {MaxChanges, MaxFaults} \subseteq Nat

VARIABLES
  db,       \* the tables in the database
  signal,   \* refresh_tx holds a signal
  job,      \* run_cache_refresher and the push it is in
  cp,       \* ControlPlane: current_hash, current_payload, the broadcast channel
  peers,    \* ControlPlane.data_planes
  conn,     \* the connections, with both ends' queues
  dp,       \* the data plane processes and their disks
  budget    \* what is left of the bounds on changes and faults

vars == <<db, signal, job, cp, peers, conn, dp, budget>>

Idle == [pc |-> "idle", export |-> <<>>, clean |-> FALSE]
NewControlPlane == [hash |-> None, payload |-> None, log |-> <<>>]
Unregistered == [d \in DataPlanes |-> None]

Unused == [node |-> None, phase |-> "unused", open |-> FALSE, rx |-> 0,
           down |-> <<>>, up |-> <<>>]

\* A data plane that does not run, and what its disk holds.
Stopped(file, everSaved) ==
  [phase |-> "down", link |-> 0, hash |-> None, store |-> None, disk |-> file, saved |-> everSaved]

Init ==
  /\ db = [t \in Tables |-> Initial]
  /\ signal = FALSE
  /\ job = Idle
  /\ cp = NewControlPlane
  /\ peers = Unregistered
  /\ conn = [k \in Connections |-> Unused]
  /\ dp = [d \in DataPlanes |-> Stopped(None, FALSE)]
  /\ budget = [changes |-> MaxChanges, faults |-> MaxFaults]

\* Connections are used in their order; faults come only while one is left.
Spare == conn[MaxConnections].phase = "unused"
Used == {k \in Connections : conn[k].phase # "unused"}

\* One more of the faults the model allows.
Fault == budget.faults > 0 /\ budget' = [budget EXCEPT !.faults = @ - 1]

-----------------------------------------------------------------------------
(* The control plane: Admin API, refresher, push.                             *)

\* The refresh signal a handler sends after its write.
Notify(t) == t \notin SilentTables

\* A handler of the Admin API writes one table, then signals the refresher.
AdminChange(t, c) ==
  /\ budget.changes > 0
  /\ db' = [db EXCEPT ![t] = c]
  /\ signal' = (signal \/ Notify(t))
  /\ budget' = [budget EXCEPT !.changes = @ - 1]
  /\ UNCHANGED <<job, cp, peers, conn, dp>>

\* The refresher takes every signal of the debounce window and starts an export.
Collect ==
  /\ job.pc = "idle"
  /\ signal
  /\ signal' = FALSE
  /\ job' = [pc |-> "export", export |-> <<>>, clean |-> TRUE]
  /\ UNCHANGED <<db, cp, peers, conn, dp, budget>>

\* fetch_all! of the next table; an error ends the table, not the export.
ExportTable ==
  /\ job.pc = "export"
  /\ Len(job.export) < NumTables
  /\ \/ /\ job' = [job EXCEPT !.export = Append(@, db[Len(@) + 1])]
        /\ UNCHANGED budget
     \/ /\ Fault
        /\ job' = [job EXCEPT !.export = Append(@, Truncated), !.clean = FALSE]
  /\ UNCHANGED <<db, signal, cp, peers, conn, dp>>

\* push_config takes one lock after the other: the hash ...
WriteHash ==
  /\ job.pc = "export"
  /\ Len(job.export) = NumTables
  /\ cp' = [cp EXCEPT !.hash = job.export]
  /\ job' = [job EXCEPT !.pc = "payload"]
  /\ UNCHANGED <<db, signal, peers, conn, dp, budget>>

\* ... the payload ...
WritePayload ==
  /\ job.pc = "payload"
  /\ cp' = [cp EXCEPT !.payload = job.export]
  /\ job' = [job EXCEPT !.pc = "send"]
  /\ UNCHANGED <<db, signal, peers, conn, dp, budget>>

\* Mutant: nobody is listed, so nothing is sent.
Broadcast_IfListed ==
  /\ job.pc = "send"
  /\ cp' = IF peers = Unregistered THEN cp ELSE [cp EXCEPT !.log = Append(@, job.export)]
  /\ job' = [job EXCEPT !.pc = "idle", !.export = <<>>]
  /\ UNCHANGED <<db, signal, peers, conn, dp, budget>>

\* Mutant: the signals are drained after the push.
Broadcast_Drains ==
  /\ job.pc = "send"
  /\ cp' = [cp EXCEPT !.log = Append(@, job.export)]
  /\ job' = [job EXCEPT !.pc = "idle", !.export = <<>>]
  /\ signal' = FALSE
  /\ UNCHANGED <<db, peers, conn, dp, budget>>

\* ... and the version and the broadcast to whoever is subscribed.
Broadcast ==
  /\ job.pc = "send"
  /\ cp' = [cp EXCEPT !.log = Append(@, job.export)]
  /\ job' = [job EXCEPT !.pc = "idle", !.export = <<>>]
  /\ UNCHANGED <<db, signal, peers, conn, dp, budget>>

-----------------------------------------------------------------------------
(* The control plane: one handle_dp_connection task per connection.           *)

HandlerLive(k) == conn[k].phase \in {"hello", "current", "loop"}

\* unregister_dp and the end of the task, which drops the socket.
EndHandler(k) ==
  /\ conn' = [conn EXCEPT ![k].phase = "done", ![k].open = FALSE, ![k].up = <<>>, ![k].rx = 0]
  /\ peers' = [peers EXCEPT ![conn[k].node] = None]

\* Mutant: a failed send returns without unregister_dp.
SendDown_Returns(k, c, handler) ==
  \/ /\ conn[k].open
     /\ conn' = [conn EXCEPT ![k] = [handler EXCEPT !.down = Append(@, c)]]
     /\ UNCHANGED peers
  \/ /\ ~conn[k].open
     /\ conn' = [conn EXCEPT ![k].phase = "done", ![k].up = <<>>]
     /\ UNCHANGED peers

\* A send fails only when the connection is gone, and not always then: what is
\* written before the loss is noticed goes nowhere.
SendDown(k, c, handler) ==
  \/ /\ conn[k].open
     /\ conn' = [conn EXCEPT ![k] = [handler EXCEPT !.down = Append(@, c)]]
     /\ UNCHANGED peers
  \/ /\ ~conn[k].open
     /\ conn' = [conn EXCEPT ![k] = handler]
     /\ UNCHANGED peers
  \/ /\ ~conn[k].open
     /\ EndHandler(k)

\* The position a new receiver of the broadcast channel starts from.
Subscribed == Len(cp.log)

\* register_dp: the entry, then the subscription.
Register(k) ==
  /\ conn[k].phase = "upgraded"
  /\ conn' = [conn EXCEPT ![k].phase = "hello", ![k].rx = Subscribed]
  /\ peers' = [peers EXCEPT ![conn[k].node] =
                 [hash |-> None, status |-> "unknown"]]
  /\ UNCHANGED <<db, signal, job, cp, dp, budget>>

\* The first message, or the end of the stream, ends the wait for basic_info.
Hello(k) ==
  /\ conn[k].phase = "hello"
  /\ \/ conn[k].up # <<>> /\ conn' = [conn EXCEPT ![k].phase = "current", ![k].up = Tail(@)]
     \/ conn[k].up = <<>> /\ ~conn[k].open /\ conn' = [conn EXCEPT ![k].phase = "current"]
  /\ UNCHANGED <<db, signal, job, cp, peers, dp, budget>>

\* The current payload, if there is one, goes to the new data plane.
SendCurrent(k) ==
  /\ conn[k].phase = "current"
  /\ \/ /\ cp.payload = None
        /\ conn' = [conn EXCEPT ![k].phase = "loop"]
        /\ UNCHANGED peers
     \/ /\ cp.payload # None
        /\ SendDown(k, cp.payload, [conn[k] EXCEPT !.phase = "loop"])
  /\ UNCHANGED <<db, signal, job, cp, dp, budget>>

\* update_dp_status: nothing for a data plane that is not registered.
Reported(entry, h) ==
  IF entry = None THEN None
  ELSE [hash |-> h, status |-> IF h = cp.hash THEN "normal" ELSE "unknown"]

\* A ping: the status, then a pong, whose failure ends the loop.
RecvPing(k) ==
  /\ conn[k].phase = "loop"
  /\ conn[k].up # <<>>
  /\ LET d == conn[k].node IN
     \/ /\ peers' = [peers EXCEPT ![d] = Reported(@, Head(conn[k].up))]
        /\ conn' = [conn EXCEPT ![k].up = Tail(@)]
     \/ /\ ~conn[k].open
        /\ EndHandler(k)
  /\ UNCHANGED <<db, signal, job, cp, dp, budget>>

\* The receiver has fallen behind what the channel still holds.
Lagging(k) == Len(cp.log) - conn[k].rx > ChannelCapacity

\* The next broadcast is forwarded.
RecvConfig(k) ==
  /\ conn[k].phase = "loop"
  /\ conn[k].rx < Len(cp.log)
  /\ ~Lagging(k)
  /\ SendDown(k, cp.log[conn[k].rx + 1], [conn[k] EXCEPT !.rx = @ + 1])
  /\ UNCHANGED <<db, signal, job, cp, dp, budget>>

\* A lagged receiver ends the loop: the data plane has to reconnect.
Lagged(k) ==
  /\ conn[k].phase = "loop"
  /\ Lagging(k)
  /\ EndHandler(k)
  /\ UNCHANGED <<db, signal, job, cp, dp, budget>>

\* The end of the stream is noticed, perhaps long after the loss.
NoticeClosed(k) ==
  /\ conn[k].phase = "loop"
  /\ ~conn[k].open
  /\ EndHandler(k)
  /\ UNCHANGED <<db, signal, job, cp, dp, budget>>

\* purge_stale_dps: last_seen is left out, since 60 s may pass before the next ping
\* of any data plane is taken.
Purge(d) ==
  /\ peers[d] # None
  /\ peers' = [peers EXCEPT ![d] = None]
  /\ UNCHANGED <<db, signal, job, cp, conn, dp, budget>>

\* The control plane process restarts: nothing of it but the database survives.
RestartControlPlane ==
  /\ Fault
  /\ Spare
  /\ signal' = FALSE
  /\ job' = Idle
  /\ cp' = NewControlPlane
  /\ peers' = Unregistered
  /\ conn' = [k \in Connections |->
                IF k \in Used
                THEN [conn[k] EXCEPT !.phase = "done", !.open = FALSE, !.up = <<>>, !.rx = 0]
                ELSE conn[k]]
  /\ UNCHANGED <<db, dp>>

-----------------------------------------------------------------------------
(* The data plane: DpBgService::start.                                        *)

\* The connection goes from the data plane's side; the control plane is not told.
Drop(k) == IF k = 0 THEN conn ELSE [conn EXCEPT ![k].open = FALSE, ![k].down = <<>>]

\* Mutant: the file is written in place.
CrashedSave_InPlace(old, new) == {old, new, Corrupt}

\* What the cache file can be after a crash in the middle of a save: a temporary
\* file is written and renamed.
CrashedSave(old, new) == {old, new}

\* DiskCache::load: a corrupt file is deleted and counts as no cache.
LoadCache(disk) == IF disk = Corrupt THEN None ELSE disk

\* A process starts with what its cache holds.
Boot(d) ==
  /\ dp[d].phase = "down"
  /\ LET cached == LoadCache(dp[d].disk) IN
     dp' = [dp EXCEPT ![d] = [@ EXCEPT !.phase = "idle", !.disk = cached,
                                       !.hash = cached, !.store = cached]]
  /\ UNCHANGED <<db, signal, job, cp, peers, conn, budget>>

\* A connection attempt succeeds and basic_info is sent.
Connect(d) ==
  /\ dp[d].phase = "idle"
  /\ Spare
  /\ \E k \in Connections \ Used :
     /\ 1..(k - 1) \subseteq Used
     /\ conn' = [conn EXCEPT ![k] = [@ EXCEPT !.node = d, !.phase = "upgraded", !.open = TRUE,
                                               !.up = <<BasicInfo>>]]
     /\ dp' = [dp EXCEPT ![d].phase = "linked", ![d].link = k]
  /\ UNCHANGED <<db, signal, job, cp, peers, budget>>

Linked(d) == dp[d].phase = "linked" /\ conn[dp[d].link].open

\* The configuration the data plane is about to read.
Incoming(d) ==
  IF dp[d].phase = "linked" /\ conn[dp[d].link].down # <<>>
  THEN Head(conn[dp[d].link].down) ELSE None

\* mark_config_applied, load_from_json: the hash, the cache and the store.
Applied(process, c) ==
  [process EXCEPT !.hash = c, !.store = c, !.disk = c, !.saved = TRUE]

\* Mutant: what cannot be saved is not loaded.
AppliedUnsaved_NotLoaded(process, c) == [process EXCEPT !.hash = c]

\* mark_config_applied goes on when the cache cannot be saved.
AppliedUnsaved(process, c) == [process EXCEPT !.hash = c, !.store = c]

\* A payload with the hash in force is skipped.
Skip(d) ==
  /\ Incoming(d) # None
  /\ Incoming(d) = dp[d].hash
  /\ conn' = [conn EXCEPT ![dp[d].link].down = Tail(@)]
  /\ UNCHANGED <<db, signal, job, cp, peers, dp, budget>>

\* Any other payload is applied and answered by a ping with its hash.
Apply(d) ==
  /\ Incoming(d) \notin {None, dp[d].hash}
  /\ \/ dp' = [dp EXCEPT ![d] = Applied(@, Incoming(d))] /\ UNCHANGED budget
     \/ dp' = [dp EXCEPT ![d] = AppliedUnsaved(@, Incoming(d))] /\ Fault
  /\ conn' = [conn EXCEPT
       ![dp[d].link].down = Tail(@),
       ![dp[d].link].up = IF conn[dp[d].link].open THEN Append(@, Incoming(d)) ELSE @]
  /\ UNCHANGED <<db, signal, job, cp, peers>>

\* Mutant: only what is applied is pinged.
Ping_WhenApplied(d) == FALSE

\* The ping every 30 s (bound: only once the earlier messages were taken).
Ping(d) ==
  /\ Linked(d)
  /\ conn[dp[d].link].up = <<>>
  /\ conn' = [conn EXCEPT ![dp[d].link].up = <<dp[d].hash>>]
  /\ UNCHANGED <<db, signal, job, cp, peers, dp, budget>>

\* The data plane learns that the connection is gone and will reconnect.
Disconnect(d) ==
  /\ dp[d].phase = "linked"
  /\ ~conn[dp[d].link].open
  /\ conn' = Drop(dp[d].link)
  /\ dp' = [dp EXCEPT ![d].phase = "idle", ![d].link = 0]
  /\ UNCHANGED <<db, signal, job, cp, peers, budget>>

\* The connection is lost, perhaps with what was on its way up.
Cut(d) ==
  /\ Linked(d)
  /\ Spare
  /\ \E arrived \in {conn[dp[d].link].up, <<>>} :
       conn' = [conn EXCEPT ![dp[d].link].open = FALSE, ![dp[d].link].up = arrived]
  /\ UNCHANGED <<db, signal, job, cp, peers, dp, budget>>

\* The process dies, perhaps while it saves what it is applying.
Crash(d) ==
  /\ dp[d].phase # "down"
  /\ Spare
  /\ \E file \in IF Incoming(d) \in {None, dp[d].hash} THEN {dp[d].disk}
                 ELSE CrashedSave(dp[d].disk, Incoming(d)) :
       dp' = [dp EXCEPT ![d] = Stopped(file, @.saved \/ file # @.disk)]
  /\ conn' = Drop(dp[d].link)
  /\ UNCHANGED <<db, signal, job, cp, peers, budget>>

-----------------------------------------------------------------------------
Refresher == Collect \/ ExportTable \/ WriteHash \/ WritePayload \/ Broadcast

Handler(k) ==
  \/ Register(k)
  \/ Hello(k)
  \/ SendCurrent(k)
  \/ RecvPing(k)
  \/ RecvConfig(k)
  \/ Lagged(k)
  \/ NoticeClosed(k)

Next ==
  \/ \E t \in Tables, c \in Contents : AdminChange(t, c)
  \/ Collect
  \/ ExportTable
  \/ WriteHash
  \/ WritePayload
  \/ Broadcast
  \/ \E k \in Connections : Handler(k)
  \/ RestartControlPlane
  \/ \E d \in DataPlanes :
       Purge(d) \/ Boot(d) \/ Connect(d) \/ Skip(d) \/ Apply(d) \/ Ping(d) \/ Disconnect(d) \/ Cut(d) \/ Crash(d)

Spec == Init /\ [][Next]_vars

\* The tasks of the control plane that a message or a signal wakes run, and select!
\* starves no branch; nothing promises that the loss of a connection is noticed.
ControlPlaneFairness ==
  /\ WF_vars(Refresher)
  /\ \A k \in Connections :
       /\ WF_vars(Register(k) \/ Hello(k) \/ SendCurrent(k))
       /\ WF_vars(RecvPing(k))
       /\ WF_vars(RecvConfig(k) \/ Lagged(k))

\* A data plane that is down is started again, reconnects after its delay, reads
\* what arrived, pings on its timer and notices, by a failing ping at the latest,
\* that its connection is gone.
DataPlaneFairness ==
  \A d \in DataPlanes :
    WF_vars(Boot(d)) /\ WF_vars(Connect(d)) /\ WF_vars(Skip(d) \/ Apply(d))
      /\ WF_vars(Ping(d)) /\ WF_vars(Disconnect(d))

FairSpec == Spec /\ ControlPlaneFairness /\ DataPlaneFairness

-----------------------------------------------------------------------------
(* Properties.                                                                *)

Connection ==
  [node : DataPlanes \cup {None}, phase : {"unused", "upgraded", "hello", "current", "loop", "done"},
   open : BOOLEAN, rx : Nat, down : Seq(Config), up : Seq(Hash \cup {BasicInfo})]

Process ==
  [phase : {"down", "idle", "linked"}, link : Connections \cup {0}, hash : Hash, store : Hash,
   disk : Hash \cup {Corrupt}, saved : BOOLEAN]

\* The types of the variables.
TypeOK ==
  /\ db \in [Tables -> Contents]
  /\ signal \in BOOLEAN
  /\ job \in [pc : {"idle", "export", "payload", "send"},
               export : Seq(Contents \cup {Truncated}), clean : BOOLEAN]
  /\ Len(job.export) <= NumTables
  /\ cp \in [hash : Hash, payload : Hash, log : Seq(Config)]
  /\ peers \in [DataPlanes ->
       [hash : Hash, status : {"normal", "unknown"}] \cup {None}]
  /\ conn \in [Connections -> Connection]
  /\ dp \in [DataPlanes -> Process]
  /\ budget \in [changes : Nat, faults : Nat]

\* No change is lost by the debounce: when the refresher rests, with no signal
\* left, and its last export read every page, what it pushed is what the database
\* holds in every table whose handlers signal, however many writes came while the
\* tables were being read one by one (run_cache_refresher, push_config_to_dps).
\* Nor is a push lost between the subscription, the current payload and the
\* broadcast: a connected data plane whose handler has reached its loop ends with
\* the current payload once it has read what is on its way, in whatever order
\* registrations, pushes and late ends of older connections come.
SettledExport ==
  /\ job.pc = "idle" /\ ~signal /\ job.clean =>
       /\ cp.hash = cp.payload
       /\ \A t \in Tables \ SilentTables : cp.payload[t] = db[t]
  /\ \A d \in DataPlanes :
       LET k == dp[d].link IN
       Linked(d) /\ conn[k].phase = "loop" /\ ~Lagging(k)
         /\ cp.payload # None /\ job.pc # "send" =>
           Last(<<dp[d].hash>> \o conn[k].down
                  \o SubSeq(cp.log, conn[k].rx + 1, Len(cp.log))) = cp.payload

\* Lost connections, crashes and restarts leave nothing behind: a data plane that
\* has once saved a configuration serves one whenever it runs, control plane or not,
\* wherever it crashed since (DiskCache::save, load), and the list of data planes
\* holds no node without a running handler (handle_dp_connection).
KeepsServing ==
  \A d \in DataPlanes :
    /\ dp[d].saved /\ dp[d].phase # "down" => dp[d].store # None
    /\ peers[d] # None => \E k \in Connections : conn[k].node = d /\ HandlerLive(k)

\* A data plane that stays connected ends up serving the current payload, also one
\* that started from its cache or fell behind the broadcast channel; and while it
\* stays listed, it is shown as in sync in the end (update_dp_status), also when the
\* configuration pushed is the one it had.
Converges ==
  \A d \in DataPlanes :
    /\ <>[]Linked(d) => <>[](cp.payload # None => dp[d].store = cp.payload)
    /\ <>[](Linked(d) /\ peers[d] # None) =>
         <>[](cp.payload # None => peers[d] # None /\ peers[d].status = "normal")

-----------------------------------------------------------------------------
(* The inductive invariant behind the two safety properties.                  *)

\* A linked data plane and its connection name each other.
LinkInv ==
  \A d \in DataPlanes :
    /\ dp[d].phase = "linked" =>
         /\ dp[d].link \in Connections
         /\ conn[dp[d].link].node = d
         /\ conn[dp[d].link].phase # "unused"
    /\ dp[d].phase # "linked" => dp[d].link = 0

\* Once the first message was taken, what comes up is hashes; an unused connection
\* has received nothing.
Talks(c) ==
  /\ c.phase = "unused" => c.rx = 0
  /\ c.phase \in {"upgraded", "hello"} /\ c.up # <<>> => Tail(c.up) \in Seq(Hash)
  /\ c.phase \in {"current", "loop"} => c.up \in Seq(Hash)

MessageInv == \A k \in Connections : Talks(conn[k])

\* What a process saved once is still on its disk, whole, and what runs serves it.
Durable(process) ==
  /\ process.disk # Corrupt
  /\ process.saved => process.disk # None
  /\ process.saved /\ process.phase # "down" => process.store # None

DiskInv == \A d \in DataPlanes : Durable(dp[d])

\* Every listed data plane has a running handler.
ListedInv ==
  \A d \in DataPlanes :
    peers[d] # None => \E k \in Connections : conn[k].node = d /\ HandlerLive(k)

\* Where a push stands: what an export read is still in the database or a signal is
\* pending, and hash, payload and channel follow one another.
PushInv ==
  /\ job.pc \in {"payload", "send"} => Len(job.export) = NumTables /\ cp.hash = job.export
  /\ job.pc = "send" => cp.payload = job.export
  /\ job.pc \in {"idle", "export"} => cp.hash = cp.payload
  /\ job.pc # "idle" /\ job.clean /\ ~signal =>
       \A t \in 1..Len(job.export) : t \notin SilentTables => job.export[t] = db[t]
  /\ job.pc = "idle" /\ job.clean => cp.payload # None
  /\ job.pc = "idle" /\ job.clean /\ ~signal =>
       \A t \in Tables \ SilentTables : cp.payload[t] = db[t]
  /\ cp.log # <<>> /\ job.pc # "send" => cp.log[Len(cp.log)] = cp.payload

\* A receiver is never ahead of the channel; and once it has taken all of it, what
\* the data plane read last, or has still to read, is the current payload.
StreamInv ==
  /\ \A k \in Connections : conn[k].rx <= Len(cp.log)
  /\ \A d \in DataPlanes :
       LET k == dp[d].link IN
       Linked(d) /\ conn[k].phase = "loop" /\ conn[k].rx = Len(cp.log)
         /\ cp.payload # None /\ job.pc # "send" =>
           /\ conn[k].down = <<>> => dp[d].hash = cp.payload
           /\ conn[k].down # <<>> => conn[k].down[Len(conn[k].down)] = cp.payload

ClusterInv == TypeOK /\ LinkInv /\ MessageInv /\ DiskInv /\ ListedInv /\ PushInv /\ StreamInv
=============================================================================
