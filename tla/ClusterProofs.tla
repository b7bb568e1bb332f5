---------------------------- MODULE ClusterProofs ----------------------------
(***************************************************************************)
(* Proofs about hybrid mode for every number of data planes, tables and    *)
(* connections, every capacity of the broadcast channel and every number   *)
(* of changes and faults: a data plane that once saved a configuration     *)
(* always serves one, no node stays listed without a handler, and neither  *)
(* the debounce nor the order of subscription, current payload and         *)
(* broadcast loses a push.                                                 *)
(***************************************************************************)
EXTENDS Cluster, SequenceTheorems, TLAPS

-----------------------------------------------------------------------------
(* Shapes *)

(* The assumptions the steps need, one by one. *)
LEMMA Constants ==
  /\ NumTables \in Nat \ {0}
  /\ Initial \in Contents
  /\ None \notin Config
  /\ Corrupt \notin Hash
  /\ ChannelCapacity \in Nat \ {0}
  /\ MaxConnections \in Nat \ {0}
  /\ MaxChanges \in Nat /\ MaxFaults \in Nat
  BY ClusterAssumption

(* A full export is a configuration. *)
LEMMA FullExport ==
  ASSUME NEW s \in Seq(Contents \cup {Truncated}), Len(s) = NumTables
  PROVE  s \in Config
  BY LenProperties DEF Config, Tables

(* A fault leaves the number of those still allowed a number. *)
LEMMA FaultType ==
  ASSUME TypeOK, Fault
  PROVE  budget' \in [changes : Nat, faults : Nat]
<1>1. budget.faults \in Nat /\ budget.faults > 0
  BY DEF TypeOK, Fault
<1>2. budget.faults - 1 \in Nat
  BY <1>1
<1> QED BY <1>2 DEF TypeOK, Fault

(* The initial state. *)
LEMMA InitHolds == Init => ClusterInv
<1> SUFFICES ASSUME Init PROVE ClusterInv
  OBVIOUS
<1> USE Constants DEF Init
<1>1. TypeOK
  <2>1. conn \in [Connections -> Connection]
    BY EmptySeq DEF Unused, Connection, Hash
  <2>2. job \in [pc : {"idle", "export", "payload", "send"},
               export : Seq(Contents \cup {Truncated}), clean : BOOLEAN]
        /\ Len(job.export) <= NumTables
    BY EmptySeq DEF Idle
  <2>3. cp \in [hash : Hash, payload : Hash, log : Seq(Config)]
    BY EmptySeq DEF NewControlPlane, Hash
  <2> QED BY <2>1, <2>2, <2>3 DEF TypeOK, Unregistered, Stopped, Process, Hash
<1>2. LinkInv /\ MessageInv /\ DiskInv /\ ListedInv
  BY DEF LinkInv, MessageInv, Talks, Unused, Durable, DiskInv, Durable, ListedInv, Stopped, Unregistered, Hash
<1>3. PushInv /\ StreamInv
  BY EmptySeq DEF PushInv, StreamInv, Idle, NewControlPlane, Unused, Linked, Stopped
<1> QED BY <1>1, <1>2, <1>3 DEF ClusterInv

-----------------------------------------------------------------------------
(* Admin API, refresher and push *)

(* The parts that speak of connections and data planes only. *)
LEMMA FleetUnchanged ==
  ASSUME ClusterInv, UNCHANGED <<peers, conn, dp>>
  PROVE  LinkInv' /\ MessageInv' /\ DiskInv' /\ ListedInv'
  BY DEF ClusterInv, LinkInv, MessageInv, DiskInv, Durable, ListedInv, HandlerLive

(* A write makes a pending signal or touches a silent table. *)
LEMMA AdminChangeStep ==
  ASSUME ClusterInv, NEW t \in Tables, NEW c \in Contents, AdminChange(t, c)
  PROVE  ClusterInv'
<1> USE DEF AdminChange
<1>1. TypeOK'
  BY DEF ClusterInv, TypeOK, Used, Notify
<1>2. PushInv'
  BY DEF ClusterInv, TypeOK, PushInv, Notify
<1>3. StreamInv'
  BY DEF ClusterInv, StreamInv, Linked
<1> QED BY <1>1, <1>2, <1>3, FleetUnchanged DEF ClusterInv

(* An export starts empty. *)
LEMMA CollectStep ==
  ASSUME ClusterInv, Collect
  PROVE  ClusterInv'
<1> USE DEF Collect
<1>1. TypeOK'
  <2>1. job' \in [pc : {"idle", "export", "payload", "send"},
               export : Seq(Contents \cup {Truncated}), clean : BOOLEAN]
    BY EmptySeq
  <2>2. Len(job'.export) = 0
    BY EmptySeq
  <2>3. Len(job'.export) <= NumTables
    BY <2>2, Constants
  <2>4. signal' \in BOOLEAN /\ UNCHANGED <<db, cp, peers, conn, dp, budget>>
    OBVIOUS
  <2> HIDE DEF Collect
  <2> QED BY <2>1, <2>3, <2>4 DEF ClusterInv, TypeOK
<1>2. PushInv'
  BY EmptySeq, Constants DEF ClusterInv, TypeOK, PushInv
<1>3. StreamInv'
  BY DEF ClusterInv, StreamInv, Linked
<1> QED BY <1>1, <1>2, <1>3, FleetUnchanged DEF ClusterInv

(* One table more, as the database has it, or truncated. *)
LEMMA ExportTableStep ==
  ASSUME ClusterInv, ExportTable
  PROVE  ClusterInv'
<1>1. PICK c \in Contents \cup {Truncated} :
        /\ job.pc = "export" /\ Len(job.export) < NumTables
        /\ job' = [job EXCEPT !.export = Append(@, c), !.clean = job'.clean]
        /\ job'.clean \in BOOLEAN
        /\ job'.clean => job.clean /\ c = db[Len(job.export) + 1]
  <2>1. job.export \in Seq(Contents \cup {Truncated}) /\ Len(job.export) \in Nat
    BY LenProperties DEF ClusterInv, TypeOK
  <2>2. CASE Fault /\ job' = [job EXCEPT !.export = Append(@, Truncated), !.clean = FALSE]
    BY <2>2 DEF ExportTable, ClusterInv, TypeOK
  <2>3. CASE job' = [job EXCEPT !.export = Append(@, db[Len(@) + 1])]
    <3>1. db[Len(job.export) + 1] \in Contents
      BY <2>1, Constants DEF ExportTable, ClusterInv, TypeOK, Tables
    <3>2. job'.clean = job.clean /\ job.clean \in BOOLEAN
      BY <2>3 DEF ClusterInv, TypeOK
    <3>3. job' = [job EXCEPT !.export = Append(@, db[Len(job.export) + 1]), !.clean = job.clean]
      BY <2>3 DEF ClusterInv, TypeOK
    <3> QED BY <3>1, <3>2, <3>3 DEF ExportTable
  <2> QED BY <2>2, <2>3 DEF ExportTable
<1>2. /\ job'.pc = "export" /\ job'.export = Append(job.export, c)
      /\ job'.export \in Seq(Contents \cup {Truncated})
      /\ Len(job'.export) = Len(job.export) + 1 /\ Len(job.export) \in Nat
      /\ job' \in [pc : {"idle", "export", "payload", "send"},
               export : Seq(Contents \cup {Truncated}), clean : BOOLEAN]
      /\ \A i \in 1..Len(job.export) : job'.export[i] = job.export[i]
      /\ job'.export[Len(job.export) + 1] = c
  <2>1. job.export \in Seq(Contents \cup {Truncated}) /\ Len(job.export) \in Nat
    BY LenProperties DEF ClusterInv, TypeOK
  <2>2. job'.pc = "export" /\ job'.export = Append(job.export, c)
    BY <1>1 DEF ClusterInv, TypeOK
  <2>3. job'.export \in Seq(Contents \cup {Truncated})
    BY <2>1, <2>2, AppendProperties
  <2>4. /\ Len(job'.export) = Len(job.export) + 1
        /\ \A i \in 1..Len(job.export) : job'.export[i] = job.export[i]
        /\ job'.export[Len(job.export) + 1] = c
    BY <2>1, <2>2, AppendProperties
  <2>5. job' \in [pc : {"idle", "export", "payload", "send"},
               export : Seq(Contents \cup {Truncated}), clean : BOOLEAN]
    BY <1>1, <2>2, <2>3 DEF ClusterInv, TypeOK
  <2> QED BY <2>1, <2>2, <2>3, <2>4, <2>5
<1>3. TypeOK'
  <2>1. budget' \in [changes : Nat, faults : Nat]
    BY FaultType DEF ExportTable, ClusterInv, TypeOK
  <2>2. UNCHANGED <<db, signal, cp, peers, conn, dp>>
    BY DEF ExportTable
  <2> QED BY <1>1, <1>2, <2>1, <2>2, Constants DEF ClusterInv, TypeOK
<1>4. PushInv'
  <2>1. job'.clean /\ ~signal' =>
          \A t \in 1..Len(job'.export) : t \notin SilentTables => job'.export[t] = db'[t]
    BY <1>1, <1>2 DEF ClusterInv, PushInv, ExportTable
  <2> QED BY <1>1, <1>2, <2>1 DEF ClusterInv, TypeOK, PushInv, ExportTable
<1>5. StreamInv'
  BY <1>1, <1>2 DEF ClusterInv, StreamInv, Linked, ExportTable
<1>6. UNCHANGED <<peers, conn, dp>>
  BY DEF ExportTable
<1> QED BY <1>3, <1>4, <1>5, <1>6, FleetUnchanged DEF ClusterInv

(* The hash runs ahead of the payload. *)
LEMMA WriteHashStep ==
  ASSUME ClusterInv, WriteHash
  PROVE  ClusterInv'
<1> USE DEF WriteHash
<1>0. job.export \in Config /\ job.pc = "export"
  BY FullExport DEF ClusterInv, TypeOK
<1>1. TypeOK'
  BY <1>0 DEF ClusterInv, TypeOK, Hash
<1>2. PushInv'
  BY <1>0 DEF ClusterInv, TypeOK, PushInv
<1>3. StreamInv'
  BY <1>0 DEF ClusterInv, TypeOK, StreamInv, Linked
<1> QED BY <1>1, <1>2, <1>3, FleetUnchanged DEF ClusterInv

(* From the payload to the broadcast nobody is promised the new payload. *)
LEMMA WritePayloadStep ==
  ASSUME ClusterInv, WritePayload
  PROVE  ClusterInv'
<1> USE DEF WritePayload
<1>0. job.export \in Config /\ job.pc = "payload"
  BY FullExport DEF ClusterInv, TypeOK, PushInv
<1>1. TypeOK'
  BY <1>0 DEF ClusterInv, TypeOK, Hash
<1>2. PushInv'
  BY <1>0 DEF ClusterInv, TypeOK, PushInv
<1>3. StreamInv'
  BY <1>0 DEF ClusterInv, TypeOK, StreamInv, Linked
<1> QED BY <1>1, <1>2, <1>3, FleetUnchanged DEF ClusterInv

(* The broadcast is behind nobody: every receiver has it still to take. *)
LEMMA BroadcastStep ==
  ASSUME ClusterInv, Broadcast
  PROVE  ClusterInv'
<1> USE DEF Broadcast
<1>0. /\ job.export \in Config /\ job.pc = "send" /\ cp.payload = job.export /\ cp.hash = job.export
      /\ Len(job.export) = NumTables /\ cp.log \in Seq(Config)
  BY FullExport DEF ClusterInv, TypeOK, PushInv
<1>1. /\ cp' = [cp EXCEPT !.log = Append(cp.log, job.export)]
      /\ Append(cp.log, job.export) \in Seq(Config)
      /\ Len(Append(cp.log, job.export)) = Len(cp.log) + 1 /\ Len(cp.log) \in Nat
      /\ Append(cp.log, job.export)[Len(cp.log) + 1] = job.export
  BY <1>0, AppendProperties, LenProperties
<1>2. /\ cp'.log \in Seq(Config) /\ Len(cp'.log) = Len(cp.log) + 1
      /\ cp'.log[Len(cp.log) + 1] = job.export
      /\ cp'.payload = job.export /\ cp'.hash = job.export
      /\ cp' \in [hash : Hash, payload : Hash, log : Seq(Config)]
  BY <1>0, <1>1 DEF ClusterInv, TypeOK
<1>3. /\ job' \in [pc : {"idle", "export", "payload", "send"},
               export : Seq(Contents \cup {Truncated}), clean : BOOLEAN]
      /\ job'.pc = "idle" /\ job'.export = <<>> /\ job'.clean = job.clean
  BY EmptySeq DEF ClusterInv, TypeOK
<1>4. TypeOK'
  BY <1>2, <1>3, EmptySeq, Constants DEF ClusterInv, TypeOK
<1>5. PushInv'
  <2>1. job'.clean => cp'.payload # None
    BY <1>0, <1>2, Constants
  <2>2. job'.clean /\ ~signal' => \A t \in Tables \ SilentTables : cp'.payload[t] = db'[t]
    BY <1>0, <1>2, <1>3 DEF ClusterInv, PushInv, Tables
  <2> QED BY <1>1, <1>2, <1>3, <2>1, <2>2 DEF PushInv
<1>6. StreamInv'
  <2>1. \A k \in Connections : conn'[k].rx \in Nat /\ conn'[k].rx <= Len(cp.log)
    BY DEF ClusterInv, TypeOK, Connection, StreamInv
  <2>2. \A k \in Connections : conn'[k].rx <= Len(cp'.log) /\ conn'[k].rx # Len(cp'.log)
    BY <1>1, <1>2, <2>1
  <2>3. \A d \in DataPlanes : Linked(d)' => dp'[d].link \in Connections
    BY DEF ClusterInv, LinkInv, Linked
  <2> QED BY <2>2, <2>3 DEF StreamInv
<1> QED BY <1>4, <1>5, <1>6, FleetUnchanged DEF ClusterInv

-----------------------------------------------------------------------------
(* The task of a connection *)

(* What is promised of connection c, whose data plane runs with hash h. *)
InStep(c, h) ==
  c.open /\ c.phase = "loop" /\ c.rx = Len(cp.log) /\ cp.payload # None /\ job.pc # "send" =>
    /\ c.down = <<>> => h = cp.payload
    /\ c.down # <<>> => c.down[Len(c.down)] = cp.payload

(* StreamInv in the words of InStep. *)
LEMMA StreamInStep ==
  StreamInv <=>
    /\ \A k \in Connections : conn[k].rx <= Len(cp.log)
    /\ \A d \in DataPlanes : dp[d].phase = "linked" => InStep(conn[dp[d].link], dp[d].hash)
  BY DEF StreamInv, InStep, Linked

(* One end of connection k takes it to c; the control plane and the data planes *)
(* stay as they are.                                                            *)
Moves(k, c) ==
  /\ conn' = [conn EXCEPT ![k] = c]
  /\ c \in Connection
  /\ c.node = conn[k].node
  /\ c.phase # "unused"
  /\ Talks(c)
  /\ c.rx <= Len(cp.log)
  /\ UNCHANGED <<db, signal, job, cp, dp, budget>>

(* Such a move keeps everything that is not about the list or about k's stream. *)
LEMMA MoveStep ==
  ASSUME ClusterInv, NEW k \in Connections, NEW c, Moves(k, c),
         peers' \in [DataPlanes -> [hash : Hash, status : {"normal", "unknown"}] \cup {None}],
         \A d \in DataPlanes : dp[d].phase = "linked" /\ dp[d].link = k => InStep(c, dp[d].hash)
  PROVE  TypeOK' /\ LinkInv' /\ MessageInv' /\ DiskInv' /\ PushInv' /\ StreamInv'
<1>1. TypeOK'
  BY DEF Moves, ClusterInv, TypeOK
<1>2. LinkInv'
  BY DEF Moves, ClusterInv, TypeOK, LinkInv
<1>3. MessageInv' /\ DiskInv' /\ PushInv'
  <2>1. \A j \in Connections : conn'[j] = IF j = k THEN c ELSE conn[j]
    BY DEF Moves, ClusterInv, TypeOK
  <2> QED BY <2>1 DEF Moves, ClusterInv, MessageInv, Talks, DiskInv, Durable, PushInv
<1>4. StreamInv'
  <2>1. \A j \in Connections : conn'[j].rx <= Len(cp.log)
    BY DEF Moves, ClusterInv, TypeOK, StreamInv
  <2>2. \A d \in DataPlanes : dp[d].phase = "linked" => InStep(conn'[dp[d].link], dp[d].hash)
    <3> SUFFICES ASSUME NEW d \in DataPlanes, dp[d].phase = "linked"
                 PROVE  InStep(conn'[dp[d].link], dp[d].hash)
      OBVIOUS
    <3>1. dp[d].link \in Connections
      BY DEF ClusterInv, LinkInv
    <3>2. CASE dp[d].link = k
      BY <3>1, <3>2 DEF Moves, ClusterInv, TypeOK
    <3>3. CASE dp[d].link # k
      BY <3>1, <3>3, StreamInStep DEF Moves, ClusterInv, TypeOK
    <3> QED BY <3>2, <3>3
  <2> QED BY <2>1, <2>2 DEF Moves, StreamInv, InStep, Linked
<1> QED BY <1>1, <1>2, <1>3, <1>4

(* A handler that goes on keeps the list right. *)
LEMMA GoesOnListed ==
  ASSUME ClusterInv, NEW k \in Connections, NEW c, Moves(k, c),
         HandlerLive(k) => c.phase \in {"hello", "current", "loop"},
         \A d \in DataPlanes : peers'[d] # None => peers[d] # None
  PROVE  ListedInv'
<1> SUFFICES ASSUME NEW d \in DataPlanes, peers'[d] # None
             PROVE  \E j \in Connections : conn'[j].node = d /\ HandlerLive(j)'
  BY DEF ListedInv
<1>1. PICK j \in Connections : conn[j].node = d /\ HandlerLive(j)
  BY DEF ClusterInv, ListedInv
<1>2. conn'[j].node = d /\ HandlerLive(j)'
  BY <1>1 DEF Moves, ClusterInv, TypeOK, HandlerLive
<1> QED BY <1>2

(* The end of a task: its node leaves the list, its connection promises nothing. *)
LEMMA EndStep ==
  ASSUME ClusterInv, NEW k \in Connections, conn[k].phase # "unused", EndHandler(k),
         UNCHANGED <<db, signal, job, cp, dp, budget>>
  PROVE  ClusterInv'
<1> DEFINE c == [conn[k] EXCEPT !.phase = "done", !.open = FALSE, !.up = <<>>, !.rx = 0]
<1>1. conn[k] \in Connection /\ cp.log \in Seq(Config) /\ Len(cp.log) \in Nat
  BY LenProperties DEF ClusterInv, TypeOK
<1>2. /\ c \in Connection /\ c.node = conn[k].node /\ c.phase = "done" /\ ~c.open /\ c.rx = 0
      /\ Talks(c)
  BY <1>1, EmptySeq DEF Connection, Talks
<1>3. conn' = [conn EXCEPT ![k] = c]
  BY DEF EndHandler, ClusterInv, TypeOK
<1> HIDE DEF c
<1>4. Moves(k, c)
  BY <1>1, <1>2, <1>3 DEF Moves
<1>5. \A h : InStep(c, h)
  BY <1>2 DEF InStep
<1>6. peers' \in [DataPlanes -> [hash : Hash, status : {"normal", "unknown"}] \cup {None}]
  BY DEF EndHandler, ClusterInv, TypeOK
<1>7. ListedInv'
  <2> SUFFICES ASSUME NEW d \in DataPlanes, peers'[d] # None
               PROVE  \E j \in Connections : conn'[j].node = d /\ HandlerLive(j)'
    BY DEF ListedInv
  <2>1. d # conn[k].node /\ peers[d] # None
    BY DEF EndHandler, ClusterInv, TypeOK
  <2>2. PICK j \in Connections : conn[j].node = d /\ HandlerLive(j)
    BY <2>1 DEF ClusterInv, ListedInv
  <2>3. conn'[j] = conn[j]
    BY <1>3, <2>1, <2>2 DEF ClusterInv, TypeOK
  <2> QED BY <2>2, <2>3 DEF HandlerLive
<1> QED BY <1>4, <1>5, <1>6, <1>7, MoveStep DEF ClusterInv

(* The entry and the subscription: the receiver starts at the end of the channel. *)
LEMMA RegisterStep ==
  ASSUME ClusterInv, NEW k \in Connections, Register(k)
  PROVE  ClusterInv'
<1> DEFINE c == [conn[k] EXCEPT !.phase = "hello", !.rx = Len(cp.log)]
<1>1. conn[k] \in Connection /\ conn[k].phase = "upgraded" /\ Len(cp.log) \in Nat
  BY LenProperties DEF ClusterInv, TypeOK, Register
<1>2. /\ c \in Connection /\ c.node = conn[k].node /\ c.phase = "hello" /\ c.rx = Len(cp.log)
      /\ Talks(c)
  BY <1>1 DEF Connection, ClusterInv, MessageInv, Talks
<1>3. conn' = [conn EXCEPT ![k] = c]
  BY DEF Register, Subscribed, ClusterInv, TypeOK
<1> HIDE DEF c
<1>4. Moves(k, c)
  <2>1. UNCHANGED <<db, signal, job, cp, dp, budget>>
    BY DEF Register
  <2>2. c.phase # "unused" /\ c.rx <= Len(cp.log)
    BY <1>1, <1>2
  <2> QED BY <1>2, <1>3, <2>1, <2>2 DEF Moves
<1>5. \A h : InStep(c, h)
  BY <1>2 DEF InStep
<1>6. peers' \in [DataPlanes -> [hash : Hash, status : {"normal", "unknown"}] \cup {None}]
  BY DEF Register, ClusterInv, TypeOK, Hash
<1>7. ListedInv'
  <2> SUFFICES ASSUME NEW d \in DataPlanes, peers'[d] # None
               PROVE  \E j \in Connections : conn'[j].node = d /\ HandlerLive(j)'
    BY DEF ListedInv
  <2>1. CASE d = conn[k].node
    BY <1>2, <1>3, <2>1 DEF HandlerLive, ClusterInv, TypeOK
  <2>2. CASE d # conn[k].node
    <3>1. PICK j \in Connections : conn[j].node = d /\ HandlerLive(j)
      BY <2>2 DEF Register, ClusterInv, TypeOK, ListedInv
    <3>2. conn'[j] = conn[j]
      BY <1>3, <2>2, <3>1 DEF ClusterInv, TypeOK
    <3> QED BY <3>1, <3>2 DEF HandlerLive
  <2> QED BY <2>1, <2>2
<1> QED BY <1>4, <1>5, <1>6, <1>7, MoveStep DEF ClusterInv

(* The first message is taken. *)
LEMMA HelloStep ==
  ASSUME ClusterInv, NEW k \in Connections, Hello(k)
  PROVE  ClusterInv'
<1>1. conn[k] \in Connection /\ conn[k].phase = "hello" /\ conn[k].rx <= Len(cp.log)
  BY DEF ClusterInv, TypeOK, Hello, StreamInv
<1>2. \E c \in Connection : /\ conn' = [conn EXCEPT ![k] = c] /\ c.node = conn[k].node
                            /\ c.phase = "current" /\ c.rx = conn[k].rx /\ Talks(c)
  <2>1. CASE conn[k].up # <<>> /\ conn' = [conn EXCEPT ![k].phase = "current", ![k].up = Tail(@)]
    <3> DEFINE c == [conn[k] EXCEPT !.phase = "current", !.up = Tail(conn[k].up)]
    <3>1. Tail(conn[k].up) \in Seq(Hash \cup {BasicInfo})
      BY <1>1, <2>1, HeadTailProperties DEF Connection
    <3>2. c \in Connection /\ c.node = conn[k].node /\ c.phase = "current" /\ c.rx = conn[k].rx /\ Talks(c)
      BY <1>1, <2>1, <3>1 DEF Connection, ClusterInv, MessageInv, Talks
    <3>3. conn' = [conn EXCEPT ![k] = c]
      BY <2>1 DEF ClusterInv, TypeOK
    <3> QED BY <3>2, <3>3
  <2>2. CASE conn[k].up = <<>> /\ conn' = [conn EXCEPT ![k].phase = "current"]
    <3> DEFINE c == [conn[k] EXCEPT !.phase = "current"]
    <3>2. c \in Connection /\ c.node = conn[k].node /\ c.phase = "current" /\ c.rx = conn[k].rx /\ Talks(c)
      BY <1>1, <2>2, EmptySeq DEF Connection, Talks
    <3>3. conn' = [conn EXCEPT ![k] = c]
      BY <2>2 DEF ClusterInv, TypeOK
    <3> QED BY <3>2, <3>3
  <2> QED BY <2>1, <2>2 DEF Hello
<1>3. PICK c \in Connection : /\ conn' = [conn EXCEPT ![k] = c] /\ c.node = conn[k].node
                              /\ c.phase = "current" /\ c.rx = conn[k].rx /\ Talks(c)
  BY <1>2
<1>4. Moves(k, c)
  BY <1>1, <1>3 DEF Moves, Hello
<1>5. \A h : InStep(c, h)
  BY <1>3 DEF InStep
<1>6. peers' = peers
  BY DEF Hello
<1>7. ListedInv'
  BY <1>3, <1>4, <1>6, GoesOnListed
<1>8. peers' \in [DataPlanes -> [hash : Hash, status : {"normal", "unknown"}] \cup {None}]
  BY <1>6 DEF ClusterInv, TypeOK
<1> QED BY <1>4, <1>5, <1>7, <1>8, MoveStep DEF ClusterInv

(* A message p goes down k, whose handler goes on as c, and p brings the data plane *)
(* in step.                                                                         *)
LEMMA SendStep ==
  ASSUME ClusterInv, NEW k \in Connections, NEW p \in Config, NEW c \in Connection,
         SendDown(k, p, c), conn[k].phase # "unused",
         c.node = conn[k].node, c.phase = "loop", c.open = conn[k].open, c.down = conn[k].down, Talks(c),
         c.rx <= Len(cp.log),
         c.rx = Len(cp.log) /\ cp.payload # None /\ job.pc # "send" => p = cp.payload,
         UNCHANGED <<db, signal, job, cp, dp, budget>>
  PROVE  ClusterInv'
<1>0. conn[k] \in Connection /\ conn[k].open \in BOOLEAN /\ conn[k].down \in Seq(Config)
  BY DEF ClusterInv, TypeOK, Connection
<1>1. CASE conn[k].open /\ conn' = [conn EXCEPT ![k] = [c EXCEPT !.down = Append(@, p)]] /\ UNCHANGED peers
  <2> DEFINE e == [c EXCEPT !.down = Append(c.down, p)]
  <2>1. /\ Append(c.down, p) \in Seq(Config) /\ Append(c.down, p) # <<>>
        /\ Append(c.down, p)[Len(Append(c.down, p))] = p
    BY <1>0, AppendProperties
  <2>2. /\ e \in Connection /\ e.node = conn[k].node /\ e.phase = "loop" /\ e.rx = c.rx
        /\ e.down = Append(c.down, p) /\ Talks(e)
    BY <2>1 DEF Connection, Talks
  <2>3. conn' = [conn EXCEPT ![k] = e]
    BY <1>1
  <2> HIDE DEF e
  <2>4. Moves(k, e)
    BY <2>2, <2>3 DEF Moves
  <2>5. \A h : InStep(e, h)
    BY <2>1, <2>2 DEF InStep
  <2>6. ListedInv'
    BY <1>1, <2>2, <2>4, GoesOnListed
  <2> QED BY <1>1, <2>4, <2>5, <2>6, MoveStep DEF ClusterInv, TypeOK
<1>2. CASE ~conn[k].open /\ conn' = [conn EXCEPT ![k] = c] /\ UNCHANGED peers
  <2>1. Moves(k, c)
    BY <1>2 DEF Moves
  <2>2. \A h : InStep(c, h)
    BY <1>2 DEF InStep
  <2>3. ListedInv'
    BY <1>2, <2>1, GoesOnListed
  <2> QED BY <1>2, <2>1, <2>2, <2>3, MoveStep DEF ClusterInv, TypeOK
<1>3. CASE EndHandler(k)
  BY <1>3, EndStep
<1> QED BY <1>1, <1>2, <1>3 DEF SendDown

(* The current payload brings a new data plane in step. *)
LEMMA SendCurrentStep ==
  ASSUME ClusterInv, NEW k \in Connections, SendCurrent(k)
  PROVE  ClusterInv'
<1> DEFINE c == [conn[k] EXCEPT !.phase = "loop"]
<1>1. conn[k] \in Connection /\ conn[k].phase = "current" /\ conn[k].rx <= Len(cp.log)
  BY DEF ClusterInv, TypeOK, SendCurrent, StreamInv
<1>2. /\ c \in Connection /\ c.node = conn[k].node /\ c.phase = "loop" /\ c.rx = conn[k].rx
      /\ c.open = conn[k].open /\ c.down = conn[k].down /\ Talks(c)
  BY <1>1 DEF Connection, ClusterInv, MessageInv, Talks
<1>3. UNCHANGED <<db, signal, job, cp, dp, budget>>
  BY DEF SendCurrent
<1>4. CASE cp.payload = None /\ conn' = [conn EXCEPT ![k].phase = "loop"] /\ UNCHANGED peers
  <2>1. conn' = [conn EXCEPT ![k] = c]
    BY <1>4 DEF ClusterInv, TypeOK
  <2> HIDE DEF c
  <2>2. Moves(k, c)
    BY <1>1, <1>2, <1>3, <2>1 DEF Moves
  <2>3. \A h : InStep(c, h)
    BY <1>4 DEF InStep
  <2>4. ListedInv'
    BY <1>2, <1>4, <2>2, GoesOnListed
  <2>5. peers' \in [DataPlanes -> [hash : Hash, status : {"normal", "unknown"}] \cup {None}]
    BY <1>4 DEF ClusterInv, TypeOK
  <2> QED BY <2>2, <2>3, <2>4, <2>5, MoveStep DEF ClusterInv
<1>5. CASE cp.payload # None /\ SendDown(k, cp.payload, c)
  <2>1. cp.payload \in Config
    BY <1>5 DEF ClusterInv, TypeOK, Hash
  <2> HIDE DEF c
  <2> QED BY <1>1, <1>2, <1>3, <1>5, <2>1, SendStep
<1> QED BY <1>4, <1>5 DEF SendCurrent

(* A ping is taken, or its pong fails. *)
LEMMA RecvPingStep ==
  ASSUME ClusterInv, NEW k \in Connections, RecvPing(k)
  PROVE  ClusterInv'
<1>1. /\ conn[k] \in Connection /\ conn[k].phase = "loop" /\ conn[k].rx <= Len(cp.log)
      /\ conn[k].up # <<>>
  BY DEF ClusterInv, TypeOK, RecvPing, StreamInv
<1>2. UNCHANGED <<db, signal, job, cp, dp, budget>>
  BY DEF RecvPing
<1>3. CASE /\ peers' = [peers EXCEPT ![conn[k].node] = Reported(@, Head(conn[k].up))]
           /\ conn' = [conn EXCEPT ![k].up = Tail(@)]
  <2> DEFINE c == [conn[k] EXCEPT !.up = Tail(conn[k].up)]
  <2>0. conn[k].up \in Seq(Hash) /\ conn[k].up \in Seq(Hash \cup {BasicInfo})
    BY <1>1 DEF ClusterInv, MessageInv, Talks, Connection
  <2>1. /\ Tail(conn[k].up) \in Seq(Hash \cup {BasicInfo})
        /\ Tail(conn[k].up) \in Seq(Hash) /\ Head(conn[k].up) \in Hash
    BY <1>1, <2>0, HeadTailProperties
  <2>2. /\ c \in Connection /\ c.node = conn[k].node /\ c.phase = "loop" /\ c.rx = conn[k].rx
        /\ c.open = conn[k].open /\ c.down = conn[k].down /\ Talks(c)
    BY <1>1, <2>1 DEF Connection, Talks
  <2>3. conn' = [conn EXCEPT ![k] = c]
    BY <1>3 DEF ClusterInv, TypeOK
  <2> HIDE DEF c
  <2>4. Moves(k, c)
    BY <1>1, <1>2, <2>2, <2>3 DEF Moves
  <2>5. \A d \in DataPlanes : dp[d].phase = "linked" /\ dp[d].link = k => InStep(c, dp[d].hash)
    <3>1. \A h : InStep(conn[k], h) => InStep(c, h)
      BY <1>1, <2>2 DEF InStep
    <3> QED BY <3>1, StreamInStep DEF ClusterInv
  <2>6. peers' \in [DataPlanes -> [hash : Hash, status : {"normal", "unknown"}] \cup {None}]
    BY <1>3, <2>1 DEF ClusterInv, TypeOK, Reported
  <2>7. \A d \in DataPlanes : peers'[d] # None => peers[d] # None
    BY <1>3 DEF ClusterInv, TypeOK, Reported
  <2>8. ListedInv'
    BY <2>2, <2>4, <2>7, GoesOnListed
  <2> QED BY <2>4, <2>5, <2>6, <2>8, MoveStep DEF ClusterInv
<1>4. CASE EndHandler(k)
  BY <1>1, <1>2, <1>4, EndStep
<1> QED BY <1>3, <1>4 DEF RecvPing

(* The last broadcast of the channel is the current payload. *)
LEMMA RecvConfigStep ==
  ASSUME ClusterInv, NEW k \in Connections, RecvConfig(k)
  PROVE  ClusterInv'
<1> DEFINE c == [conn[k] EXCEPT !.rx = conn[k].rx + 1]
           p == cp.log[conn[k].rx + 1]
<1>1. /\ conn[k] \in Connection /\ conn[k].phase = "loop" /\ conn[k].rx < Len(cp.log)
      /\ conn[k].rx \in Nat /\ cp.log \in Seq(Config) /\ Len(cp.log) \in Nat
  BY LenProperties DEF ClusterInv, TypeOK, RecvConfig, Connection
<1>2. /\ c \in Connection /\ c.node = conn[k].node /\ c.phase = "loop" /\ c.rx = conn[k].rx + 1
      /\ c.open = conn[k].open /\ c.down = conn[k].down /\ Talks(c)
  <2>1. conn[k].up \in Seq(Hash)
    BY <1>1 DEF ClusterInv, MessageInv, Talks
  <2>2. /\ c \in Connection /\ c.node = conn[k].node /\ c.phase = "loop" /\ c.rx = conn[k].rx + 1
        /\ c.open = conn[k].open /\ c.down = conn[k].down /\ c.up = conn[k].up
    BY <1>1 DEF Connection
  <2> QED BY <2>1, <2>2 DEF Talks
<1>3. p \in Config
  BY <1>1, ElementOfSeq
<1>4. c.rx <= Len(cp.log)
  BY <1>1, <1>2
<1>5. c.rx = Len(cp.log) /\ job.pc # "send" => p = cp.payload
  BY <1>1, <1>2, EmptySeq DEF ClusterInv, PushInv
<1>6. SendDown(k, p, c) /\ UNCHANGED <<db, signal, job, cp, dp, budget>>
  BY DEF RecvConfig
<1> HIDE DEF c, p
<1> QED BY <1>1, <1>2, <1>3, <1>4, <1>5, <1>6, SendStep

(* Every step of a task. *)
LEMMA HandlerStep ==
  ASSUME ClusterInv, NEW k \in Connections, Handler(k)
  PROVE  ClusterInv'
<1>1. CASE Lagged(k) \/ NoticeClosed(k)
  BY <1>1, EndStep DEF Lagged, NoticeClosed
<1> QED BY <1>1, RegisterStep, HelloStep, SendCurrentStep, RecvPingStep, RecvConfigStep, Zenon DEF Handler

(* purge_stale_dps only takes nodes off the list. *)
LEMMA PurgeStep ==
  ASSUME ClusterInv, NEW d \in DataPlanes, Purge(d)
  PROVE  ClusterInv'
<1>1. /\ UNCHANGED <<db, signal, job, cp, conn, dp, budget>>
      /\ peers' = [peers EXCEPT ![d] = None]
  BY DEF Purge
<1>2. TypeOK'
  BY <1>1 DEF ClusterInv, TypeOK
<1>3. ListedInv'
  BY <1>1 DEF ClusterInv, TypeOK, ListedInv, HandlerLive
<1>4. LinkInv' /\ MessageInv' /\ DiskInv' /\ PushInv'
  BY <1>1 DEF ClusterInv, LinkInv, MessageInv, DiskInv, Durable, PushInv
<1>5. StreamInv'
  BY <1>1 DEF ClusterInv, StreamInv, Linked
<1> QED BY <1>2, <1>3, <1>4, <1>5 DEF ClusterInv

(* A restart ends every task, empties the list and closes every connection. *)
LEMMA RestartStep ==
  ASSUME ClusterInv, RestartControlPlane
  PROVE  ClusterInv'
<1> DEFINE ended(k) == [conn[k] EXCEPT !.phase = "done", !.open = FALSE, !.up = <<>>, !.rx = 0]
<1>1. \A k \in Connections : ended(k) \in Connection /\ Talks(ended(k))
        /\ ended(k).phase = "done" /\ ~ended(k).open /\ ended(k).rx = 0 /\ ended(k).node = conn[k].node
  <2> SUFFICES ASSUME NEW k \in Connections
               PROVE  ended(k) \in Connection /\ Talks(ended(k))
                        /\ ended(k).phase = "done" /\ ~ended(k).open /\ ended(k).rx = 0
                        /\ ended(k).node = conn[k].node
    OBVIOUS
  <2>1. conn[k] \in Connection
    BY DEF ClusterInv, TypeOK
  <2> QED BY <2>1, EmptySeq DEF Connection, Talks
<1>2. \A k \in Connections : conn'[k] = IF k \in Used THEN ended(k) ELSE conn[k]
  BY DEF RestartControlPlane
<1>3. \A k \in Used : k \in Connections
  BY DEF Used
<1> HIDE DEF ended
<1>4. conn' \in [Connections -> Connection]
  <2>1. conn' = [k \in Connections |-> IF k \in Used THEN ended(k) ELSE conn[k]]
    BY DEF RestartControlPlane, ended
  <2> QED BY <1>1, <2>1 DEF ClusterInv, TypeOK
<1>5. job' = Idle /\ cp' = NewControlPlane /\ peers' = Unregistered /\ signal' = FALSE /\ UNCHANGED <<db, dp>>
  BY DEF RestartControlPlane
<1>6. TypeOK'
  <2>1. budget' \in [changes : Nat, faults : Nat]
    BY FaultType DEF RestartControlPlane, ClusterInv
  <2>2. /\ job' \in [pc : {"idle", "export", "payload", "send"},
               export : Seq(Contents \cup {Truncated}), clean : BOOLEAN]
        /\ Len(job'.export) <= NumTables
    BY <1>5, EmptySeq, Constants DEF Idle
  <2>3. cp' \in [hash : Hash, payload : Hash, log : Seq(Config)]
    BY <1>5, EmptySeq DEF NewControlPlane, Hash
  <2>4. peers' \in [DataPlanes -> [hash : Hash, status : {"normal", "unknown"}] \cup {None}]
    BY <1>5 DEF Unregistered
  <2> QED BY <1>4, <1>5, <2>1, <2>2, <2>3, <2>4 DEF ClusterInv, TypeOK
<1>7. LinkInv'
  BY <1>1, <1>2, <1>5 DEF ClusterInv, LinkInv
<1>8. MessageInv'
  <2>1. \A k \in Connections : Talks(conn'[k])
    BY <1>1, <1>2 DEF ClusterInv, MessageInv
  <2> QED BY <2>1 DEF MessageInv, Talks
<1>9. DiskInv'
  BY <1>5 DEF ClusterInv, DiskInv, Durable
<1>10. ListedInv' /\ PushInv'
  BY <1>5, EmptySeq DEF ListedInv, Unregistered, PushInv, Idle, NewControlPlane
<1>11. StreamInv'
  <2>1. cp'.payload = None /\ Len(cp'.log) = 0
    BY <1>5, EmptySeq DEF NewControlPlane
  <2>2. \A k \in Connections : conn'[k].rx <= 0
    <3> SUFFICES ASSUME NEW k \in Connections PROVE conn'[k].rx <= 0
      OBVIOUS
    <3>1. CASE k \in Used
      BY <1>1, <1>2, <3>1
    <3>2. CASE k \notin Used
      BY <1>2, <3>2 DEF Used, ClusterInv, MessageInv, Talks
    <3> QED BY <3>1, <3>2
  <2> QED BY <2>1, <2>2 DEF StreamInv
<1> QED BY <1>6, <1>7, <1>8, <1>9, <1>10, <1>11 DEF ClusterInv

-----------------------------------------------------------------------------
(* The data plane *)

(* A data plane that is not linked afterwards, its connections left alone. *)
LEMMA ProcessStep ==
  ASSUME ClusterInv, NEW d \in DataPlanes, NEW x \in Process, dp' = [dp EXCEPT ![d] = x],
         Durable(x), x.phase # "linked", x.link = 0,
         UNCHANGED <<db, signal, job, cp, peers, conn, budget>>
  PROVE  ClusterInv'
<1>1. \A e \in DataPlanes : dp'[e] = IF e = d THEN x ELSE dp[e]
  BY DEF ClusterInv, TypeOK
<1>2. TypeOK'
  BY DEF ClusterInv, TypeOK
<1>3. LinkInv'
  BY <1>1 DEF ClusterInv, LinkInv
<1>4. MessageInv' /\ PushInv'
  BY DEF ClusterInv, MessageInv, PushInv
<1>5. DiskInv'
  BY <1>1 DEF ClusterInv, DiskInv, Durable
<1>6. ListedInv'
  BY DEF ClusterInv, ListedInv, HandlerLive
<1>7. StreamInv'
  BY <1>1 DEF ClusterInv, StreamInv, Linked
<1> QED BY <1>2, <1>3, <1>4, <1>5, <1>6, <1>7 DEF ClusterInv

(* Data plane d, as x afterwards, moves its own or a new connection k to c. *)
Acts(d, x, k, c) ==
  /\ dp' = [dp EXCEPT ![d] = x]
  /\ conn' = [conn EXCEPT ![k] = c]
  /\ x \in Process /\ Durable(x)
  /\ c \in Connection /\ Talks(c) /\ c.node = d /\ c.phase # "unused" /\ c.rx <= Len(cp.log)
  /\ \/ conn[k].phase = "unused"
     \/ conn[k].node = d /\ c.phase = conn[k].phase
  /\ x.phase = "linked" => x.link = k /\ InStep(c, x.hash)
  /\ x.phase # "linked" => x.link = 0
  /\ UNCHANGED <<db, signal, job, cp, peers>>
  /\ budget' \in [changes : Nat, faults : Nat]

(* Such a step disturbs no other data plane: links are never shared. *)
LEMMA ActsStep ==
  ASSUME ClusterInv, NEW d \in DataPlanes, NEW x, NEW k \in Connections, NEW c, Acts(d, x, k, c)
  PROVE  ClusterInv'
<1>1. \A e \in DataPlanes : dp'[e] = IF e = d THEN x ELSE dp[e]
  BY DEF Acts, ClusterInv, TypeOK
<1>2. \A j \in Connections : conn'[j] = IF j = k THEN c ELSE conn[j]
  BY DEF Acts, ClusterInv, TypeOK
<1>3. \A e \in DataPlanes : e # d /\ dp[e].phase = "linked" => dp[e].link # k
  BY DEF Acts, ClusterInv, LinkInv
<1>4. TypeOK'
  BY DEF Acts, ClusterInv, TypeOK
<1>5. LinkInv'
  BY <1>1, <1>2, <1>3 DEF Acts, ClusterInv, LinkInv
<1>6. MessageInv'
  BY <1>2 DEF Acts, ClusterInv, MessageInv, Talks
<1>7. PushInv'
  BY DEF Acts, ClusterInv, PushInv
<1>8. DiskInv'
  BY <1>1 DEF Acts, ClusterInv, DiskInv, Durable
<1>9. ListedInv'
  <2> SUFFICES ASSUME NEW e \in DataPlanes, peers'[e] # None
               PROVE  \E j \in Connections : conn'[j].node = e /\ HandlerLive(j)'
    BY DEF ListedInv
  <2>1. PICK j \in Connections : conn[j].node = e /\ HandlerLive(j)
    BY DEF Acts, ClusterInv, ListedInv
  <2>2. conn'[j].node = e /\ HandlerLive(j)'
    BY <1>2, <2>1 DEF Acts, HandlerLive
  <2> QED BY <2>2
<1>10. StreamInv'
  <2>1. \A j \in Connections : conn'[j].rx <= Len(cp.log)
    BY <1>2 DEF Acts, ClusterInv, StreamInv
  <2>2. \A e \in DataPlanes : dp'[e].phase = "linked" => InStep(conn'[dp'[e].link], dp'[e].hash)
    <3> SUFFICES ASSUME NEW e \in DataPlanes, dp'[e].phase = "linked"
                 PROVE  InStep(conn'[dp'[e].link], dp'[e].hash)
      OBVIOUS
    <3>1. CASE e = d
      BY <1>1, <1>2, <3>1 DEF Acts
    <3>2. CASE e # d
      <4>1. dp'[e] = dp[e] /\ dp[e].link \in Connections /\ dp[e].link # k
        BY <1>1, <1>3, <3>2 DEF ClusterInv, LinkInv
      <4>2. InStep(conn[dp[e].link], dp[e].hash)
        BY <4>1, StreamInStep DEF ClusterInv
      <4> QED BY <1>2, <4>1, <4>2
    <3> QED BY <3>1, <3>2
  <2> QED BY <2>1, <2>2 DEF Acts, StreamInv, InStep, Linked
<1> QED BY <1>4, <1>5, <1>6, <1>7, <1>8, <1>9, <1>10 DEF ClusterInv

(* The connection and process of a linked data plane. *)
LEMMA LinkedFacts ==
  ASSUME ClusterInv, NEW d \in DataPlanes, dp[d].phase = "linked"
  PROVE  /\ dp[d] \in Process /\ dp[d].link \in Connections
         /\ conn[dp[d].link] \in Connection /\ conn[dp[d].link].node = d
         /\ conn[dp[d].link].phase # "unused" /\ conn[dp[d].link].rx <= Len(cp.log)
         /\ Talks(conn[dp[d].link]) /\ Durable(dp[d])
         /\ InStep(conn[dp[d].link], dp[d].hash)
         /\ \A e \in DataPlanes : dp[e].phase = "linked" /\ dp[e].link = dp[d].link => e = d
  BY StreamInStep DEF ClusterInv, TypeOK, LinkInv, MessageInv, DiskInv, StreamInv

(* What a process finds in its cache is whole. *)
LEMMA BootStep ==
  ASSUME ClusterInv, NEW d \in DataPlanes, Boot(d)
  PROVE  ClusterInv'
<1> DEFINE x == [dp[d] EXCEPT !.phase = "idle", !.disk = dp[d].disk,
                              !.hash = dp[d].disk, !.store = dp[d].disk]
<1>1. dp[d] \in Process /\ Durable(dp[d])
  BY DEF ClusterInv, TypeOK, DiskInv
<1>2. LoadCache(dp[d].disk) = dp[d].disk /\ dp[d].disk \in Hash
  BY <1>1 DEF LoadCache, Durable, Process
<1>3. dp' = [dp EXCEPT ![d] = x]
  BY <1>2 DEF Boot
<1>4. x \in Process /\ Durable(x) /\ x.phase # "linked" /\ x.link = 0
  BY <1>1, <1>2 DEF Process, Durable, Boot, ClusterInv, LinkInv
<1>5. UNCHANGED <<db, signal, job, cp, peers, conn, budget>>
  BY DEF Boot
<1> HIDE DEF x
<1> QED BY <1>3, <1>4, <1>5, ProcessStep

(* A new connection is nobody else's. *)
LEMMA ConnectStep ==
  ASSUME ClusterInv, NEW d \in DataPlanes, Connect(d)
  PROVE  ClusterInv'
<1>1. PICK k \in Connections \ Used :
        /\ conn' = [conn EXCEPT ![k] = [@ EXCEPT !.node = d, !.phase = "upgraded", !.open = TRUE,
                                                  !.up = <<BasicInfo>>]]
        /\ dp' = [dp EXCEPT ![d].phase = "linked", ![d].link = k]
  BY DEF Connect
<1> DEFINE x == [dp[d] EXCEPT !.phase = "linked", !.link = k]
           c == [conn[k] EXCEPT !.node = d, !.phase = "upgraded", !.open = TRUE, !.up = <<BasicInfo>>]
<1>2. /\ dp[d] \in Process /\ Durable(dp[d]) /\ dp[d].phase = "idle"
      /\ conn[k] \in Connection /\ conn[k].phase = "unused" /\ conn[k].rx <= Len(cp.log)
  BY DEF ClusterInv, TypeOK, DiskInv, StreamInv, Connect, Used
<1>3. dp' = [dp EXCEPT ![d] = x] /\ conn' = [conn EXCEPT ![k] = c]
  BY <1>1 DEF ClusterInv, TypeOK
<1>4. x \in Process /\ Durable(x) /\ x.phase = "linked" /\ x.link = k
  BY <1>2 DEF Process, Durable
<1>5. <<BasicInfo>> \in Seq(Hash \cup {BasicInfo}) /\ Tail(<<BasicInfo>>) \in Seq(Hash)
  BY EmptySeq
<1>6. c \in Connection /\ c.node = d /\ c.phase = "upgraded" /\ c.rx = conn[k].rx /\ c.up = <<BasicInfo>>
  BY <1>2, <1>5 DEF Connection
<1> HIDE DEF x, c
<1>7. Talks(c)
  BY <1>5, <1>6 DEF Talks
<1>8. \A h : InStep(c, h)
  BY <1>6 DEF InStep
<1>9. UNCHANGED <<db, signal, job, cp, peers>> /\ budget' \in [changes : Nat, faults : Nat]
  BY DEF Connect, ClusterInv, TypeOK
<1>10. Acts(d, x, k, c)
  BY <1>2, <1>3, <1>4, <1>6, <1>7, <1>8, <1>9 DEF Acts
<1> QED BY <1>10, ActsStep

(* What is on its way down a linked connection. *)
LEMMA IncomingFacts ==
  ASSUME ClusterInv, NEW d \in DataPlanes, Incoming(d) # None
  PROVE  /\ dp[d].phase = "linked"
         /\ Incoming(d) = Head(conn[dp[d].link].down)
         /\ Incoming(d) \in Config
         /\ conn[dp[d].link].down # <<>>
         /\ Tail(conn[dp[d].link].down) \in Seq(Config)
<1>1. /\ dp[d].phase = "linked" /\ conn[dp[d].link].down # <<>>
      /\ Incoming(d) = Head(conn[dp[d].link].down)
  BY DEF Incoming
<1>2. conn[dp[d].link].down \in Seq(Config)
  BY <1>1, LinkedFacts DEF Connection
<1> QED BY <1>1, <1>2, HeadTailProperties

(* Reading the head of the queue down keeps what is promised, with the head as the *)
(* hash.                                                                           *)
LEMMA ReadInStep ==
  ASSUME NEW c \in Connection, NEW e \in Connection, c.down # <<>>, NEW h,
         e.open = c.open, e.phase = c.phase, e.rx = c.rx, e.down = Tail(c.down), InStep(c, h)
  PROVE  InStep(e, Head(c.down))
<1> DEFINE s == c.down
           t == Tail(s)
<1>1. s \in Seq(Config) /\ s # <<>> /\ Len(s) \in Nat \ {0}
  BY EmptySeq DEF Connection
<1>2. /\ t \in Seq(Config) /\ Len(t) = Len(s) - 1
      /\ \A i \in 1..Len(t) : t[i] = s[i + 1]
      /\ Head(s) = s[1]
  BY <1>1, HeadTailProperties
<1>3. e.down = t /\ c.down = s
  OBVIOUS
<1> HIDE DEF s, t
<1>4. t # <<>> => Len(t) \in Nat \ {0}
  BY <1>2, EmptySeq
<1>5. t = <<>> => Len(s) = 1
  BY <1>1, <1>2, EmptySeq
<1>6. t # <<>> => t[Len(t)] = s[Len(s)]
  BY <1>1, <1>2, <1>4
<1> QED BY <1>1, <1>2, <1>3, <1>5, <1>6 DEF InStep

(* Skipping what is in force changes nothing but the queue. *)
LEMMA SkipStep ==
  ASSUME ClusterInv, NEW d \in DataPlanes, Skip(d)
  PROVE  ClusterInv'
<1> DEFINE k == dp[d].link
           c == [conn[k] EXCEPT !.down = Tail(conn[k].down)]
<1>1. Incoming(d) # None /\ Incoming(d) = dp[d].hash /\ conn' = [conn EXCEPT ![k].down = Tail(@)]
  BY DEF Skip
<1>2. /\ dp[d].phase = "linked" /\ dp[d].hash = Head(conn[k].down)
      /\ conn[k].down # <<>> /\ Tail(conn[k].down) \in Seq(Config)
  BY <1>1, IncomingFacts
<1>3. /\ k \in Connections /\ conn[k] \in Connection /\ conn[k].node = d
      /\ conn[k].phase # "unused" /\ conn[k].rx <= Len(cp.log) /\ Talks(conn[k])
      /\ InStep(conn[k], dp[d].hash)
      /\ \A e \in DataPlanes : dp[e].phase = "linked" /\ dp[e].link = k => e = d
  BY <1>2, LinkedFacts
<1>4. /\ c \in Connection /\ c.node = conn[k].node /\ c.phase = conn[k].phase /\ c.rx = conn[k].rx
      /\ c.open = conn[k].open /\ c.up = conn[k].up /\ c.down = Tail(conn[k].down)
  BY <1>2, <1>3 DEF Connection
<1>5. conn' = [conn EXCEPT ![k] = c]
  BY <1>1, <1>3 DEF ClusterInv, TypeOK
<1>6. UNCHANGED <<db, signal, job, cp, dp, budget>> /\ peers' = peers
  BY DEF Skip
<1> HIDE DEF k, c
<1>7. Moves(k, c)
  BY <1>3, <1>4, <1>5, <1>6 DEF Moves, Talks
<1>8. InStep(c, dp[d].hash)
  BY <1>2, <1>3, <1>4, ReadInStep
<1>9. ListedInv'
  BY <1>3, <1>4, <1>6, <1>7, GoesOnListed DEF HandlerLive
<1>10. peers' \in [DataPlanes -> [hash : Hash, status : {"normal", "unknown"}] \cup {None}]
  BY <1>6 DEF ClusterInv, TypeOK
<1> QED BY <1>3, <1>7, <1>8, <1>9, <1>10, MoveStep DEF ClusterInv

(* A hash sent up joins hashes, or follows the first message. *)
LEMMA TalksMore ==
  ASSUME NEW c \in Connection, Talks(c), NEW h \in Hash, NEW e,
         e.phase = c.phase, e.rx = c.rx, e.up = Append(c.up, h)
  PROVE  Talks(e) /\ e.up \in Seq(Hash \cup {BasicInfo})
<1> DEFINE s == c.up
           t == Append(s, h)
<1>1. s \in Seq(Hash \cup {BasicInfo}) /\ t \in Seq(Hash \cup {BasicInfo})
  BY AppendProperties DEF Connection
<1>2. s \in Seq(Hash) => t \in Seq(Hash)
  BY AppendProperties
<1>3. Tail(t) = IF s = <<>> THEN <<>> ELSE Append(Tail(s), h)
  BY <1>1, HeadTailAppend
<1>4. (s # <<>> => Tail(s) \in Seq(Hash)) => Tail(t) \in Seq(Hash)
  <2>1. CASE s = <<>>
    BY <1>3, <2>1, EmptySeq
  <2>2. CASE s # <<>>
    <3>1. Tail(t) = Append(Tail(s), h)
      BY <1>3, <2>2
    <3>2. \A u : u \in Seq(Hash) => Append(u, h) \in Seq(Hash)
      BY AppendProperties
    <3> HIDE DEF s, t
    <3> QED BY <2>2, <3>1, <3>2, Zenon
  <2> QED BY <2>1, <2>2
<1>5. e.up = t /\ c.up = s
  OBVIOUS
<1> HIDE DEF s, t
<1> QED BY <1>1, <1>2, <1>4, <1>5 DEF Talks

(* What is applied is served and, unless the save fails, on disk. *)
LEMMA ApplyStep ==
  ASSUME ClusterInv, NEW d \in DataPlanes, Apply(d)
  PROVE  ClusterInv'
<1> DEFINE k == dp[d].link
           p == Incoming(d)
           c == [conn[k] EXCEPT !.down = Tail(conn[k].down),
                                !.up = IF conn[k].open THEN Append(conn[k].up, p) ELSE conn[k].up]
<1>1. p # None
  BY DEF Apply
<1>2. /\ dp[d].phase = "linked" /\ p = Head(conn[k].down) /\ p \in Config
      /\ conn[k].down # <<>> /\ Tail(conn[k].down) \in Seq(Config)
  BY <1>1, IncomingFacts
<1>3. /\ k \in Connections /\ conn[k] \in Connection /\ conn[k].node = d
      /\ conn[k].phase # "unused" /\ conn[k].rx <= Len(cp.log) /\ Talks(conn[k])
      /\ InStep(conn[k], dp[d].hash) /\ dp[d] \in Process /\ Durable(dp[d])
  BY <1>2, LinkedFacts
<1>4. p \in Hash /\ p # None /\ p # Corrupt
  BY <1>2, Constants DEF Hash
<1>5. Append(conn[k].up, p) \in Seq(Hash \cup {BasicInfo})
  BY <1>3, <1>4, AppendProperties DEF Connection
<1>6. /\ c \in Connection /\ c.node = d /\ c.phase = conn[k].phase /\ c.rx = conn[k].rx
      /\ c.open = conn[k].open /\ c.down = Tail(conn[k].down)
      /\ c.up = IF conn[k].open THEN Append(conn[k].up, p) ELSE conn[k].up
  BY <1>2, <1>3, <1>5 DEF Connection
<1>7. conn' = [conn EXCEPT ![k] = c]
  BY <1>3 DEF Apply, ClusterInv, TypeOK
<1>8. \E x \in Process : /\ dp' = [dp EXCEPT ![d] = x] /\ Durable(x) /\ x.hash = p
                         /\ x.phase = "linked" /\ x.link = k
  <2>1. CASE dp' = [dp EXCEPT ![d] = Applied(@, p)]
    <3> DEFINE x == Applied(dp[d], p)
    <3>1. x \in Process /\ Durable(x) /\ x.hash = p /\ x.phase = "linked" /\ x.link = k
      BY <1>2, <1>3, <1>4 DEF Applied, Process, Durable
    <3> QED BY <2>1, <3>1
  <2>2. CASE dp' = [dp EXCEPT ![d] = AppliedUnsaved(@, p)]
    <3> DEFINE x == AppliedUnsaved(dp[d], p)
    <3>1. x \in Process /\ Durable(x) /\ x.hash = p /\ x.phase = "linked" /\ x.link = k
      BY <1>2, <1>3, <1>4 DEF AppliedUnsaved, Process, Durable
    <3> QED BY <2>2, <3>1
  <2> QED BY <2>1, <2>2 DEF Apply
<1>9. PICK x \in Process : /\ dp' = [dp EXCEPT ![d] = x] /\ Durable(x) /\ x.hash = p
                           /\ x.phase = "linked" /\ x.link = k
  BY <1>8
<1>10. UNCHANGED <<db, signal, job, cp, peers>> /\ budget' \in [changes : Nat, faults : Nat]
  <2>1. TypeOK
    BY DEF ClusterInv
  <2> QED BY <2>1, FaultType DEF Apply, TypeOK
<1> HIDE DEF k, p, c
<1>11. Talks(c)
  <2>1. CASE conn[k].open
    BY <1>3, <1>4, <1>6, <2>1, TalksMore
  <2>2. CASE ~conn[k].open
    BY <1>3, <1>6, <2>2 DEF Talks
  <2> QED BY <2>1, <2>2
<1>12. InStep(c, x.hash)
  BY <1>2, <1>3, <1>6, <1>9, ReadInStep
<1>13. Acts(d, x, k, c)
  BY <1>3, <1>6, <1>7, <1>9, <1>10, <1>11, <1>12 DEF Acts
<1> QED BY <1>3, <1>13, ActsStep

(* A step on the linked connection of d that keeps what is down there and who *)
(* handles it, and does not open it.                                          *)
LEMMA LinkStep ==
  ASSUME ClusterInv, NEW d \in DataPlanes, dp[d].phase = "linked", NEW c \in Connection,
         conn' = [conn EXCEPT ![dp[d].link] = c],
         c.node = d, c.phase = conn[dp[d].link].phase, c.rx = conn[dp[d].link].rx,
         c.down = conn[dp[d].link].down, c.open => conn[dp[d].link].open, Talks(c),
         UNCHANGED <<db, signal, job, cp, peers, dp, budget>>
  PROVE  ClusterInv'
<1> DEFINE k == dp[d].link
<1>1. /\ k \in Connections /\ conn[k] \in Connection /\ conn[k].node = d
      /\ conn[k].phase # "unused" /\ conn[k].rx <= Len(cp.log)
      /\ InStep(conn[k], dp[d].hash)
      /\ \A e \in DataPlanes : dp[e].phase = "linked" /\ dp[e].link = k => e = d
  BY LinkedFacts
<1>2. /\ conn' = [conn EXCEPT ![k] = c]
      /\ c.phase = conn[k].phase /\ c.rx = conn[k].rx
      /\ c.down = conn[k].down /\ (c.open => conn[k].open)
  OBVIOUS
<1> HIDE DEF k
<1>3. Moves(k, c)
  BY <1>1, <1>2 DEF Moves
<1>4. InStep(c, dp[d].hash)
  BY <1>1, <1>2 DEF InStep
<1>5. ListedInv'
  BY <1>1, <1>2, <1>3, GoesOnListed DEF HandlerLive
<1>6. peers' \in [DataPlanes -> [hash : Hash, status : {"normal", "unknown"}] \cup {None}]
  BY DEF ClusterInv, TypeOK
<1> QED BY <1>1, <1>3, <1>4, <1>5, <1>6, MoveStep DEF ClusterInv

(* The periodic ping. *)
LEMMA PingStep ==
  ASSUME ClusterInv, NEW d \in DataPlanes, Ping(d)
  PROVE  ClusterInv'
<1> DEFINE k == dp[d].link
           c == [conn[k] EXCEPT !.up = <<dp[d].hash>>]
<1>1. dp[d].phase = "linked" /\ conn[k].open /\ conn[k].up = <<>>
  BY DEF Ping, Linked
<1>2. /\ k \in Connections /\ conn[k] \in Connection /\ conn[k].node = d
      /\ Talks(conn[k]) /\ dp[d] \in Process
  BY <1>1, LinkedFacts
<1>3. dp[d].hash \in Hash
  BY <1>2 DEF Process
<1>4. <<dp[d].hash>> \in Seq(Hash \cup {BasicInfo}) /\ <<dp[d].hash>> \in Seq(Hash)
        /\ Tail(<<dp[d].hash>>) \in Seq(Hash)
  BY <1>3, EmptySeq
<1>5. /\ c \in Connection /\ c.node = d /\ c.phase = conn[k].phase /\ c.rx = conn[k].rx
      /\ c.down = conn[k].down /\ c.open = conn[k].open /\ c.up = <<dp[d].hash>>
  BY <1>2, <1>4 DEF Connection
<1>6. conn' = [conn EXCEPT ![k] = c] /\ UNCHANGED <<db, signal, job, cp, peers, dp, budget>>
  BY DEF Ping
<1> HIDE DEF c
<1>7. Talks(c)
  BY <1>2, <1>4, <1>5 DEF Talks
<1> QED BY <1>1, <1>5, <1>6, <1>7, LinkStep

(* A cut connection carries nothing up any more, or what had already arrived. *)
LEMMA CutStep ==
  ASSUME ClusterInv, NEW d \in DataPlanes, Cut(d)
  PROVE  ClusterInv'
<1> DEFINE k == dp[d].link
<1>1. PICK arrived \in {conn[k].up, <<>>} :
        conn' = [conn EXCEPT ![k].open = FALSE, ![k].up = arrived]
  BY DEF Cut
<1> DEFINE c == [conn[k] EXCEPT !.open = FALSE, !.up = arrived]
<1>2. dp[d].phase = "linked"
  BY DEF Cut, Linked
<1>3. /\ k \in Connections /\ conn[k] \in Connection /\ conn[k].node = d
      /\ Talks(conn[k])
  BY <1>2, LinkedFacts
<1>4. arrived \in Seq(Hash \cup {BasicInfo})
  BY <1>3, EmptySeq DEF Connection
<1>5. /\ c \in Connection /\ c.node = d /\ c.phase = conn[k].phase /\ c.rx = conn[k].rx
      /\ c.down = conn[k].down /\ ~c.open /\ c.up = arrived
  BY <1>3, <1>4 DEF Connection
<1>6. conn' = [conn EXCEPT ![k] = c]
  BY <1>1, <1>3 DEF ClusterInv, TypeOK
<1>7. UNCHANGED <<db, signal, job, cp, peers, dp, budget>>
  BY DEF Cut
<1> HIDE DEF c
<1>8. Talks(c)
  BY <1>3, <1>5, EmptySeq DEF Talks
<1> QED BY <1>2, <1>5, <1>6, <1>7, <1>8, LinkStep

(* The connection a process leaves behind, if it has one. *)
LEMMA LeaveStep ==
  ASSUME ClusterInv, NEW d \in DataPlanes, NEW x \in Process, dp' = [dp EXCEPT ![d] = x],
         Durable(x), x.phase # "linked", x.link = 0, conn' = Drop(dp[d].link),
         UNCHANGED <<db, signal, job, cp, peers, budget>>
  PROVE  ClusterInv'
<1>1. CASE dp[d].phase # "linked"
  <2>1. dp[d].link = 0
    BY <1>1 DEF ClusterInv, LinkInv
  <2> QED BY <2>1, ProcessStep DEF Drop
<1>2. CASE dp[d].phase = "linked"
  <2> DEFINE k == dp[d].link
             c == [conn[k] EXCEPT !.open = FALSE, !.down = <<>>]
  <2>1. /\ k \in Connections /\ conn[k] \in Connection /\ conn[k].node = d
        /\ conn[k].phase # "unused" /\ conn[k].rx <= Len(cp.log) /\ Talks(conn[k])
    BY <1>2, LinkedFacts
  <2>2. k # 0
    BY <2>1 DEF Connections
  <2>3. conn' = [conn EXCEPT ![k] = c]
    BY <2>1, <2>2 DEF Drop, ClusterInv, TypeOK
  <2>4. /\ c \in Connection /\ c.node = d /\ c.phase = conn[k].phase /\ c.rx = conn[k].rx
        /\ c.up = conn[k].up
    BY <2>1, EmptySeq DEF Connection
  <2>5. budget' \in [changes : Nat, faults : Nat]
    BY DEF ClusterInv, TypeOK
  <2> HIDE DEF k, c
  <2>6. Acts(d, x, k, c)
    BY <2>1, <2>3, <2>4, <2>5 DEF Acts, Talks
  <2> QED BY <2>1, <2>6, ActsStep
<1> QED BY <1>1, <1>2

(* A lost connection is left. *)
LEMMA DisconnectStep ==
  ASSUME ClusterInv, NEW d \in DataPlanes, Disconnect(d)
  PROVE  ClusterInv'
<1> DEFINE x == [dp[d] EXCEPT !.phase = "idle", !.link = 0]
<1>1. dp[d] \in Process /\ Durable(dp[d]) /\ dp[d].phase = "linked"
  BY DEF ClusterInv, TypeOK, DiskInv, Disconnect
<1>2. x \in Process /\ Durable(x) /\ x.phase # "linked" /\ x.link = 0
  BY <1>1 DEF Process, Durable
<1>3. dp' = [dp EXCEPT ![d] = x] /\ conn' = Drop(dp[d].link)
  BY DEF Disconnect, ClusterInv, TypeOK
<1>4. UNCHANGED <<db, signal, job, cp, peers, budget>>
  BY DEF Disconnect
<1> HIDE DEF x
<1> QED BY <1>1, <1>2, <1>3, <1>4, LeaveStep

(* A crash leaves the file as it was or as it was to be, never half of it. *)
LEMMA CrashStep ==
  ASSUME ClusterInv, NEW d \in DataPlanes, Crash(d)
  PROVE  ClusterInv'
<1>1. PICK file \in IF Incoming(d) \in {None, dp[d].hash} THEN {dp[d].disk}
                    ELSE CrashedSave(dp[d].disk, Incoming(d)) :
        dp' = [dp EXCEPT ![d] = Stopped(file, @.saved \/ file # @.disk)]
  BY DEF Crash
<1> DEFINE x == Stopped(file, dp[d].saved \/ file # dp[d].disk)
<1>2. dp[d] \in Process /\ Durable(dp[d])
  BY DEF ClusterInv, TypeOK, DiskInv
<1>3. file = dp[d].disk \/ (file \in Config /\ file # None)
  <2>1. CASE Incoming(d) \in {None, dp[d].hash}
    BY <1>1, <2>1
  <2>2. CASE Incoming(d) \notin {None, dp[d].hash}
    BY <1>1, <2>2, IncomingFacts DEF CrashedSave
  <2> QED BY <2>1, <2>2
<1>4. file \in Hash /\ file # Corrupt
  BY <1>2, <1>3, Constants DEF Process, Durable, Hash
<1>5. x \in Process /\ Durable(x) /\ x.phase # "linked" /\ x.link = 0
  BY <1>2, <1>3, <1>4 DEF Stopped, Process, Durable, Hash
<1>6. dp' = [dp EXCEPT ![d] = x] /\ conn' = Drop(dp[d].link)
  BY <1>1 DEF Crash
<1>7. UNCHANGED <<db, signal, job, cp, peers, budget>>
  BY DEF Crash
<1> HIDE DEF x
<1> QED BY <1>2, <1>5, <1>6, <1>7, LeaveStep

-----------------------------------------------------------------------------
(* The theorems *)

(* Every step keeps the invariant. *)
LEMMA NextHolds == ClusterInv /\ [Next]_vars => ClusterInv'
<1> SUFFICES ASSUME ClusterInv, [Next]_vars PROVE ClusterInv'
  OBVIOUS
<1>1. ASSUME NEW t \in Tables, NEW c \in Contents, AdminChange(t, c) PROVE ClusterInv'
  BY <1>1, AdminChangeStep
<1>2. CASE Collect \/ ExportTable \/ WriteHash \/ WritePayload \/ Broadcast
  BY <1>2, CollectStep, ExportTableStep, WriteHashStep, WritePayloadStep, BroadcastStep
<1>3. ASSUME NEW k \in Connections, Handler(k) PROVE ClusterInv'
  BY <1>3, HandlerStep
<1>4. CASE RestartControlPlane
  BY <1>4, RestartStep
<1>5. ASSUME NEW d \in DataPlanes,
             Purge(d) \/ Boot(d) \/ Connect(d) \/ Skip(d) \/ Apply(d) \/ Ping(d) \/ Disconnect(d) \/ Cut(d) \/ Crash(d)
      PROVE  ClusterInv'
  BY <1>5, PurgeStep, BootStep, ConnectStep, SkipStep, ApplyStep, PingStep, DisconnectStep, CutStep, CrashStep
<1>6. CASE UNCHANGED vars
  <2>1. UNCHANGED <<db, signal, job, cp, peers, conn, dp, budget>>
    BY <1>6 DEF vars
  <2>2. TypeOK' /\ PushInv'
    BY <2>1 DEF ClusterInv, TypeOK, PushInv
  <2>3. StreamInv'
    BY <2>1 DEF ClusterInv, StreamInv, Linked
  <2> QED BY <2>1, <2>2, <2>3, FleetUnchanged DEF ClusterInv
<1> QED BY <1>1, <1>2, <1>3, <1>4, <1>5, <1>6 DEF Next

(* The cluster never leaves its invariant, whatever is lost, crashes or restarts. *)
THEOREM ClusterInvariant == Spec => []ClusterInv
<1> QED BY InitHolds, NextHolds, PTL DEF Spec

(* The variables keep their types; what a ping reports is always a hash, never the *)
(* first message of a data plane (handle_dp_connection).                           *)
THEOREM ClusterTypeCorrect == Spec => []TypeOK
<1>1. ClusterInv => TypeOK
  BY DEF ClusterInv
<1> QED BY <1>1, ClusterInvariant, PTL

(* A data plane that has once saved a configuration serves one whenever it runs, *)
(* wherever it crashed, and no node is listed without a running handler.         *)
THEOREM ServesForever == Spec => []KeepsServing
<1>1. ClusterInv => KeepsServing
  BY DEF ClusterInv, KeepsServing, DiskInv, Durable, ListedInv
<1> QED BY <1>1, ClusterInvariant, PTL

(* The last element of what is applied, on its way down and still in the channel. *)
LEMMA LastOfStream ==
  ASSUME NEW S, NEW h \in S, NEW s \in Seq(S), NEW log \in Seq(S), NEW rx \in Nat, rx <= Len(log)
  PROVE  Last(<<h>> \o s \o SubSeq(log, rx + 1, Len(log))) =
           IF rx < Len(log) THEN log[Len(log)] ELSE IF s # <<>> THEN s[Len(s)] ELSE h
<1> DEFINE a == <<h>>
           b == a \o s
           t == SubSeq(log, rx + 1, Len(log))
<1>1. a \in Seq(S) /\ Len(a) = 1 /\ a[1] = h
  OBVIOUS
<1>2. Len(s) \in Nat /\ Len(log) \in Nat /\ (s = <<>> <=> Len(s) = 0)
  BY EmptySeq, LenProperties
<1> HIDE DEF a
<1>3. b \in Seq(S) /\ Len(b) = Len(a) + Len(s)
        /\ \A i \in 1..(Len(a) + Len(s)) : b[i] = IF i <= Len(a) THEN a[i] ELSE s[i - Len(a)]
  BY <1>1, ConcatProperties
<1>4. \A i \in (rx + 1)..Len(log) : log[i] \in S
  BY <1>2, ElementOfSeq
<1>5. t \in Seq(S) /\ Len(t) = (IF rx + 1 <= Len(log) THEN Len(log) - rx ELSE 0)
        /\ \A i \in 1..(Len(log) - rx) : t[i] = log[rx + i]
  BY <1>2, <1>4, SubSeqProperties
<1> HIDE DEF b, t
<1>6a. Len(b \o t) = Len(b) + Len(t)
        /\ \A i \in 1..(Len(b) + Len(t)) : (b \o t)[i] = IF i <= Len(b) THEN b[i] ELSE t[i - Len(b)]
  <2>1. b \in Seq(S) /\ t \in Seq(S)
    BY <1>3, <1>5
  <2> QED BY ONLY <2>1, ConcatProperties
<1> DEFINE w == b \o t
<1>6. Len(w) = Len(b) + Len(t)
        /\ \A i \in 1..(Len(b) + Len(t)) : w[i] = IF i <= Len(b) THEN b[i] ELSE t[i - Len(b)]
  BY ONLY <1>6a, Zenon
<1> HIDE DEF w
<1>7. Last(w) = w[Len(b) + Len(t)]
  BY <1>6 DEF Last
<1>8. Last(w) = IF Len(t) = 0 THEN b[Len(b)] ELSE t[Len(t)]
  <2>1. Len(b) \in Nat \ {0} /\ Len(t) \in Nat
    BY <1>1, <1>2, <1>3, <1>5
  <2>2. Len(b) + Len(t) \in 1..(Len(b) + Len(t))
    BY <2>1
  <2>3. Last(w) = IF Len(b) + Len(t) <= Len(b) THEN b[Len(b) + Len(t)] ELSE t[Len(b) + Len(t) - Len(b)]
    BY <1>6, <1>7, <2>2
  <2> QED BY <2>1, <2>3
<1>9. b[Len(b)] = IF s # <<>> THEN s[Len(s)] ELSE h
  BY <1>1, <1>2, <1>3
<1>10. Len(t) # 0 => rx < Len(log) /\ t[Len(t)] = log[Len(log)]
  BY <1>2, <1>5
<1>11. Len(t) = 0 => ~(rx < Len(log))
  BY <1>2, <1>5
<1>12. Last(w) = IF rx < Len(log) THEN log[Len(log)] ELSE IF s # <<>> THEN s[Len(s)] ELSE h
  BY <1>8, <1>9, <1>10, <1>11
<1> QED BY <1>12 DEF w, b, t, a

(* Neither the debounce nor the interleaving of subscription, current payload and *)
(* broadcast loses a push (run_cache_refresher, push_config, register_dp).        *)
THEOREM NoPushLost == Spec => []SettledExport
<1>1. ClusterInv => SettledExport
  <2> SUFFICES ASSUME ClusterInv PROVE SettledExport
    OBVIOUS
  <2>1. job.pc = "idle" /\ ~signal /\ job.clean =>
          cp.hash = cp.payload /\ \A t \in Tables \ SilentTables : cp.payload[t] = db[t]
    BY DEF ClusterInv, PushInv
  <2>2. ASSUME NEW d \in DataPlanes, Linked(d), conn[dp[d].link].phase = "loop",
               cp.payload # None, job.pc # "send"
        PROVE  Last(<<dp[d].hash>> \o conn[dp[d].link].down
                     \o SubSeq(cp.log, conn[dp[d].link].rx + 1, Len(cp.log))) = cp.payload
    <3> DEFINE c == conn[dp[d].link]
    <3>1. /\ c \in Connection /\ dp[d] \in Process /\ c.rx <= Len(cp.log) /\ InStep(c, dp[d].hash)
          /\ c.open /\ c.phase = "loop"
      BY <2>2, LinkedFacts DEF Linked
    <3>2. dp[d].hash \in Hash /\ c.down \in Seq(Config) /\ c.rx \in Nat /\ cp.log \in Seq(Config)
      BY <3>1 DEF Connection, Process, ClusterInv, TypeOK
    <3>3. c.down \in Seq(Hash) /\ cp.log \in Seq(Hash) /\ Len(cp.log) \in Nat
            /\ (cp.log = <<>> => Len(cp.log) = 0)
      BY <3>2, SeqMonotonic, LenProperties, EmptySeq DEF Hash
    <3>4. cp.log # <<>> => cp.log[Len(cp.log)] = cp.payload
      BY <2>2 DEF ClusterInv, PushInv
    <3> HIDE DEF c
    <3> DEFINE v == Last(<<dp[d].hash>> \o c.down \o SubSeq(cp.log, c.rx + 1, Len(cp.log)))
    <3>5. v = IF c.rx < Len(cp.log) THEN cp.log[Len(cp.log)]
              ELSE IF c.down # <<>> THEN c.down[Len(c.down)] ELSE dp[d].hash
      BY <3>1, <3>2, <3>3, LastOfStream
    <3> HIDE DEF v
    <3>6. c.rx < Len(cp.log) => v = cp.payload
      BY <3>2, <3>3, <3>4, <3>5
    <3>7. ~(c.rx < Len(cp.log)) => v = cp.payload
      <4>1. ~(c.rx < Len(cp.log)) => c.rx = Len(cp.log)
        BY <3>1, <3>2, <3>3
      <4> QED BY <2>2, <3>1, <3>5, <4>1 DEF InStep
    <3>8. v = cp.payload
      BY <3>6, <3>7
    <3> QED BY <3>8 DEF v, c
  <2> QED BY <2>1, <2>2 DEF SettledExport
<1> QED BY <1>1, ClusterInvariant, PTL
=============================================================================
