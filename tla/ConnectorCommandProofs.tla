----------------------- MODULE ConnectorCommandProofs -----------------------
(***************************************************************************)
(* The invariant of connector commands, kept by every action of            *)
(* ConnectorCommand, and the step of the ledger that each action is.  The  *)
(* modules that compose commands with what they are for build on these.    *)
(***************************************************************************)
EXTENDS ConnectorCommand, FiniteSetTheorems, TLAPS

\* What the log says comes in the order of the work.
OrderedLog(k) ==
    \A i \in DOMAIN command[k].events :
        /\ command[k].events[i] = "DATA_BATCH"
           => Recorded(k, i - 1, {"COMMAND_STARTED", "DATA_BATCH"})
        /\ command[k].events[i] = "COMMAND_COMPLETED" => Recorded(k, i - 1, {"DATA_BATCH"})

\* Only a confirmed command waits in the queue.
RowInv(k) ==
    Exists(k) =>
        /\ command[k].state = "QUEUED" => command[k].confirmation = "APPROVED"
        /\ OrderedLog(k)
        /\ command[k].authEpoch <= Episodes(command[k].events)

\* A call knows its key, and works on a command that exists once it has issued it.
RequestInv(u) ==
    /\ request[u].pc \in RequestSteps \ {"free", "failed"} => request[u].key \in Keys
    /\ request[u].pc \in {"first", "issued", "approve", "write", "accept"}
       => Exists(request[u].key)

RetryInv(k) == retry[k] # NoRetry => Exists(k)

\* An event comes from the device that holds the command, at the place in the log
\* that the device had reached.
PostInv(c) ==
    post[c].pc # "free" =>
        /\ post[c].key \in Keys
        /\ Exists(post[c].key)
        /\ command[post[c].key].device # NoDevice
        /\ post[c].type \in DeviceEvents
        /\ post[c].type = "DATA_BATCH"
           => Recorded(post[c].key, post[c].seq, {"COMMAND_STARTED", "DATA_BATCH"})
        /\ post[c].type = "COMMAND_COMPLETED"
           => Recorded(post[c].key, post[c].seq, {"DATA_BATCH"})

\* Between its statements, the handler holds the epoch that it read before the append.
HandlerInv(c) ==
    /\ post[c].pc \in {"append", "update"} => post[c].authEpoch <= Episodes(command[post[c].key].events)
    /\ post[c].pc = "update" =>
          /\ post[c].type \in DOMAIN NextState
          /\ Recorded(post[c].key, post[c].seq + 1, {post[c].type})
          /\ post[c].type = "AUTH_REQUIRED" => post[c].authEpoch + 1 <= Episodes(command[post[c].key].events)

\* The extension works on a command that it holds, and what it believes to have
\* been recorded last was recorded there.
ExtensionInv(d) ==
    /\ ext[d].at # "idle" => ext[d].key \in Keys /\ Exists(ext[d].key)
    /\ ext[d].at \in Working => command[ext[d].key].device = d
    /\ ext[d].at = "dispatched" /\ ext[d].last # NoEventType
       => Recorded(ext[d].key, ext[d].next, {ext[d].last})
    /\ ext[d].at = "execute"
       => Recorded(ext[d].key, ext[d].next, {"COMMAND_STARTED", "DATA_BATCH"})
    /\ ext[d].at = "complete" => Recorded(ext[d].key, ext[d].next, {"DATA_BATCH"})

\* It waits for the answer to one event, which is its own.
CallInv(d) ==
    /\ ext[d].at = "waiting" <=> ext[d].call # NoPost
    /\ ext[d].at = "waiting" =>
          /\ post[ext[d].call].pc # "free"
          /\ post[ext[d].call].key = ext[d].key
          /\ post[ext[d].call].seq = ext[d].next

CommandInv ==
    /\ CommandTypeOK
    /\ \A k \in Keys : RowInv(k) /\ RetryInv(k)
    /\ \A u \in Requests : RequestInv(u)
    /\ \A c \in Posts : PostInv(c) /\ HandlerInv(c)
    /\ \A d \in Devices : ExtensionInv(d) /\ CallInv(d)

\* A step loses nothing of a command: it goes on to exist, with its device and
\* what was recorded of it.
Grown(k) ==
    Exists(k) =>
        /\ command'[k] # NoCommand
        /\ command[k].device # NoDevice => command'[k].device = command[k].device
        /\ \A n \in DOMAIN command[k].events :
              n \in DOMAIN command'[k].events /\ command'[k].events[n] = command[k].events[n]
        /\ Episodes(command[k].events) <= Episodes(command'[k].events)

Grow == \A k \in Keys : Grown(k)

-----------------------------------------------------------------------------
(* Rows and logs.                                                           *)

\* A row that exists has all its fields.
LEMMA RowType ==
    ASSUME CommandTypeOK, NEW k \in Keys, Exists(k)
    PROVE  command[k] \in Command
BY DEF CommandTypeOK, Exists

\* No row is taken for a missing one.
LEMMA RowExists ==
    ASSUME NEW row \in Command
    PROVE  row # NoCommand
BY DEF Command, NoCommand, States

\* An event adds one episode to the log when it asks for a login, and none otherwise.
LEMMA AppendEpisodes ==
    ASSUME NEW log \in Seq(EventTypes), NEW type \in EventTypes
    PROVE  /\ Episodes(log) \in Nat
           /\ Episodes(Append(log, type)) =
                 IF type = "AUTH_REQUIRED" THEN Episodes(log) + 1 ELSE Episodes(log)
<1> DEFINE in(l) == {i \in DOMAIN l : l[i] = "AUTH_REQUIRED"}
<1>1. /\ IsFiniteSet(1 .. Len(log))
      /\ in(log) \subseteq 1 .. Len(log)
      BY FS_Interval
<1>2. IsFiniteSet(in(log)) /\ Len(log) + 1 \notin in(log)
      BY <1>1, FS_Subset
<1>3. in(Append(log, type)) = IF type = "AUTH_REQUIRED" THEN in(log) \cup {Len(log) + 1} ELSE in(log)
  <2>1. /\ DOMAIN Append(log, type) = 1 .. Len(log) + 1
        /\ DOMAIN log = 1 .. Len(log)
        /\ \A i \in 1 .. Len(log) : Append(log, type)[i] = log[i]
        /\ Append(log, type)[Len(log) + 1] = type
        OBVIOUS
  <2> QED BY <2>1
<1>4. Cardinality(in(log)) \in Nat
      BY <1>2, FS_CardinalityType
<1>5. Cardinality(in(log) \cup {Len(log) + 1}) = Cardinality(in(log)) + 1
      BY <1>2, FS_AddElement
<1> QED BY <1>3, <1>4, <1>5 DEF Episodes

\* Replacing a row by one with the same device and log loses nothing.
LEMMA RowReplaced ==
    ASSUME CommandTypeOK, NEW k \in Keys, Exists(k), NEW row \in Command,
           command' = [command EXCEPT ![k] = row],
           command[k].device # NoDevice => row.device = command[k].device,
           row.events = command[k].events
    PROVE  command' \in [Keys -> Command \cup {NoCommand}] /\ Grow
<1>1. command' \in [Keys -> Command \cup {NoCommand}]
      BY DEF CommandTypeOK
<1>2. row # NoCommand
      BY RowExists
<1>3. \A j \in Keys : Exists(j) => Episodes(command[j].events) \in Nat
      BY RowType, AppendEpisodes DEF Command, EventTypes
<1>4. SUFFICES ASSUME NEW j \in Keys, Exists(j) PROVE Grown(j)
      BY <1>1 DEF Grow, Grown
<1>5. CASE j = k
      BY <1>2, <1>3, <1>5 DEF Grown, CommandTypeOK
<1>6. CASE j # k
      BY <1>3, <1>4, <1>6 DEF Grown, CommandTypeOK, Exists
<1> QED BY <1>5, <1>6

-----------------------------------------------------------------------------
(* What a step leaves alone keeps its invariant.                            *)

RowsTyped == command' \in [Keys -> Command \cup {NoCommand}]

LEMMA EpisodesNatural ==
    ASSUME CommandTypeOK, NEW k \in Keys, Exists(k)
    PROVE  Episodes(command[k].events) \in Nat
BY RowType, AppendEpisodes DEF Command, EventTypes

LEMMA EpisodesStayNatural ==
    ASSUME RowsTyped, NEW k \in Keys, command'[k] # NoCommand
    PROVE  Episodes(command'[k].events) \in Nat
<1>1. command'[k] \in Command
      BY DEF RowsTyped
<1>2. command'[k].events \in Seq(EventTypes)
      BY <1>1 DEF Command
<1> QED BY <1>2, AppendEpisodes DEF EventTypes

LEMMA RowKept ==
    ASSUME CommandInv, NEW k \in Keys, command'[k] = command[k]
    PROVE  RowInv(k)'
<1>1. RowInv(k)
      BY DEF CommandInv
<1> QED BY <1>1 DEF RowInv, OrderedLog, Recorded, Exists

LEMMA RequestKept ==
    ASSUME CommandInv, Grow, NEW u \in Requests, request'[u] = request[u]
    PROVE  RequestInv(u)'
BY DEF CommandInv, RequestInv, RequestSteps, Grow, Grown, Exists

LEMMA RetryKept ==
    ASSUME CommandInv, Grow, NEW k \in Keys, retry'[k] = retry[k]
    PROVE  RetryInv(k)'
BY DEF CommandInv, RetryInv, Grow, Grown, Exists

LEMMA PostKept ==
    ASSUME CommandInv, RowsTyped, Grow, NEW c \in Posts, post'[c] = post[c]
    PROVE  PostInv(c)' /\ HandlerInv(c)'
<1>1. CASE post[c].pc = "free"
      BY <1>1 DEF PostInv, HandlerInv
<1>2. CASE post[c].pc # "free"
  <2> DEFINE k == post[c].key
  <2>1. k \in Keys /\ Exists(k) /\ PostInv(c) /\ HandlerInv(c) /\ Grown(k)
        BY <1>2 DEF CommandInv, PostInv, Grow
  <2>2. /\ command'[k] # NoCommand
        /\ command[k].device # NoDevice => command'[k].device = command[k].device
        /\ \A n \in DOMAIN command[k].events :
              n \in DOMAIN command'[k].events /\ command'[k].events[n] = command[k].events[n]
        /\ Episodes(command[k].events) <= Episodes(command'[k].events)
        BY <2>1 DEF Grown
  <2>3. /\ Episodes(command[k].events) \in Nat
        /\ Episodes(command'[k].events) \in Nat
        /\ post[c].authEpoch \in Nat
        BY <2>1, <2>2, EpisodesNatural, EpisodesStayNatural DEF CommandInv, CommandTypeOK, Post
  <2>4. PostInv(c)'
        BY <1>2, <2>1, <2>2 DEF PostInv, Recorded, Exists
  <2>5. HandlerInv(c)'
        BY <2>1, <2>2, <2>3 DEF HandlerInv, Recorded
  <2> QED BY <2>4, <2>5
<1> QED BY <1>1, <1>2

LEMMA ExtensionKept ==
    ASSUME CommandInv, Grow, NEW d \in Devices, ext'[d] = ext[d]
    PROVE  ExtensionInv(d)'
<1>1. CASE ext[d].at = "idle"
      BY <1>1 DEF ExtensionInv, Working
<1>2. CASE ext[d].at # "idle"
  <2> DEFINE k == ext[d].key
  <2>1. k \in Keys /\ Exists(k) /\ ExtensionInv(d) /\ Grown(k)
        BY <1>2 DEF CommandInv, ExtensionInv, Grow
  <2>2. /\ command'[k] # NoCommand
        /\ command[k].device # NoDevice => command'[k].device = command[k].device
        /\ \A n \in DOMAIN command[k].events :
              n \in DOMAIN command'[k].events /\ command'[k].events[n] = command[k].events[n]
        BY <2>1 DEF Grown
  <2> QED BY <2>1, <2>2, DeviceAssumption DEF ExtensionInv, Recorded, Exists
<1> QED BY <1>1, <1>2

LEMMA CallKept ==
    ASSUME CommandInv, NEW d \in Devices, ext'[d] = ext[d],
           ext[d].at = "waiting" =>
              /\ post'[ext[d].call].pc # "free"
              /\ post'[ext[d].call].key = post[ext[d].call].key
              /\ post'[ext[d].call].seq = post[ext[d].call].seq
    PROVE  CallInv(d)'
BY DEF CommandInv, CallInv

\* What the answer to an event makes of the extension that waits for it.
LEMMA AnswerHeard ==
    ASSUME CommandInv, RowsTyped, Grow, NEW d \in Devices, NEW ok \in BOOLEAN,
           ext[d].at = "waiting",
           ext'[d] = Heard(ext[d], post[ext[d].call].type, ok),
           ok => /\ ext[d].next + 1 \in DOMAIN command'[ext[d].key].events
                 /\ command'[ext[d].key].events[ext[d].next + 1] = post[ext[d].call].type
    PROVE  ext'[d] \in Extension /\ ExtensionInv(d)' /\ CallInv(d)'
<1> DEFINE e == ext[d]
           p == post[ext[d].call]
           k == ext[d].key
<1>1. /\ e \in Extension
      /\ e.call \in Posts
      /\ p \in Post
      /\ p.key = k
      /\ p.seq = e.next
      /\ p.pc # "free"
      BY PostAssumption DEF CommandInv, CommandTypeOK, CallInv, Extension
<1>2. k \in Keys /\ Exists(k) /\ command[k].device = d /\ Grown(k)
      BY DEF CommandInv, ExtensionInv, Working, Grow
<1>3. command'[k] # NoCommand /\ command'[k].device = d
      BY <1>2, DeviceAssumption DEF Grown
<1>4. p.type \in DeviceEvents
      BY <1>1 DEF CommandInv, PostInv
<1>5. CASE ok /\ Following(p.type) # "idle"
  <2>1. /\ Following(p.type) \in {"execute", "complete", "auth", "mfa"}
        /\ Following(p.type) = "execute" => p.type = "COMMAND_STARTED"
        /\ Following(p.type) = "complete" => p.type = "DATA_BATCH"
        BY <1>4, <1>5 DEF Following, DeviceEvents
  <2>2. ext'[d] = [e EXCEPT !.at = Following(p.type), !.next = e.next + 1, !.call = NoPost]
        BY <1>5 DEF Heard
  <2>3. /\ ext'[d].at = Following(p.type)
        /\ ext'[d].key = k
        /\ ext'[d].next = e.next + 1
        /\ ext'[d].call = NoPost
        BY <1>1, <2>2 DEF Extension
  <2>4. ext'[d] \in Extension
    <3>1. Following(p.type) \in ExtensionSteps
          BY <2>1 DEF ExtensionSteps
    <3>2. e.next + 1 \in Nat
          BY <1>1 DEF Extension
    <3> QED BY <1>1, <2>2, <3>1, <3>2 DEF Extension
  <2>5. ExtensionInv(d)'
    <3>1. /\ ext[d].next + 1 \in DOMAIN command'[k].events
          /\ command'[k].events[ext[d].next + 1] = p.type
          BY <1>5
    <3>2. /\ ext'[d].at = "execute"
             => Recorded(ext[d].key, ext[d].next, {"COMMAND_STARTED", "DATA_BATCH"})'
          /\ ext'[d].at = "complete" => Recorded(ext[d].key, ext[d].next, {"DATA_BATCH"})'
          BY <2>1, <2>3, <3>1 DEF Recorded
    <3>3. /\ ext'[d].at # "dispatched"
          /\ Exists(ext[d].key)'
          /\ command'[ext'[d].key].device = d
          BY <1>3, <2>1, <2>3 DEF Exists
    <3> QED BY <1>2, <2>3, <3>2, <3>3 DEF ExtensionInv
  <2>6. CallInv(d)'
        BY <2>1, <2>3 DEF CallInv
  <2> QED BY <2>4, <2>5, <2>6
<1>6. CASE ~(ok /\ Following(p.type) # "idle") /\ (ok \/ p.type = "COMMAND_FAILED")
  <2>1. ext'[d] = Asleep
        BY <1>6 DEF Heard
  <2>2. ext'[d] \in Extension
        BY <2>1 DEF Asleep, Extension, ExtensionSteps
  <2>3. ExtensionInv(d)' /\ CallInv(d)'
        BY <2>1 DEF Asleep, ExtensionInv, CallInv, Working
  <2> QED BY <2>2, <2>3
<1>7. CASE ~ok /\ p.type # "COMMAND_FAILED"
  <2>1. ext'[d] = [e EXCEPT !.at = "fail", !.call = NoPost]
        BY <1>7 DEF Heard
  <2>2. ext'[d].at = "fail" /\ ext'[d].key = k /\ ext'[d].call = NoPost
        BY <1>1, <2>1 DEF Extension
  <2>3. ext'[d] \in Extension
        BY <1>1, <2>1 DEF Extension, ExtensionSteps
  <2>4. ExtensionInv(d)' /\ CallInv(d)'
        BY <1>2, <1>3, <2>2 DEF ExtensionInv, CallInv, Working, Exists
  <2> QED BY <2>3, <2>4
<1> QED BY <1>5, <1>6, <1>7

-----------------------------------------------------------------------------
(* The invariant after a step, by what the step changes.                    *)

LEMMA NothingLost ==
    ASSUME CommandInv, UNCHANGED command
    PROVE  RowsTyped /\ Grow /\ \A k \in Keys : RowInv(k)'
<1>1. CommandTypeOK
      BY DEF CommandInv
<1>2. RowsTyped
      BY <1>1 DEF CommandTypeOK, RowsTyped
<1>3. \A k \in Keys : RowInv(k)'
      BY RowKept
<1>4. ASSUME NEW k \in Keys, Exists(k) PROVE Grown(k)
  <2>1. Episodes(command[k].events) \in Nat
        BY <1>1, <1>4, EpisodesNatural
  <2> QED BY <1>4, <2>1 DEF Grown, Exists
<1> QED BY <1>2, <1>3, <1>4 DEF Grow, Grown

\* A step of the server-action call u.
LEMMA RequestStepKeeps ==
    ASSUME CommandInv, RowsTyped, Grow, \A k \in Keys : RowInv(k)',
           NEW u \in Requests, request' \in [Requests -> Request],
           \A v \in Requests \ {u} : request'[v] = request[v],
           RequestInv(u)', UNCHANGED <<post, retry, ext>>
    PROVE  CommandInv'
<1>1. CommandTypeOK'
      BY DEF CommandInv, CommandTypeOK, RowsTyped
<1>2. \A v \in Requests : RequestInv(v)'
      BY RequestKept
<1>3. \A k \in Keys : RetryInv(k)'
      BY RetryKept
<1>4. \A c \in Posts : PostInv(c)' /\ HandlerInv(c)'
      BY PostKept
<1>5. \A d \in Devices : ExtensionInv(d)'
      BY ExtensionKept
<1>6. \A d \in Devices : CallInv(d)'
      BY CallKept DEF CommandInv, CallInv
<1> QED BY <1>1, <1>2, <1>3, <1>4, <1>5, <1>6 DEF CommandInv

\* A step of the retry of k.
LEMMA RetryStepKeeps ==
    ASSUME CommandInv, RowsTyped, Grow, \A j \in Keys : RowInv(j)',
           NEW k \in Keys, retry' \in [Keys -> Nat],
           \A j \in Keys \ {k} : retry'[j] = retry[j],
           RetryInv(k)', UNCHANGED <<request, post, ext>>
    PROVE  CommandInv'
<1>1. CommandTypeOK'
      BY DEF CommandInv, CommandTypeOK, RowsTyped
<1>2. \A v \in Requests : RequestInv(v)'
      BY RequestKept
<1>3. \A j \in Keys : RetryInv(j)'
      BY RetryKept
<1>4. \A c \in Posts : PostInv(c)' /\ HandlerInv(c)'
      BY PostKept
<1>5. \A d \in Devices : ExtensionInv(d)'
      BY ExtensionKept
<1>6. \A d \in Devices : CallInv(d)'
      BY CallKept DEF CommandInv, CallInv
<1> QED BY <1>1, <1>2, <1>3, <1>4, <1>5, <1>6 DEF CommandInv

\* A step of the extension on d that involves no request.
LEMMA ExtensionStepKeeps ==
    ASSUME CommandInv, RowsTyped, Grow, \A j \in Keys : RowInv(j)',
           NEW d \in Devices, ext' \in [Devices -> Extension],
           \A f \in Devices \ {d} : ext'[f] = ext[f],
           ExtensionInv(d)', CallInv(d)', UNCHANGED <<request, post, retry>>
    PROVE  CommandInv'
<1>1. CommandTypeOK'
      BY DEF CommandInv, CommandTypeOK, RowsTyped
<1>2. \A v \in Requests : RequestInv(v)'
      BY RequestKept
<1>3. \A j \in Keys : RetryInv(j)'
      BY RetryKept
<1>4. \A c \in Posts : PostInv(c)' /\ HandlerInv(c)'
      BY PostKept
<1>5. \A f \in Devices : ExtensionInv(f)'
      BY ExtensionKept
<1>6. \A f \in Devices : CallInv(f)'
      BY CallKept DEF CommandInv, CallInv
<1> QED BY <1>1, <1>2, <1>3, <1>4, <1>5, <1>6 DEF CommandInv

\* A step inside the request c, which goes on.
LEMMA HandlerStepKeeps ==
    ASSUME CommandInv, RowsTyped, Grow, \A j \in Keys : RowInv(j)',
           NEW c \in Posts, post' \in [Posts -> Post],
           \A b \in Posts \ {c} : post'[b] = post[b],
           post'[c].pc # "free", post'[c].key = post[c].key, post'[c].seq = post[c].seq,
           PostInv(c)', HandlerInv(c)', UNCHANGED <<request, retry, ext>>
    PROVE  CommandInv'
<1>1. CommandTypeOK'
      BY DEF CommandInv, CommandTypeOK, RowsTyped
<1>2. \A v \in Requests : RequestInv(v)'
      BY RequestKept
<1>3. \A j \in Keys : RetryInv(j)'
      BY RetryKept
<1>4. \A b \in Posts : PostInv(b)' /\ HandlerInv(b)'
      BY PostKept
<1>5. \A f \in Devices : ExtensionInv(f)'
      BY ExtensionKept
<1>6. ASSUME NEW f \in Devices PROVE CallInv(f)'
  <2>1. CallInv(f) /\ ext[f].call \in Posts \cup {NoPost}
        BY DEF CommandInv, CommandTypeOK, Extension
  <2> QED BY <2>1, CallKept DEF CallInv
<1> QED BY <1>1, <1>2, <1>3, <1>4, <1>5, <1>6 DEF CommandInv

\* The request c ends, and is heard of.
LEMMA FinishKeeps ==
    ASSUME CommandInv, RowsTyped, Grow, \A j \in Keys : RowInv(j)',
           NEW c \in Posts, post[c].pc # "free", NEW ok \in BOOLEAN, Finish(c, ok),
           ok => /\ post[c].seq + 1 \in DOMAIN command'[post[c].key].events
                 /\ command'[post[c].key].events[post[c].seq + 1] = post[c].type,
           UNCHANGED <<request, retry>>
    PROVE  CommandInv'
<1>1. \A f \in Devices : ext'[f] =
         IF ext[f].call = c THEN Heard(ext[f], post[c].type, ok) ELSE ext[f]
      BY DEF Finish
<1>2. /\ post' \in [Posts -> Post]
      /\ post'[c] = FreePost
      /\ \A b \in Posts \ {c} : post'[b] = post[b]
  <2>1. FreePost \in Post
        BY DEF FreePost, Post, PostSteps, AuthStates
  <2> QED BY <2>1 DEF Finish, CommandInv, CommandTypeOK
<1>3. ASSUME NEW f \in Devices
      PROVE  ext'[f] \in Extension /\ ExtensionInv(f)' /\ CallInv(f)'
  <2>1. CallInv(f) /\ ext[f] \in Extension /\ ext[f].call \in Posts \cup {NoPost}
        BY DEF CommandInv, CommandTypeOK, Extension
  <2>2. CASE ext[f].call = c
    <3>1. ext[f].at = "waiting" /\ post[c].key = ext[f].key /\ post[c].seq = ext[f].next
          BY <2>1, <2>2, PostAssumption DEF CallInv
    <3>2. ext'[f] = Heard(ext[f], post[ext[f].call].type, ok)
          BY <1>1, <2>2
    <3>3. ok => /\ ext[f].next + 1 \in DOMAIN command'[ext[f].key].events
                /\ command'[ext[f].key].events[ext[f].next + 1] = post[ext[f].call].type
          BY <2>2, <3>1
    <3> QED BY <3>1, <3>2, <3>3, AnswerHeard
  <2>3. CASE ext[f].call # c
    <3>1. ext'[f] = ext[f]
          BY <1>1, <2>3
    <3>2. ext[f].at = "waiting" => post'[ext[f].call] = post[ext[f].call]
          BY <1>2, <2>1, <2>3 DEF CallInv
    <3> QED BY <2>1, <3>1, <3>2, ExtensionKept, CallKept DEF CallInv
  <2> QED BY <2>2, <2>3
<1>4. ext' \in [Devices -> Extension]
      BY <1>3 DEF Finish
<1>5. CommandTypeOK'
      BY <1>2, <1>4 DEF CommandInv, CommandTypeOK, RowsTyped
<1>6. \A b \in Posts : PostInv(b)' /\ HandlerInv(b)'
  <2>1. PostInv(c)' /\ HandlerInv(c)'
        BY <1>2 DEF FreePost, PostInv, HandlerInv
  <2> QED BY <1>2, <2>1, PostKept
<1>7. \A v \in Requests : RequestInv(v)'
      BY RequestKept
<1>8. \A j \in Keys : RetryInv(j)'
      BY RetryKept
<1> QED BY <1>3, <1>5, <1>6, <1>7, <1>8 DEF CommandInv

\* The extension posts an event, at the place that it has reached.
LEMMA PostingKeeps ==
    ASSUME CommandInv, NEW d \in Devices, NEW type \in DeviceEvents, Posting(d, type),
           ext[d].at \in Working,
           type = "DATA_BATCH"
           => Recorded(ext[d].key, ext[d].next, {"COMMAND_STARTED", "DATA_BATCH"}),
           type = "COMMAND_COMPLETED" => Recorded(ext[d].key, ext[d].next, {"DATA_BATCH"})
    PROVE  CommandInv'
<1>1. PICK c \in Posts :
         /\ post[c].pc = "free"
         /\ post' = [post EXCEPT ![c] = NewPost(ext[d].key, type, ext[d].next)]
         /\ ext' = [ext EXCEPT ![d].at = "waiting", ![d].call = c]
      BY DEF Posting
<1>2. UNCHANGED <<command, request, retry>>
      BY DEF Posting
<1>3. RowsTyped /\ Grow /\ \A j \in Keys : RowInv(j)'
      BY <1>2, NothingLost
<1>4. /\ ext[d] \in Extension
      /\ ext[d].key \in Keys
      /\ Exists(ext[d].key)
      /\ command[ext[d].key].device = d
      BY DEF CommandInv, CommandTypeOK, ExtensionInv, Working
<1>5. /\ NewPost(ext[d].key, type, ext[d].next) \in Post
      /\ post'[c] = NewPost(ext[d].key, type, ext[d].next)
      /\ post'[c].pc \in {"effect", "read"}
      /\ post'[c].key = ext[d].key
      /\ post'[c].type = type
      /\ post'[c].seq = ext[d].next
      /\ \A b \in Posts \ {c} : post'[b] = post[b]
  <2>1. /\ post \in [Posts -> Post]
        /\ ext[d].next \in Nat
        BY <1>4 DEF CommandInv, CommandTypeOK, Extension
  <2>2. /\ NewPost(ext[d].key, type, ext[d].next).pc \in {"effect", "read"}
        /\ NewPost(ext[d].key, type, ext[d].next).key = ext[d].key
        /\ NewPost(ext[d].key, type, ext[d].next).type = type
        /\ NewPost(ext[d].key, type, ext[d].next).seq = ext[d].next
        BY DEF NewPost, FreePost
  <2>3. NewPost(ext[d].key, type, ext[d].next) \in Post
    <3>1. type \in EventTypes
          BY DEF DeviceEvents, EventTypes
    <3>2. FreePost \in Post /\ {"effect", "read"} \subseteq PostSteps
          BY DEF FreePost, Post, PostSteps, AuthStates
    <3> QED BY <1>4, <2>1, <3>1, <3>2 DEF NewPost, Post
  <2> QED BY <1>1, <2>1, <2>2, <2>3
<1>6. post' \in [Posts -> Post]
      BY <1>1, <1>5 DEF CommandInv, CommandTypeOK
<1>7. /\ ext' \in [Devices -> Extension]
      /\ ext'[d].at = "waiting"
      /\ ext'[d].call = c
      /\ ext'[d].key = ext[d].key
      /\ ext'[d].next = ext[d].next
      /\ \A f \in Devices \ {d} : ext'[f] = ext[f]
  <2>1. ext \in [Devices -> Extension]
        BY DEF CommandInv, CommandTypeOK
  <2>2. [ext[d] EXCEPT !.at = "waiting", !.call = c] \in Extension
        BY <1>4 DEF Extension, ExtensionSteps
  <2> QED BY <1>1, <2>1, <2>2 DEF Extension
<1>8. CommandTypeOK'
      BY <1>2, <1>6, <1>7 DEF CommandInv, CommandTypeOK
<1>9. PostInv(c)' /\ HandlerInv(c)'
      BY <1>2, <1>4, <1>5, DeviceAssumption DEF PostInv, HandlerInv, Recorded, Exists
<1>10. \A b \in Posts : PostInv(b)' /\ HandlerInv(b)'
      BY <1>3, <1>5, <1>9, PostKept
<1>11. ExtensionInv(d)' /\ CallInv(d)'
      BY <1>2, <1>4, <1>5, <1>7, PostAssumption DEF ExtensionInv, CallInv, Exists
<1>12. ASSUME NEW f \in Devices \ {d} PROVE ExtensionInv(f)' /\ CallInv(f)'
  <2>1. CallInv(f) /\ ext'[f] = ext[f]
        BY <1>7 DEF CommandInv
  <2>2. ext[f].at = "waiting" => ext[f].call \in Posts \ {c}
        BY <1>1, <2>1 DEF CallInv, CommandInv, CommandTypeOK, Extension
  <2>3. ExtensionInv(f)'
        BY <1>3, <2>1, ExtensionKept
  <2>4. ext[f].at = "waiting" =>
           /\ post'[ext[f].call] = post[ext[f].call]
           /\ post[ext[f].call].pc # "free"
        BY <1>5, <2>1, <2>2 DEF CallInv
  <2> QED BY <2>1, <2>3, <2>4, CallKept
<1>13. \A v \in Requests : RequestInv(v)'
      BY <1>2, <1>3, RequestKept
<1>14. \A j \in Keys : RetryInv(j)'
      BY <1>2, <1>3, RetryKept
<1> QED BY <1>3, <1>8, <1>10, <1>11, <1>12, <1>13, <1>14 DEF CommandInv

-----------------------------------------------------------------------------
(* The rows after a step that changes one of them.                          *)

\* A row is replaced by one with the same log.
LEMMA ReplacingKeepsRows ==
    ASSUME CommandInv, NEW k \in Keys, Exists(k), NEW row \in Command,
           command' = [command EXCEPT ![k] = row],
           command[k].device # NoDevice => row.device = command[k].device,
           row.events = command[k].events,
           row.state = "QUEUED" => row.confirmation = "APPROVED",
           row.authEpoch <= Episodes(row.events)
    PROVE  RowsTyped /\ Grow /\ \A j \in Keys : RowInv(j)'
<1>1. CommandTypeOK
      BY DEF CommandInv
<1>2. RowsTyped /\ Grow
      BY <1>1, RowReplaced DEF RowsTyped
<1>3. command'[k] = row /\ \A j \in Keys \ {k} : command'[j] = command[j]
      BY <1>1 DEF CommandTypeOK
<1>4. RowInv(k)'
  <2>1. OrderedLog(k)
        BY DEF CommandInv, RowInv
  <2>2. OrderedLog(k)'
        BY <1>3, <2>1 DEF OrderedLog, Recorded
  <2> QED BY <1>3, <2>2 DEF RowInv
<1> QED BY <1>2, <1>3, <1>4, RowKept

\* A row appears.
LEMMA CreatingKeepsRows ==
    ASSUME CommandInv, NEW k \in Keys, ~Exists(k), NEW row \in Command,
           command' = [command EXCEPT ![k] = row],
           \A i \in DOMAIN row.events : row.events[i] \in AgentEvents,
           row.state = "QUEUED" => row.confirmation = "APPROVED",
           row.authEpoch = 0
    PROVE  RowsTyped /\ Grow /\ \A j \in Keys : RowInv(j)'
<1>1. CommandTypeOK
      BY DEF CommandInv
<1>2. RowsTyped
      BY <1>1 DEF CommandTypeOK, RowsTyped
<1>3. command'[k] = row /\ \A j \in Keys \ {k} : command'[j] = command[j]
      BY <1>1 DEF CommandTypeOK
<1>4. Grow
  <2> SUFFICES ASSUME NEW j \in Keys, Exists(j) PROVE Grown(j)
      BY DEF Grow, Grown
  <2>1. command'[j] = command[j]
        BY <1>3
  <2>2. Episodes(command[j].events) \in Nat
        BY <1>1, EpisodesNatural
  <2> QED BY <2>1, <2>2 DEF Grown, Exists
<1>5. RowInv(k)'
  <2>1. OrderedLog(k)'
        BY <1>3 DEF OrderedLog, AgentEvents, EventTypes, DeviceEvents
  <2>2. Episodes(row.events) \in Nat
        BY AppendEpisodes DEF Command, EventTypes
  <2> QED BY <1>3, <2>1, <2>2 DEF RowInv
<1> QED BY <1>2, <1>3, <1>4, <1>5, RowKept

\* An event is appended where it belongs, whatever else becomes of the row.
LEMMA RecordingKeepsRows ==
    ASSUME CommandInv, NEW k \in Keys, Exists(k), NEW type \in EventTypes, NEW row \in Command,
           command' = [command EXCEPT ![k] = row],
           row.events = Append(command[k].events, type),
           row.device = command[k].device,
           row.state = "QUEUED" => row.confirmation = "APPROVED",
           row.authEpoch = command[k].authEpoch,
           type = "DATA_BATCH" => Recorded(k, LogLength(k), {"COMMAND_STARTED", "DATA_BATCH"}),
           type = "COMMAND_COMPLETED" => Recorded(k, LogLength(k), {"DATA_BATCH"})
    PROVE  RowsTyped /\ Grow /\ \A j \in Keys : RowInv(j)'
<1>1. CommandTypeOK
      BY DEF CommandInv
<1>2. command[k].events \in Seq(EventTypes) /\ command[k].authEpoch \in Nat
      BY <1>1, RowType DEF Command
<1>3. row # NoCommand
      BY RowExists
<1>4. /\ RowsTyped
      /\ command'[k] = row
      /\ command'[k].events = Append(command[k].events, type)
      /\ \A j \in Keys \ {k} : command'[j] = command[j]
      BY <1>1 DEF CommandTypeOK, RowsTyped
<1>5. Grow
  <2>1. \A n \in DOMAIN command[k].events :
           n \in DOMAIN row.events /\ row.events[n] = command[k].events[n]
        BY <1>2
  <2>2. Episodes(command[k].events) <= Episodes(row.events)
        BY <1>2, AppendEpisodes
  <2> SUFFICES ASSUME NEW j \in Keys, Exists(j) PROVE Grown(j)
      BY DEF Grow, Grown
  <2>3. CASE j = k
    <3>1. command'[j] = row /\ command'[j] # NoCommand
          BY <1>3, <1>4, <2>3
    <3>2. \A n \in DOMAIN command[j].events :
             n \in DOMAIN command'[j].events /\ command'[j].events[n] = command[j].events[n]
          BY <2>1, <2>3, <3>1
    <3>3. Episodes(command[j].events) <= Episodes(command'[j].events)
          BY <2>2, <2>3, <3>1
    <3> QED BY <2>3, <3>1, <3>2, <3>3 DEF Grown
  <2>4. CASE j # k
    <3>1. command'[j] = command[j] /\ Episodes(command[j].events) \in Nat
          BY <1>1, <1>4, <2>4, EpisodesNatural
    <3> QED BY <3>1 DEF Grown, Exists
  <2> QED BY <2>3, <2>4
<1>6. OrderedLog(k)'
  <2>1. OrderedLog(k)
        BY DEF CommandInv, RowInv
  <2>2. command[k].events \in Seq(EventTypes)
        BY <1>2
  <2>3. /\ DOMAIN command'[k].events = 1 .. LogLength(k) + 1
        /\ DOMAIN command[k].events = 1 .. LogLength(k)
        /\ LogLength(k) \in Nat
        /\ \A i \in 1 .. LogLength(k) : command'[k].events[i] = command[k].events[i]
        /\ command'[k].events[LogLength(k) + 1] = type
        BY <1>4, <2>2 DEF LogLength
  <2>4. ASSUME NEW i \in 1 .. LogLength(k) + 1
        PROVE  /\ command'[k].events[i] = "DATA_BATCH"
                  => Recorded(k, i - 1, {"COMMAND_STARTED", "DATA_BATCH"})
               /\ command'[k].events[i] = "COMMAND_COMPLETED"
                  => Recorded(k, i - 1, {"DATA_BATCH"})
    <3>1. CASE i = LogLength(k) + 1
          BY <2>3, <3>1
    <3>2. CASE i \in 1 .. LogLength(k)
          BY <2>1, <2>3, <3>2 DEF OrderedLog
    <3>3. i = LogLength(k) + 1 \/ i \in 1 .. LogLength(k)
          BY <2>3
    <3> QED BY <3>1, <3>2, <3>3
  <2>5. ASSUME NEW i \in 1 .. LogLength(k) + 1, NEW types \in SUBSET EventTypes,
               Recorded(k, i - 1, types)
        PROVE  /\ i - 1 \in DOMAIN command'[k].events
               /\ command'[k].events[i - 1] \in types
    <3>1. i - 1 \in 1 .. LogLength(k) /\ command[k].events[i - 1] \in types
          BY <2>3, <2>5 DEF Recorded
    <3> QED BY <2>3, <3>1
  <2>6. {"COMMAND_STARTED", "DATA_BATCH"} \subseteq EventTypes
        BY DEF EventTypes
  <2>7. ASSUME NEW i \in DOMAIN command'[k].events
        PROVE  /\ command'[k].events[i] = "DATA_BATCH"
                  => /\ i - 1 \in DOMAIN command'[k].events
                     /\ command'[k].events[i - 1] \in {"COMMAND_STARTED", "DATA_BATCH"}
               /\ command'[k].events[i] = "COMMAND_COMPLETED"
                  => /\ i - 1 \in DOMAIN command'[k].events
                     /\ command'[k].events[i - 1] \in {"DATA_BATCH"}
        BY <2>3, <2>4, <2>5, <2>6, <2>7
  <2> QED BY <2>7 DEF OrderedLog, Recorded
<1>7. row.authEpoch <= Episodes(row.events)
  <2>1. command[k].authEpoch <= Episodes(command[k].events)
        BY DEF CommandInv, RowInv
  <2> QED BY <1>2, <2>1, AppendEpisodes
<1>8. RowInv(k)'
      BY <1>4, <1>6, <1>7 DEF RowInv
<1> QED BY <1>4, <1>5, <1>8, RowKept

LEMMA EventAppended ==
    ASSUME CommandTypeOK, NEW k \in Keys, Exists(k), NEW type \in EventTypes, Append1(k, type)
    PROVE  /\ command' = [command EXCEPT ![k] = command'[k]]
           /\ command'[k] \in Command
           /\ command'[k] = [command[k] EXCEPT !.events = Append(command[k].events, type)]
           /\ command'[k].events = Append(command[k].events, type)
           /\ command'[k].device = command[k].device
           /\ command'[k].state = command[k].state
           /\ command'[k].confirmation = command[k].confirmation
           /\ command'[k].authEpoch = command[k].authEpoch
<1> DEFINE row == [command[k] EXCEPT !.events = Append(command[k].events, type)]
<1>1. command[k] \in Command
      BY RowType
<1>2. Append(command[k].events, type) \in Seq(EventTypes)
      BY <1>1 DEF Command
<1>3. /\ row \in Command
      /\ row.events = Append(command[k].events, type)
      /\ row.device = command[k].device
      /\ row.state = command[k].state
      /\ row.confirmation = command[k].confirmation
      /\ row.authEpoch = command[k].authEpoch
      BY <1>1, <1>2 DEF Command
<1>4. command' = [command EXCEPT ![k] = row]
      BY DEF Append1, CommandTypeOK
<1> HIDE DEF row
<1>5. command'[k] = row
      BY <1>4 DEF CommandTypeOK
<1> QED BY <1>3, <1>4, <1>5 DEF row

LEMMA AppendingKeepsRows ==
    ASSUME CommandInv, NEW k \in Keys, Exists(k), NEW type \in EventTypes, Append1(k, type),
           type = "DATA_BATCH" => Recorded(k, LogLength(k), {"COMMAND_STARTED", "DATA_BATCH"}),
           type = "COMMAND_COMPLETED" => Recorded(k, LogLength(k), {"DATA_BATCH"})
    PROVE  RowsTyped /\ Grow /\ \A j \in Keys : RowInv(j)'
<1>1. CommandTypeOK /\ RowInv(k)
      BY DEF CommandInv
<1>2. command'[k].state = "QUEUED" => command'[k].confirmation = "APPROVED"
      BY <1>1, EventAppended DEF RowInv
<1>3. /\ command' = [command EXCEPT ![k] = command'[k]]
      /\ command'[k] \in Command
      /\ command'[k].events = Append(command[k].events, type)
      /\ command'[k].device = command[k].device
      /\ command'[k].authEpoch = command[k].authEpoch
      BY <1>1, EventAppended
<1>4. ASSUME NEW row \in Command, row = command'[k]
      PROVE  RowsTyped /\ Grow /\ \A j \in Keys : RowInv(j)'
      BY <1>2, <1>3, <1>4, RecordingKeepsRows
<1> QED BY <1>3, <1>4

-----------------------------------------------------------------------------
(* Every action keeps the invariant: the calls.                             *)

LEMMA CallMoves ==
    ASSUME CommandInv, NEW u \in Requests, NEW pc \in RequestSteps, To(u, pc)
    PROVE  /\ request' \in [Requests -> Request]
           /\ \A v \in Requests \ {u} : request'[v] = request[v]
           /\ request'[u].pc = pc
           /\ request'[u].key = request[u].key
BY DEF To, CommandInv, CommandTypeOK, Request

LEMMA CallEnds ==
    ASSUME CommandInv, NEW u \in Requests, request' = [request EXCEPT ![u] = Idle]
    PROVE  /\ request' \in [Requests -> Request]
           /\ \A v \in Requests \ {u} : request'[v] = request[v]
           /\ RequestInv(u)'
<1>1. Idle \in Request
      BY DEF Idle, Request, RequestSteps
<1>2. request \in [Requests -> Request]
      BY DEF CommandInv, CommandTypeOK
<1>3. request'[u] = Idle
      BY <1>2
<1>4. RequestInv(u)'
      BY <1>3 DEF RequestInv, Idle
<1> QED BY <1>1, <1>2, <1>4

LEMMA AskKeeps ==
    ASSUME CommandInv, NEW u \in Requests, NEW k \in Keys, Ask(u, k)
    PROVE  CommandInv'
<1>1. RowsTyped /\ Grow /\ \A j \in Keys : RowInv(j)'
      BY NothingLost DEF Ask
<1>2. [Idle EXCEPT !.pc = "find", !.key = k] \in Request
      BY DEF Idle, Request, RequestSteps
<1>3. /\ request' \in [Requests -> Request]
      /\ \A v \in Requests \ {u} : request'[v] = request[v]
      /\ request'[u] = [Idle EXCEPT !.pc = "find", !.key = k]
      BY <1>2 DEF Ask, CommandInv, CommandTypeOK
<1>4. RequestInv(u)'
      BY <1>3 DEF RequestInv, Idle
<1> QED BY <1>1, <1>3, <1>4, RequestStepKeeps DEF Ask

LEMMA IssueFindKeeps ==
    ASSUME CommandInv, NEW u \in Requests, IssueFind(u)
    PROVE  CommandInv'
<1>1. RowsTyped /\ Grow /\ \A j \in Keys : RowInv(j)'
      BY NothingLost DEF IssueFind
<1>2. request[u].key \in Keys
      BY DEF IssueFind, CommandInv, RequestInv, RequestSteps
<1>3. PICK pc \in {"issued", "create"} : To(u, pc) /\ (pc = "issued" => Exists(request[u].key))
      BY DEF IssueFind
<1>4. pc \in RequestSteps
      BY DEF RequestSteps
<1>5. /\ request' \in [Requests -> Request]
      /\ \A v \in Requests \ {u} : request'[v] = request[v]
      /\ request'[u].pc = pc
      /\ request'[u].key = request[u].key
      BY <1>3, <1>4, CallMoves
<1>6. RequestInv(u)'
      BY <1>2, <1>3, <1>5 DEF RequestInv, IssueFind, Exists
<1> QED BY <1>1, <1>5, <1>6, RequestStepKeeps DEF IssueFind

LEMMA IssueCreateKeeps ==
    ASSUME CommandInv, NEW u \in Requests, IssueCreate(u)
    PROVE  CommandInv'
<1> DEFINE k == request[u].key
<1>1. k \in Keys
      BY DEF IssueCreate, CommandInv, RequestInv, RequestSteps
<1>2. CASE Exists(k)
  <2>1. To(u, "failed") /\ UNCHANGED command
        BY <1>2 DEF IssueCreate
  <2>2. RowsTyped /\ Grow /\ \A j \in Keys : RowInv(j)'
        BY <2>1, NothingLost
  <2>3. /\ request' \in [Requests -> Request]
        /\ \A v \in Requests \ {u} : request'[v] = request[v]
        /\ request'[u].pc = "failed"
        BY <2>1, CallMoves DEF RequestSteps
  <2>4. RequestInv(u)'
        BY <2>3 DEF RequestInv
  <2> QED BY <2>2, <2>3, <2>4, RequestStepKeeps DEF IssueCreate
<1>3. CASE ~Exists(k)
  <2>1. To(u, "first") /\ command' = [command EXCEPT ![k] = NewCommand]
        BY <1>3 DEF IssueCreate
  <2>2. NewCommand \in Command /\ NewCommand.events = <<>>
        BY DEF NewCommand, Command, States, Confirmations, AuthStates
  <2>3. RowsTyped /\ Grow /\ \A j \in Keys : RowInv(j)'
    <3>1. NewCommand.state # "QUEUED" /\ NewCommand.authEpoch = 0
          BY DEF NewCommand
    <3>2. \A i \in DOMAIN NewCommand.events : NewCommand.events[i] \in AgentEvents
          BY <2>2
    <3> QED BY <1>1, <1>3, <2>1, <2>2, <3>1, <3>2, CreatingKeepsRows
  <2>4. /\ request' \in [Requests -> Request]
        /\ \A v \in Requests \ {u} : request'[v] = request[v]
        /\ request'[u].pc = "first"
        /\ request'[u].key = k
        BY <2>1, CallMoves DEF RequestSteps
  <2>5. command'[k] # NoCommand
        BY <1>1, <2>1, <2>2, RowExists DEF CommandInv, CommandTypeOK
  <2>6. RequestInv(u)'
        BY <1>1, <2>4, <2>5 DEF RequestInv, Exists
  <2> QED BY <2>3, <2>4, <2>6, RequestStepKeeps DEF IssueCreate
<1> QED BY <1>2, <1>3

LEMMA IssueFirstEventKeeps ==
    ASSUME CommandInv, NEW u \in Requests, IssueFirstEvent(u)
    PROVE  CommandInv'
<1> DEFINE k == request[u].key
<1>1. k \in Keys /\ Exists(k)
      BY DEF IssueFirstEvent, CommandInv, RequestInv, RequestSteps
<1>2. CASE LogLength(k) = 0
  <2>1. To(u, "issued") /\ Append1(k, "WAITING_FOR_CONFIRMATION")
        BY <1>2 DEF IssueFirstEvent
  <2>2. "WAITING_FOR_CONFIRMATION" \in EventTypes
        BY DEF EventTypes
  <2>3. RowsTyped /\ Grow /\ \A j \in Keys : RowInv(j)'
        BY <1>1, <2>1, <2>2, AppendingKeepsRows
  <2>4. /\ request' \in [Requests -> Request]
        /\ \A v \in Requests \ {u} : request'[v] = request[v]
        /\ request'[u].pc = "issued"
        /\ request'[u].key = k
        BY <2>1, CallMoves DEF RequestSteps
  <2>5. RequestInv(u)'
        BY <1>1, <2>3, <2>4 DEF RequestInv, Exists, Grow, Grown
  <2> QED BY <2>3, <2>4, <2>5, RequestStepKeeps DEF IssueFirstEvent
<1>3. CASE LogLength(k) # 0
  <2>1. To(u, "failed") /\ UNCHANGED command
        BY <1>3 DEF IssueFirstEvent
  <2>2. RowsTyped /\ Grow /\ \A j \in Keys : RowInv(j)'
        BY <2>1, NothingLost
  <2>3. /\ request' \in [Requests -> Request]
        /\ \A v \in Requests \ {u} : request'[v] = request[v]
        /\ request'[u].pc = "failed"
        BY <2>1, CallMoves DEF RequestSteps
  <2>4. RequestInv(u)'
        BY <2>3 DEF RequestInv
  <2> QED BY <2>2, <2>3, <2>4, RequestStepKeeps DEF IssueFirstEvent
<1> QED BY <1>2, <1>3

LEMMA ApproveReadKeeps ==
    ASSUME CommandInv, NEW u \in Requests, ApproveRead(u)
    PROVE  CommandInv'
<1> DEFINE k == request[u].key
<1>1. k \in Keys /\ Exists(k)
      BY DEF ApproveRead, CommandInv, RequestInv, RequestSteps
<1>2. command[k] \in Command /\ command \in [Keys -> Command \cup {NoCommand}]
      BY <1>1, RowType DEF CommandInv, CommandTypeOK
<1>3. CASE command[k].expired
  <2> DEFINE row == [command[k] EXCEPT !.state = "CANCELLED", !.confirmation = "EXPIRED"]
  <2>1. To(u, "failed") /\ command' = [command EXCEPT ![k] = row]
        BY <1>1, <1>2, <1>3 DEF ApproveRead
  <2>2. /\ row \in Command
        /\ row.state = "CANCELLED"
        /\ row.device = command[k].device
        /\ row.events = command[k].events
        /\ row.authEpoch = command[k].authEpoch
        BY <1>2 DEF Command, States, Confirmations
  <2>3. command[k].authEpoch <= Episodes(command[k].events)
        BY <1>1 DEF CommandInv, RowInv
  <2> HIDE DEF row
  <2>4. RowsTyped /\ Grow /\ \A j \in Keys : RowInv(j)'
        BY <1>1, <2>1, <2>2, <2>3, ReplacingKeepsRows
  <2>5. /\ request' \in [Requests -> Request]
        /\ \A v \in Requests \ {u} : request'[v] = request[v]
        /\ request'[u].pc = "failed"
        BY <2>1, CallMoves DEF RequestSteps
  <2>6. RequestInv(u)'
        BY <2>5 DEF RequestInv
  <2> QED BY <2>4, <2>5, <2>6, RequestStepKeeps DEF ApproveRead
<1>4. CASE ~command[k].expired
  <2>1. UNCHANGED command
        BY <1>4 DEF ApproveRead
  <2>2. RowsTyped /\ Grow /\ \A j \in Keys : RowInv(j)'
        BY <2>1, NothingLost
  <2>3. /\ request' \in [Requests -> Request]
        /\ \A v \in Requests \ {u} : request'[v] = request[v]
        /\ RequestInv(u)'
    <3>1. CASE command[k].confirmation = "PENDING"
      <4>1. request' = [request EXCEPT ![u].pc = "write", ![u].seq = LogLength(k)]
            BY <1>4, <3>1 DEF ApproveRead
      <4>2. LogLength(k) \in Nat
            BY <1>2 DEF LogLength, Command
      <4>3. /\ request \in [Requests -> Request]
            /\ request[u] \in Request
            /\ "write" \in RequestSteps
            BY DEF CommandInv, CommandTypeOK, RequestSteps
      <4>4. [request[u] EXCEPT !.pc = "write", !.seq = LogLength(k)] \in Request
            BY <4>2, <4>3 DEF Request
      <4>5. /\ request'[u].pc = "write"
            /\ request'[u].key = k
            /\ request' \in [Requests -> Request]
            /\ \A v \in Requests \ {u} : request'[v] = request[v]
            BY <4>1, <4>3, <4>4 DEF Request
      <4> QED BY <1>1, <2>1, <4>5 DEF RequestInv, Exists
    <3>2. CASE command[k].confirmation # "PENDING"
      <4>1. To(u, "failed")
            BY <1>4, <3>2 DEF ApproveRead
      <4>2. /\ request' \in [Requests -> Request]
            /\ \A v \in Requests \ {u} : request'[v] = request[v]
            /\ request'[u].pc = "failed"
            BY <4>1, CallMoves DEF RequestSteps
      <4> QED BY <4>2 DEF RequestInv
    <3> QED BY <3>1, <3>2
  <2> QED BY <2>2, <2>3, RequestStepKeeps DEF ApproveRead
<1> QED BY <1>3, <1>4

LEMMA ApproveWriteKeeps ==
    ASSUME CommandInv, NEW u \in Requests, ApproveWrite(u)
    PROVE  CommandInv'
<1> DEFINE k == request[u].key
           row == [command[k] EXCEPT !.state = "QUEUED", !.confirmation = "APPROVED"]
<1>1. k \in Keys /\ Exists(k)
      BY DEF ApproveWrite, CommandInv, RequestInv, RequestSteps
<1>2. command[k] \in Command /\ command \in [Keys -> Command \cup {NoCommand}]
      BY <1>1, RowType DEF CommandInv, CommandTypeOK
<1>3. To(u, "accept") /\ command' = [command EXCEPT ![k] = row]
      BY <1>1, <1>2 DEF ApproveWrite
<1>4. /\ row \in Command
      /\ row.confirmation = "APPROVED"
      /\ row.device = command[k].device
      /\ row.events = command[k].events
      /\ row.authEpoch = command[k].authEpoch
      BY <1>2 DEF Command, States, Confirmations
<1>5. command[k].authEpoch <= Episodes(command[k].events)
      BY <1>1 DEF CommandInv, RowInv
<1> HIDE DEF row
<1>6. RowsTyped /\ Grow /\ \A j \in Keys : RowInv(j)'
      BY <1>1, <1>3, <1>4, <1>5, ReplacingKeepsRows
<1>7. /\ request' \in [Requests -> Request]
      /\ \A v \in Requests \ {u} : request'[v] = request[v]
      /\ request'[u].pc = "accept"
      /\ request'[u].key = k
      BY <1>3, CallMoves DEF RequestSteps
<1>8. RequestInv(u)'
      BY <1>1, <1>6, <1>7 DEF RequestInv, Exists, Grow, Grown
<1> QED BY <1>6, <1>7, <1>8, RequestStepKeeps DEF ApproveWrite

LEMMA ApproveAcceptKeeps ==
    ASSUME CommandInv, NEW u \in Requests, ApproveAccept(u)
    PROVE  CommandInv'
<1> DEFINE k == request[u].key
<1>1. k \in Keys /\ Exists(k)
      BY DEF ApproveAccept, CommandInv, RequestInv, RequestSteps
<1>2. CASE LogLength(k) = request[u].seq
  <2>1. Append1(k, "COMMAND_ACCEPTED") /\ request' = [request EXCEPT ![u] = Idle]
        BY <1>2 DEF ApproveAccept
  <2>2. "COMMAND_ACCEPTED" \in EventTypes
        BY DEF EventTypes
  <2>3. RowsTyped /\ Grow /\ \A j \in Keys : RowInv(j)'
        BY <1>1, <2>1, <2>2, AppendingKeepsRows
  <2> QED BY <2>1, <2>3, CallEnds, RequestStepKeeps DEF ApproveAccept
<1>3. CASE LogLength(k) # request[u].seq
  <2>1. To(u, "failed") /\ UNCHANGED command
        BY <1>3 DEF ApproveAccept
  <2>2. RowsTyped /\ Grow /\ \A j \in Keys : RowInv(j)'
        BY <2>1, NothingLost
  <2>3. /\ request' \in [Requests -> Request]
        /\ \A v \in Requests \ {u} : request'[v] = request[v]
        /\ request'[u].pc = "failed"
        BY <2>1, CallMoves DEF RequestSteps
  <2>4. RequestInv(u)'
        BY <2>3 DEF RequestInv
  <2> QED BY <2>2, <2>3, <2>4, RequestStepKeeps DEF ApproveAccept
<1> QED BY <1>2, <1>3

LEMMA RequestCrashKeeps ==
    ASSUME CommandInv, NEW u \in Requests, RequestCrash(u)
    PROVE  CommandInv'
<1>1. RowsTyped /\ Grow /\ \A j \in Keys : RowInv(j)'
      BY NothingLost DEF RequestCrash
<1> QED BY <1>1, CallEnds, RequestStepKeeps DEF RequestCrash

-----------------------------------------------------------------------------
(* Expiry and retries.                                                      *)

LEMMA ExpireKeeps ==
    ASSUME CommandInv, NEW k \in Keys, Expire(k)
    PROVE  CommandInv'
<1> DEFINE row == [command[k] EXCEPT !.expired = TRUE]
<1>1. Exists(k)
      BY DEF Expire
<1>2. command[k] \in Command /\ command \in [Keys -> Command \cup {NoCommand}]
      BY <1>1, RowType DEF CommandInv, CommandTypeOK
<1>3. command' = [command EXCEPT ![k] = row]
      BY <1>2 DEF Expire
<1>4. /\ row \in Command
      /\ row.state = command[k].state
      /\ row.confirmation = command[k].confirmation
      /\ row.device = command[k].device
      /\ row.events = command[k].events
      /\ row.authEpoch = command[k].authEpoch
      BY <1>2 DEF Command
<1>5. /\ command[k].authEpoch <= Episodes(command[k].events)
      /\ command[k].state = "QUEUED" => command[k].confirmation = "APPROVED"
      BY <1>1 DEF CommandInv, RowInv
<1> HIDE DEF row
<1>6. RowsTyped /\ Grow /\ \A j \in Keys : RowInv(j)'
      BY <1>1, <1>3, <1>4, <1>5, ReplacingKeepsRows
<1>7. RetryInv(k)'
      BY <1>6, RetryKept DEF Expire
<1> QED BY <1>6, <1>7, RetryStepKeeps DEF Expire, CommandInv, CommandTypeOK

LEMMA RetryReadKeeps ==
    ASSUME CommandInv, NEW k \in Keys, RetryRead(k)
    PROVE  CommandInv'
<1>1. RowsTyped /\ Grow /\ \A j \in Keys : RowInv(j)'
      BY NothingLost DEF RetryRead
<1>2. LogLength(k) \in Nat
      BY RowType DEF RetryRead, CommandInv, LogLength, Command
<1>3. /\ retry' \in [Keys -> Nat]
      /\ \A j \in Keys \ {k} : retry'[j] = retry[j]
      BY <1>2 DEF RetryRead, CommandInv, CommandTypeOK
<1>4. RetryInv(k)'
      BY DEF RetryRead, RetryInv, Exists
<1> QED BY <1>1, <1>3, <1>4, RetryStepKeeps DEF RetryRead

LEMMA RetryCommitKeeps ==
    ASSUME CommandInv, NEW k \in Keys, RetryCommit(k)
    PROVE  CommandInv'
<1>1. Exists(k)
      BY DEF RetryCommit, CommandInv, RetryInv
<1>2. command[k] \in Command /\ command \in [Keys -> Command \cup {NoCommand}]
      BY <1>1, RowType DEF CommandInv, CommandTypeOK
<1>3. /\ retry' \in [Keys -> Nat]
      /\ \A j \in Keys \ {k} : retry'[j] = retry[j]
      /\ retry'[k] = NoRetry
      BY DEF RetryCommit, CommandInv, CommandTypeOK, NoRetry
<1>4. RetryInv(k)'
      BY <1>3 DEF RetryInv
<1>5. RowsTyped /\ Grow /\ \A j \in Keys : RowInv(j)'
  <2>1. CASE UNCHANGED command
        BY <2>1, NothingLost
  <2>2. CASE /\ command[k].confirmation = "APPROVED"
             /\ command' = [command EXCEPT ![k] = Requeued(command[k])]
    <3> DEFINE events == Append(command[k].events, "AUTH_RETRY_REQUESTED")
    <3>1. command[k].events \in Seq(EventTypes) /\ "AUTH_RETRY_REQUESTED" \in EventTypes
          BY <1>2 DEF Command, EventTypes
    <3>2. events \in Seq(EventTypes)
          BY <3>1
    <3>3. /\ Requeued(command[k]) \in Command
          /\ Requeued(command[k]).state = "QUEUED"
          /\ Requeued(command[k]).confirmation = "APPROVED"
          /\ Requeued(command[k]).device = command[k].device
          /\ Requeued(command[k]).authEpoch = command[k].authEpoch
          /\ Requeued(command[k]).events = events
          BY <1>2, <2>2, <3>2 DEF Requeued, Command, States, AuthStates
    <3> QED BY <1>1, <2>2, <3>1, <3>3, RecordingKeepsRows
  <2> QED BY <2>1, <2>2 DEF RetryCommit
<1> QED BY <1>3, <1>4, <1>5, RetryStepKeeps DEF RetryCommit

-----------------------------------------------------------------------------
(* Dispatch.                                                                *)

LEMMA LogOf ==
    ASSUME CommandTypeOK, NEW k \in Keys, Exists(k)
    PROVE  /\ command[k].events \in Seq(EventTypes)
           /\ LogLength(k) \in Nat
           /\ DOMAIN command[k].events = 1 .. LogLength(k)
           /\ LastType(k) \in EventTypes \cup {NoEventType}
           /\ LastType(k) # NoEventType => Recorded(k, LogLength(k), {LastType(k)})
<1>1. command[k].events \in Seq(EventTypes)
      BY RowType DEF Command
<1>2. LogLength(k) \in Nat /\ DOMAIN command[k].events = 1 .. LogLength(k)
      BY <1>1 DEF LogLength
<1>3. LogLength(k) # 0 => command[k].events[LogLength(k)] \in EventTypes
      BY <1>1, <1>2
<1> QED BY <1>1, <1>2, <1>3 DEF LastType, Recorded

LEMMA DispatchedExtension ==
    ASSUME CommandTypeOK, NEW k \in Keys, Exists(k)
    PROVE  /\ Dispatched(k) \in Extension
           /\ Dispatched(k).at = "dispatched"
           /\ Dispatched(k).key = k
           /\ Dispatched(k).call = NoPost
           /\ Dispatched(k).next = LogLength(k)
           /\ Dispatched(k).last = LastType(k)
BY LogOf DEF Dispatched, Extension, ExtensionSteps

LEMMA AsleepExtension == Asleep \in Extension
BY DEF Asleep, Extension, ExtensionSteps

\* A device falls asleep.
LEMMA SleepKeeps ==
    ASSUME CommandInv, NEW d \in Devices, ext' = [ext EXCEPT ![d] = Asleep],
           UNCHANGED <<command, request, post, retry>>
    PROVE  CommandInv'
<1>1. RowsTyped /\ Grow /\ \A j \in Keys : RowInv(j)'
      BY NothingLost
<1>2. /\ ext' \in [Devices -> Extension]
      /\ ext'[d] = Asleep
      /\ \A f \in Devices \ {d} : ext'[f] = ext[f]
      BY AsleepExtension DEF CommandInv, CommandTypeOK
<1>3. ExtensionInv(d)' /\ CallInv(d)'
      BY <1>2 DEF Asleep, ExtensionInv, CallInv, Working
<1> QED BY <1>1, <1>2, <1>3, ExtensionStepKeeps

LEMMA ClaimOwnedKeeps ==
    ASSUME CommandInv, NEW d \in Devices, NEW k \in Keys, ClaimOwned(d, k)
    PROVE  CommandInv'
<1>1. RowsTyped /\ Grow /\ \A j \in Keys : RowInv(j)'
      BY NothingLost DEF ClaimOwned
<1>2. CommandTypeOK /\ Exists(k) /\ command[k].device = d /\ UNCHANGED command
      BY DEF ClaimOwned, CommandInv
<1>3. /\ ext' \in [Devices -> Extension]
      /\ ext'[d] = Dispatched(k)
      /\ \A f \in Devices \ {d} : ext'[f] = ext[f]
      BY <1>2, DispatchedExtension DEF ClaimOwned, CommandTypeOK
<1>4. ExtensionInv(d)' /\ CallInv(d)'
      BY <1>2, <1>3, DispatchedExtension, LogOf DEF ExtensionInv, CallInv, Exists, Recorded
<1> QED BY <1>1, <1>3, <1>4, ExtensionStepKeeps DEF ClaimOwned

LEMMA ClaimUnboundKeeps ==
    ASSUME CommandInv, NEW d \in Devices, NEW k \in Keys, ClaimUnbound(d, k)
    PROVE  CommandInv'
<1> DEFINE claiming == [Asleep EXCEPT !.at = "claiming", !.key = k]
<1>1. RowsTyped /\ Grow /\ \A j \in Keys : RowInv(j)'
      BY NothingLost DEF ClaimUnbound
<1>2. Exists(k) /\ UNCHANGED command
      BY DEF ClaimUnbound
<1>3. /\ claiming \in Extension
      /\ claiming.at = "claiming"
      /\ claiming.key = k
      /\ claiming.call = NoPost
      BY DEF Asleep, Extension, ExtensionSteps
<1>4. ext' = [ext EXCEPT ![d] = claiming]
      BY DEF ClaimUnbound
<1> HIDE DEF claiming
<1>5. /\ ext' \in [Devices -> Extension]
      /\ ext'[d] = claiming
      /\ \A f \in Devices \ {d} : ext'[f] = ext[f]
      BY <1>3, <1>4 DEF CommandInv, CommandTypeOK
<1>6. ExtensionInv(d)' /\ CallInv(d)'
      BY <1>2, <1>3, <1>5 DEF ExtensionInv, CallInv, Exists, Working
<1> QED BY <1>1, <1>5, <1>6, ExtensionStepKeeps DEF ClaimUnbound

LEMMA ClaimCommitKeeps ==
    ASSUME CommandInv, NEW d \in Devices, ClaimCommit(d)
    PROVE  CommandInv'
<1> DEFINE k == ext[d].key
           row == [command[k] EXCEPT !.device = d]
<1>1. CommandTypeOK /\ k \in Keys /\ Exists(k)
      BY DEF ClaimCommit, CommandInv, ExtensionInv
<1>2. CASE Claimable(k)
  <2>1. command[k] \in Command /\ command[k].device = NoDevice
        BY <1>1, <1>2, RowType DEF Claimable
  <2>2. command' = [command EXCEPT ![k] = row] /\ ext' = [ext EXCEPT ![d] = Dispatched(k)]
        BY <1>1, <1>2 DEF ClaimCommit, CommandTypeOK
  <2>3. /\ row \in Command
        /\ row.device = d
        /\ row.events = command[k].events
        /\ row.state = command[k].state
        /\ row.confirmation = command[k].confirmation
        /\ row.authEpoch = command[k].authEpoch
        BY <2>1 DEF Command
  <2>4. /\ command[k].authEpoch <= Episodes(command[k].events)
        /\ command[k].state = "QUEUED" => command[k].confirmation = "APPROVED"
        BY <1>1 DEF CommandInv, RowInv
  <2> HIDE DEF row
  <2>5. RowsTyped /\ Grow /\ \A j \in Keys : RowInv(j)'
        BY <1>1, <2>1, <2>2, <2>3, <2>4, ReplacingKeepsRows, ZenonT(60)
  <2>6. command'[k] = row /\ row # NoCommand
        BY <1>1, <2>2, <2>3, RowExists DEF CommandTypeOK
  <2>7. /\ ext' \in [Devices -> Extension]
        /\ ext'[d] = Dispatched(k)
        /\ \A f \in Devices \ {d} : ext'[f] = ext[f]
        BY <1>1, <2>2, DispatchedExtension DEF CommandTypeOK
  <2>8. ExtensionInv(d)' /\ CallInv(d)'
    <3>1. /\ ext'[d].at = "dispatched" /\ ext'[d].key = k /\ ext'[d].call = NoPost
          /\ ext'[d].next = LogLength(k) /\ ext'[d].last = LastType(k)
          BY <1>1, <2>7, DispatchedExtension
    <3>2. command'[k].device = d /\ command'[k].events = command[k].events /\ command'[k] # NoCommand
          BY <2>3, <2>6
    <3>3. LastType(k) # NoEventType => Recorded(k, LogLength(k), {LastType(k)})
          BY <1>1, LogOf
    <3>4. \A n, types : Recorded(k, n, types) => Recorded(k, n, types)'
          BY <3>1, <3>2 DEF Recorded
    <3>5. ExtensionInv(d)'
          BY <1>1, <3>1, <3>2, <3>3, <3>4 DEF ExtensionInv, Exists, Working
    <3> QED BY <3>1, <3>5 DEF CallInv
  <2> QED BY <2>5, <2>7, <2>8, ExtensionStepKeeps DEF ClaimCommit
<1>3. CASE ~Claimable(k)
      BY <1>3, SleepKeeps DEF ClaimCommit
<1> QED BY <1>2, <1>3

-----------------------------------------------------------------------------
(* Recording events.                                                        *)

LEMMA PostOf ==
    ASSUME CommandInv, NEW c \in Posts, post[c].pc # "free"
    PROVE  /\ post[c] \in Post
           /\ post[c].key \in Keys
           /\ Exists(post[c].key)
           /\ post[c].type \in DeviceEvents
           /\ post[c].type \in EventTypes
BY DEF CommandInv, CommandTypeOK, PostInv, DeviceEvents, EventTypes

LEMMA PostReadKeeps ==
    ASSUME CommandInv, NEW c \in Posts, PostRead(c)
    PROVE  CommandInv'
<1> DEFINE k == post[c].key
<1>1. post[c].pc = "read" /\ UNCHANGED <<command, request, retry>>
      BY DEF PostRead
<1>2. RowsTyped /\ Grow /\ \A j \in Keys : RowInv(j)'
      BY <1>1, NothingLost
<1>3. CASE Finish(c, FALSE)
      BY <1>1, <1>2, <1>3, FinishKeeps
<1>4. CASE /\ post' = [post EXCEPT ![c].pc = "append",
                                   ![c].authState = command[k].authState,
                                   ![c].authEpoch = command[k].authEpoch]
           /\ UNCHANGED ext
  <2> DEFINE p == [post[c] EXCEPT !.pc = "append", !.authState = command[k].authState,
                                  !.authEpoch = command[k].authEpoch]
  <2>1. post[c] \in Post /\ k \in Keys /\ Exists(k)
        BY <1>1, PostOf
  <2>2. command[k].authState \in AuthStates /\ command[k].authEpoch \in Nat
        BY <2>1, RowType DEF CommandInv, Command
  <2>3. post \in [Posts -> Post]
        BY DEF CommandInv, CommandTypeOK
  <2>4. post' = [post EXCEPT ![c] = p]
        BY <1>4, <2>3
  <2>5. /\ p \in Post
        /\ p.pc = "append"
        /\ p.key = k
        /\ p.seq = post[c].seq
        /\ p.type = post[c].type
        /\ p.authEpoch = command[k].authEpoch
        BY <2>1, <2>2 DEF Post, PostSteps
  <2> HIDE DEF p
  <2>6. /\ post' \in [Posts -> Post]
        /\ post'[c] = p
        /\ \A b \in Posts \ {c} : post'[b] = post[b]
        BY <2>3, <2>4, <2>5
  <2>7. PostInv(c)'
    <3>1. PostInv(c)
          BY DEF CommandInv
    <3> QED BY <1>1, <2>5, <2>6, <3>1 DEF PostInv, Recorded, Exists
  <2>8. HandlerInv(c)'
    <3>1. command[k].authEpoch <= Episodes(command[k].events)
          BY <2>1 DEF CommandInv, RowInv
    <3> QED BY <1>1, <2>5, <2>6, <3>1 DEF HandlerInv
  <2> QED BY <1>1, <1>2, <1>4, <2>5, <2>6, <2>7, <2>8, HandlerStepKeeps
<1> QED BY <1>3, <1>4 DEF PostRead

LEMMA PostAppendKeeps ==
    ASSUME CommandInv, NEW c \in Posts, PostAppend(c)
    PROVE  CommandInv'
<1> DEFINE k == post[c].key
           type == post[c].type
<1>1. /\ post[c].pc = "append"
      /\ UNCHANGED <<request, retry>>
      /\ post[c] \in Post
      /\ k \in Keys
      /\ Exists(k)
      /\ type \in EventTypes
      /\ CommandTypeOK
      BY PostOf DEF PostAppend, CommandInv
<1>2. CASE ~NextNumber(c)
  <2>1. Finish(c, FALSE) /\ UNCHANGED command
        BY <1>2 DEF PostAppend
  <2>2. RowsTyped /\ Grow /\ \A j \in Keys : RowInv(j)'
        BY <2>1, NothingLost
  <2> QED BY <1>1, <2>1, <2>2, FinishKeeps
<1>3. CASE NextNumber(c)
  <2>1. Append1(k, type) /\ post[c].seq = LogLength(k)
        BY <1>3 DEF PostAppend, NextNumber
  <2>2. PostInv(c) /\ HandlerInv(c)
        BY DEF CommandInv
  <2>3. RowsTyped /\ Grow /\ \A j \in Keys : RowInv(j)'
        BY <1>1, <2>1, <2>2, AppendingKeepsRows DEF PostInv
  <2>4. command'[k].events = Append(command[k].events, type)
        BY <1>1, <2>1, EventAppended
  <2>5. /\ command[k].events \in Seq(EventTypes)
        /\ LogLength(k) \in Nat
        BY <1>1, LogOf
  <2>6. /\ post[c].seq + 1 \in DOMAIN command'[k].events
        /\ command'[k].events[post[c].seq + 1] = type
    <3>1. ASSUME NEW log \in Seq(EventTypes)
          PROVE  /\ Len(log) + 1 \in DOMAIN Append(log, type)
                 /\ Append(log, type)[Len(log) + 1] = type
          BY <1>1
    <3> QED BY <2>1, <2>4, <2>5, <3>1 DEF LogLength
  <2>7. CASE type \in DOMAIN NextState
    <3> DEFINE p == [post[c] EXCEPT !.pc = "update"]
    <3>1. post' = [post EXCEPT ![c] = p] /\ UNCHANGED ext
          BY <1>3, <2>7 DEF PostAppend
    <3>2. /\ p \in Post
          /\ p.pc = "update"
          /\ p.key = k
          /\ p.seq = post[c].seq
          /\ p.type = type
          /\ p.authEpoch = post[c].authEpoch
          BY <1>1 DEF Post, PostSteps
    <3> HIDE DEF p
    <3>3. /\ post' \in [Posts -> Post]
          /\ post'[c] = p
          /\ \A b \in Posts \ {c} : post'[b] = post[b]
          BY <1>1, <3>1, <3>2 DEF CommandTypeOK
    <3>4. Grown(k) /\ command'[k] # NoCommand
          BY <1>1, <2>3 DEF Grow, Grown
    <3>5. PostInv(c)'
          BY <1>1, <2>2, <3>2, <3>3, <3>4 DEF PostInv, Grown, Recorded, Exists
    <3>6. HandlerInv(c)'
      <4>1. post[c].authEpoch \in Nat /\ post[c].authEpoch <= Episodes(command[k].events)
            BY <1>1, <2>2 DEF HandlerInv, Post
      <4>2. /\ post[c].authEpoch <= Episodes(command'[k].events)
            /\ type = "AUTH_REQUIRED" => post[c].authEpoch + 1 <= Episodes(command'[k].events)
            BY <1>1, <2>4, <2>5, <4>1, AppendEpisodes, SMTT(30)
      <4> QED BY <2>6, <2>7, <3>2, <3>3, <4>2 DEF HandlerInv, Recorded
    <3> QED BY <1>1, <2>3, <3>1, <3>2, <3>3, <3>5, <3>6, HandlerStepKeeps
  <2>8. CASE type \notin DOMAIN NextState
    <3>1. Finish(c, TRUE)
          BY <1>3, <2>8 DEF PostAppend
    <3> QED BY <1>1, <2>3, <2>6, <3>1, FinishKeeps
  <2> QED BY <2>7, <2>8
<1> QED BY <1>2, <1>3

\* The row after an event: what is updated, and what is not.
LEMMA UpdatedRow ==
    ASSUME NEW row \in Command, NEW p \in Post, NextState[p.type] \in States, NEW n \in Nat,
           row.authEpoch <= n, p.authEpoch <= n,
           p.type = "AUTH_REQUIRED" => p.authEpoch + 1 <= n
    PROVE  /\ Updated(row, p) \in Command
           /\ Updated(row, p).state = NextState[p.type]
           /\ Updated(row, p).device = row.device
           /\ Updated(row, p).events = row.events
           /\ Updated(row, p).confirmation = row.confirmation
           /\ Updated(row, p).authEpoch <= n
<1> DEFINE authState == CASE p.type \in {"AUTH_REQUIRED", "MFA_REQUIRED"} -> p.type
                          [] p.type = "COMMAND_STARTED" -> "READY"
                          [] OTHER -> row.authState
           authEpoch == CASE p.type = "AUTH_REQUIRED" /\ p.authState = "READY" -> p.authEpoch + 1
                          [] p.type \in {"AUTH_REQUIRED", "MFA_REQUIRED"} -> p.authEpoch
                          [] OTHER -> row.authEpoch
<1>1. authState \in AuthStates
      BY DEF Command, AuthStates
<1>2. authEpoch \in Nat /\ authEpoch <= n
  <2>1. row.authEpoch \in Nat /\ p.authEpoch \in Nat
        BY DEF Command, Post
  <2>2. CASE p.type = "AUTH_REQUIRED" /\ p.authState = "READY"
        BY <2>1, <2>2
  <2>3. CASE ~(p.type = "AUTH_REQUIRED" /\ p.authState = "READY")
        BY <2>1, <2>3
  <2> QED BY <2>2, <2>3
<1>3. Updated(row, p) = [row EXCEPT !.state = NextState[p.type], !.authState = authState,
                                    !.authEpoch = authEpoch]
      BY DEF Updated
<1> HIDE DEF authState, authEpoch
<1>4. [row EXCEPT !.state = NextState[p.type], !.authState = authState,
                  !.authEpoch = authEpoch] \in Command
      BY <1>1, <1>2 DEF Command
<1> QED BY <1>2, <1>3, <1>4 DEF Command

LEMMA PostUpdateKeeps ==
    ASSUME CommandInv, NEW c \in Posts, PostUpdate(c)
    PROVE  CommandInv'
<1> DEFINE k == post[c].key
           row == Updated(command[k], post[c])
<1>1. /\ post[c].pc = "update"
      /\ UNCHANGED <<request, retry>>
      /\ Finish(c, TRUE)
      /\ command' = [command EXCEPT ![k] = row]
      BY DEF PostUpdate
<1>2. /\ post[c] \in Post
      /\ k \in Keys
      /\ Exists(k)
      /\ command[k] \in Command
      /\ CommandTypeOK
      BY <1>1, PostOf, RowType DEF CommandInv
<1>3. /\ post[c].type \in DOMAIN NextState
      /\ post[c].authEpoch <= Episodes(command[k].events)
      /\ post[c].type = "AUTH_REQUIRED" => post[c].authEpoch + 1 <= Episodes(command[k].events)
      /\ post[c].seq + 1 \in DOMAIN command[k].events
      /\ command[k].events[post[c].seq + 1] = post[c].type
      /\ command[k].authEpoch <= Episodes(command[k].events)
      BY <1>1, <1>2 DEF CommandInv, HandlerInv, RowInv, Recorded
<1>4. NextState[post[c].type] \in States \ {"QUEUED"}
      BY <1>3 DEF NextState, States
<1>5. /\ row \in Command
      /\ row.state = NextState[post[c].type]
      /\ row.device = command[k].device
      /\ row.events = command[k].events
      /\ row.authEpoch <= Episodes(command[k].events)
  <2>1. Episodes(command[k].events) \in Nat
        BY <1>2, EpisodesNatural
  <2> QED BY <1>2, <1>3, <1>4, <2>1, UpdatedRow
<1> HIDE DEF row
<1>6. RowsTyped /\ Grow /\ \A j \in Keys : RowInv(j)'
      BY <1>1, <1>2, <1>4, <1>5, ReplacingKeepsRows
<1>7. command'[k].events = command[k].events
      BY <1>1, <1>2, <1>5 DEF CommandTypeOK
<1> QED BY <1>1, <1>3, <1>6, <1>7, FinishKeeps

LEMMA PostCrashKeeps ==
    ASSUME CommandInv, NEW c \in Posts, PostCrash(c)
    PROVE  CommandInv'
<1>1. /\ post[c].pc # "free"
      /\ Finish(c, FALSE)
      /\ UNCHANGED <<command, request, retry>>
      BY DEF PostCrash
<1>2. RowsTyped /\ Grow /\ \A j \in Keys : RowInv(j)'
      BY <1>1, NothingLost
<1> QED BY <1>1, <1>2, FinishKeeps

-----------------------------------------------------------------------------
(* The extension.                                                           *)

LEMMA RestartAuthenticationKeeps ==
    ASSUME CommandInv, NEW d \in Devices, RestartAuthentication(d)
    PROVE  CommandInv'
<1>1. "AUTH_REQUIRED" \in DeviceEvents /\ ext[d].at \in Working
      BY DEF RestartAuthentication, DeviceEvents, Working
<1> QED BY <1>1, PostingKeeps DEF RestartAuthentication

\* The extension goes on, without any request.
LEMMA MovingKeeps ==
    ASSUME CommandInv, NEW d \in Devices, NEW at \in ExtensionSteps \ {"waiting", "dispatched"},
           NEW last \in EventTypes \cup {NoEventType},
           ext' = [ext EXCEPT ![d].last = last, ![d].at = at],
           ext[d].at \in Working \ {"waiting"},
           at = "execute" => Recorded(ext[d].key, ext[d].next, {"COMMAND_STARTED", "DATA_BATCH"}),
           at = "complete" => Recorded(ext[d].key, ext[d].next, {"DATA_BATCH"}),
           UNCHANGED <<command, request, post, retry>>
    PROVE  CommandInv'
<1>1. RowsTyped /\ Grow /\ \A j \in Keys : RowInv(j)'
      BY NothingLost
<1>2. /\ ext \in [Devices -> Extension]
      /\ ext[d] \in Extension
      /\ ExtensionInv(d)
      /\ CallInv(d)
      BY DEF CommandInv, CommandTypeOK
<1>3. [ext[d] EXCEPT !.last = last, !.at = at] \in Extension
      BY <1>2 DEF Extension
<1>4. /\ ext' \in [Devices -> Extension]
      /\ ext'[d].at = at
      /\ ext'[d].key = ext[d].key
      /\ ext'[d].next = ext[d].next
      /\ ext'[d].call = ext[d].call
      /\ \A f \in Devices \ {d} : ext'[f] = ext[f]
      BY <1>2, <1>3 DEF Extension
<1>5. /\ ext[d].key \in Keys
      /\ Exists(ext[d].key)
      /\ command[ext[d].key].device = d
      /\ ext[d].call = NoPost
      BY <1>2 DEF ExtensionInv, CallInv, Working
<1>6. ExtensionInv(d)' /\ CallInv(d)'
      BY <1>4, <1>5 DEF ExtensionInv, CallInv, Exists, Recorded
<1> QED BY <1>1, <1>4, <1>6, ExtensionStepKeeps

LEMMA SignInNeededKeeps ==
    ASSUME CommandInv, NEW d \in Devices, NEW requirement \in SignIns, SignInNeeded(d, requirement)
    PROVE  CommandInv'
<1>1. /\ requirement \in {"AUTH_REQUIRED", "MFA_REQUIRED"}
      /\ requirement \in DeviceEvents
      /\ ext[d].at = "dispatched"
      /\ ext[d].at \in Working
      /\ ext[d] \in Extension
      BY SignInAssumption DEF SignInNeeded, DeviceEvents, Working, CommandInv, CommandTypeOK
<1>2. CASE ext[d].last = requirement
  <2>1. /\ ext' = [ext EXCEPT ![d].at = Following(requirement)]
        /\ UNCHANGED <<command, request, post, retry>>
        BY <1>2 DEF SignInNeeded
  <2>2. Following(requirement) \in {"auth", "mfa"}
        BY <1>1 DEF Following
  <2>3. ext' = [ext EXCEPT ![d].last = ext[d].last, ![d].at = Following(requirement)]
        BY <1>1, <2>1 DEF Extension, CommandInv, CommandTypeOK
  <2>4. ext[d].last \in EventTypes \cup {NoEventType}
        BY <1>1 DEF Extension
  <2>5. Following(requirement) \in ExtensionSteps \ {"waiting", "dispatched", "execute", "complete"}
        BY <2>2 DEF ExtensionSteps
  <2> QED BY <1>1, <2>1, <2>3, <2>4, <2>5, MovingKeeps
<1>3. CASE ext[d].last # requirement
  <2>1. Posting(d, requirement)
        BY <1>3 DEF SignInNeeded
  <2> QED BY <1>1, <2>1, PostingKeeps
<1> QED BY <1>2, <1>3

LEMMA ReadInputKeeps ==
    ASSUME CommandInv, NEW d \in Devices, NEW target \in BOOLEAN, ReadInput(d, target)
    PROVE  CommandInv'
<1>1. /\ ext[d].at = "dispatched"
      /\ ext[d].at \in Working \ {"waiting"}
      /\ UNCHANGED <<command, request, post, retry>>
      BY DEF ReadInput, Working
<1>2. ext[d].last # NoEventType => Recorded(ext[d].key, ext[d].next, {ext[d].last})
      BY <1>1 DEF CommandInv, ExtensionInv
<1>3. PICK at \in {"fail", "start", "execute", "complete"} :
         /\ ext' = [ext EXCEPT ![d].last = NoEventType, ![d].at = at]
         /\ at = "execute" => ext[d].last \in {"COMMAND_STARTED", "DATA_BATCH"}
         /\ at = "complete" => ext[d].last = "DATA_BATCH"
  <2> DEFINE at ==
         IF ~(InputReadable(ext[d].key) /\ target) THEN "fail"
         ELSE IF ext[d].last \notin {"COMMAND_STARTED", "DATA_BATCH"} THEN "start"
         ELSE IF ext[d].last = "DATA_BATCH" /\ Capability = "PREPARE_APPLICATION_DRAFT"
         THEN "complete"
         ELSE "execute"
  <2>1. ext' = [ext EXCEPT ![d].last = NoEventType, ![d].at = at]
        BY DEF ReadInput
  <2> QED BY <2>1
<1>4. /\ at = "execute" => Recorded(ext[d].key, ext[d].next, {"COMMAND_STARTED", "DATA_BATCH"})
      /\ at = "complete" => Recorded(ext[d].key, ext[d].next, {"DATA_BATCH"})
      BY <1>2, <1>3 DEF Recorded, NoEventType
<1>5. at \in ExtensionSteps \ {"waiting", "dispatched"}
      BY DEF ExtensionSteps
<1> QED BY <1>1, <1>3, <1>4, <1>5, MovingKeeps

LEMMA ReportStartKeeps ==
    ASSUME CommandInv, NEW d \in Devices, ReportStart(d)
    PROVE  CommandInv'
<1>1. "COMMAND_STARTED" \in DeviceEvents /\ ext[d].at \in Working
      BY DEF ReportStart, DeviceEvents, Working
<1> QED BY <1>1, PostingKeeps DEF ReportStart

LEMMA ExecuteKeeps ==
    ASSUME CommandInv, NEW d \in Devices, Execute(d)
    PROVE  CommandInv'
<1>1. "DATA_BATCH" \in DeviceEvents /\ ext[d].at \in Working
      BY DEF Execute, DeviceEvents, Working
<1>2. Recorded(ext[d].key, ext[d].next, {"COMMAND_STARTED", "DATA_BATCH"})
      BY DEF Execute, CommandInv, ExtensionInv
<1> QED BY <1>1, <1>2, PostingKeeps DEF Execute

LEMMA ExecuteFailsKeeps ==
    ASSUME CommandInv, NEW d \in Devices, ExecuteFails(d)
    PROVE  CommandInv'
<1>1. /\ ext[d].at \in Working \ {"waiting"}
      /\ ext' = [ext EXCEPT ![d].at = "fail"]
      /\ UNCHANGED <<command, request, post, retry>>
      BY DEF ExecuteFails, Working
<1>2. ext \in [Devices -> Extension] /\ ext[d].last \in EventTypes \cup {NoEventType}
      BY DEF CommandInv, CommandTypeOK, Extension
<1>3. ext' = [ext EXCEPT ![d].last = ext[d].last, ![d].at = "fail"]
      BY <1>1, <1>2 DEF Extension
<1>4. "fail" \in ExtensionSteps \ {"waiting", "dispatched"}
      BY DEF ExtensionSteps
<1> QED BY <1>1, <1>2, <1>3, <1>4, MovingKeeps

LEMMA ReportCompletionKeeps ==
    ASSUME CommandInv, NEW d \in Devices, ReportCompletion(d)
    PROVE  CommandInv'
<1>1. "COMMAND_COMPLETED" \in DeviceEvents /\ ext[d].at \in Working
      BY DEF ReportCompletion, DeviceEvents, Working
<1>2. Recorded(ext[d].key, ext[d].next, {"DATA_BATCH"})
      BY DEF ReportCompletion, CommandInv, ExtensionInv
<1> QED BY <1>1, <1>2, PostingKeeps DEF ReportCompletion

LEMMA ReportFailureKeeps ==
    ASSUME CommandInv, NEW d \in Devices, ReportFailure(d)
    PROVE  CommandInv'
<1>1. "COMMAND_FAILED" \in DeviceEvents /\ ext[d].at \in Working
      BY DEF ReportFailure, DeviceEvents, Working
<1> QED BY <1>1, PostingKeeps DEF ReportFailure

LEMMA AnswerLostKeeps ==
    ASSUME CommandInv, NEW d \in Devices, AnswerLost(d)
    PROVE  CommandInv'
<1>1. RowsTyped /\ Grow /\ \A j \in Keys : RowInv(j)'
      BY NothingLost DEF AnswerLost
<1>2. /\ ext' = [ext EXCEPT ![d] = Heard(ext[d], post[ext[d].call].type, FALSE)]
      /\ ext[d].at = "waiting"
      /\ ext \in [Devices -> Extension]
      BY DEF AnswerLost, CommandInv, CommandTypeOK
<1>3. /\ ext'[d] = Heard(ext[d], post[ext[d].call].type, FALSE)
      /\ \A f \in Devices \ {d} : ext'[f] = ext[f]
      BY <1>2
<1>4. ext'[d] \in Extension /\ ExtensionInv(d)' /\ CallInv(d)'
      BY <1>1, <1>2, <1>3, AnswerHeard
<1>5. ext' \in [Devices -> Extension]
      BY <1>2, <1>3, <1>4
<1> QED BY <1>1, <1>3, <1>4, <1>5, ExtensionStepKeeps DEF AnswerLost

LEMMA WorkerKilledKeeps ==
    ASSUME CommandInv, NEW d \in Devices, WorkerKilled(d)
    PROVE  CommandInv'
BY SleepKeeps DEF WorkerKilled

-----------------------------------------------------------------------------

LEMMA CommandInitInv ==
    ASSUME CommandInit
    PROVE  CommandInv
<1>1. CommandTypeOK
  <2>1. Idle \in Request /\ FreePost \in Post /\ Asleep \in Extension /\ NoRetry \in Nat
        BY AsleepExtension
        DEF Idle, Request, RequestSteps, FreePost, Post, PostSteps, AuthStates, NoRetry
  <2> QED BY <2>1 DEF CommandInit, CommandTypeOK
<1>2. \A k \in Keys : RowInv(k) /\ RetryInv(k)
      BY DEF CommandInit, RowInv, RetryInv, Exists
<1>3. \A u \in Requests : RequestInv(u)
      BY DEF CommandInit, RequestInv, Idle
<1>4. \A c \in Posts : PostInv(c) /\ HandlerInv(c)
      BY DEF CommandInit, PostInv, HandlerInv, FreePost
<1>5. \A d \in Devices : ExtensionInv(d) /\ CallInv(d)
      BY DEF CommandInit, ExtensionInv, CallInv, Asleep, Working
<1> QED BY <1>1, <1>2, <1>3, <1>4, <1>5 DEF CommandInv

\* What the invariant says of the log and of its episodes.
LEMMA InvImpliesReports ==
    ASSUME CommandInv
    PROVE  WorkFollowsItsReport /\ EpisodesAreLogged
BY DEF CommandInv, RowInv, OrderedLog, WorkFollowsItsReport, EpisodesAreLogged

-----------------------------------------------------------------------------
(* Every action is a step of the ledger, or leaves it as it is.             *)

LedgerStep == Ledger!Next \/ UNCHANGED <<Confirmed, Holder, Hands, Log>>

LEMMA SameRows ==
    ASSUME UNCHANGED command
    PROVE  UNCHANGED <<Confirmed, Holder, Log>>
BY DEF Confirmed, Holder, Log, Exists

LEMMA SameHands ==
    ASSUME UNCHANGED ext
    PROVE  UNCHANGED Hands
BY DEF Hands

\* What the ledger sees of a row that is replaced.
LEMMA RowSeen ==
    ASSUME CommandTypeOK, NEW k \in Keys, NEW row \in Command,
           command' = [command EXCEPT ![k] = row]
    PROVE  /\ Confirmed' = IF row.confirmation = "APPROVED"
                           THEN Confirmed \cup {k} ELSE Confirmed \ {k}
           /\ Holder' = [Holder EXCEPT ![k] = row.device]
           /\ Log' = [Log EXCEPT ![k] = row.events]
<1>1. /\ command'[k] = row
      /\ row # NoCommand
      /\ \A j \in Keys \ {k} : command'[j] = command[j]
      BY RowExists DEF CommandTypeOK
<1>2. Confirmed' = IF row.confirmation = "APPROVED"
                   THEN Confirmed \cup {k} ELSE Confirmed \ {k}
      BY <1>1 DEF Confirmed, Exists
<1>3. Holder' = [Holder EXCEPT ![k] = row.device]
  <2>1. \A j \in Keys : Holder'[j] = IF j = k THEN row.device ELSE Holder[j]
        BY <1>1 DEF Holder, Exists
  <2>2. Holder = [j \in Keys |-> Holder[j]] /\ Holder' = [j \in Keys |-> Holder'[j]]
        BY DEF Holder
  <2> HIDE DEF Holder
  <2> QED BY <2>1, <2>2
<1>4. Log' = [Log EXCEPT ![k] = row.events]
  <2>1. \A j \in Keys : Log'[j] = IF j = k THEN row.events ELSE Log[j]
        BY <1>1 DEF Log, Exists
  <2>2. Log = [j \in Keys |-> Log[j]] /\ Log' = [j \in Keys |-> Log'[j]]
        BY DEF Log
  <2> HIDE DEF Log
  <2> QED BY <2>1, <2>2
<1> QED BY <1>2, <1>3, <1>4

\* Devices lay down what they were doing.
LEMMA LayingDown ==
    ASSUME UNCHANGED <<Confirmed, Holder, Log>>,
           \A d \in Devices : Hands'[d] \in {Hands[d], NoKey}
    PROVE  LedgerStep
<1> DEFINE D == {d \in Devices : Hands'[d] = NoKey}
<1>1. Hands' = [d \in Devices |-> IF d \in D THEN NoKey ELSE Hands[d]]
  <2>1. \A d \in Devices : Hands'[d] = IF d \in D THEN NoKey ELSE Hands[d]
        OBVIOUS
  <2> QED BY <2>1 DEF Hands
<1>2. Ledger!LayDown(D)
      BY <1>1 DEF Ledger!LayDown
<1>3. D \in SUBSET Devices
      OBVIOUS
<1> QED BY <1>2, <1>3 DEF LedgerStep, Ledger!Next

\* A finished request leaves a device at its command, or lays it down.
LEMMA HandsAfterFinish ==
    ASSUME CommandInv, NEW c \in Posts, NEW ok \in BOOLEAN, Finish(c, ok), NEW d \in Devices
    PROVE  Hands'[d] \in {Hands[d], NoKey}
<1>1. CallInv(d) /\ ext[d] \in Extension
      BY DEF CommandInv, CommandTypeOK
<1>2. CASE ext[d].call # c
      BY <1>2 DEF Finish, Hands
<1>3. CASE ext[d].call = c
  <2>1. ext[d].at \in Working
        BY <1>1, <1>3, PostAssumption DEF CallInv, Working
  <2>2. ext'[d] = Heard(ext[d], post[c].type, ok)
        BY <1>3 DEF Finish
  <2>3. Heard(ext[d], post[c].type, ok).key = ext[d].key \/ Heard(ext[d], post[c].type, ok) = Asleep
        BY <1>1 DEF Heard, Extension
  <2>4. Asleep.at \notin Working
        BY DEF Asleep, Working
  <2> QED BY <2>1, <2>2, <2>3, <2>4 DEF Hands
<1> QED BY <1>2, <1>3

\* A row is replaced by one that the ledger cannot tell from it.
LEMMA SameSeen ==
    ASSUME CommandTypeOK, NEW k \in Keys, Exists(k), NEW row \in Command,
           command' = [command EXCEPT ![k] = row],
           row.confirmation = command[k].confirmation,
           row.device = command[k].device,
           row.events = command[k].events
    PROVE  UNCHANGED <<Confirmed, Holder, Log>>
<1>1. /\ Confirmed' = IF row.confirmation = "APPROVED"
                      THEN Confirmed \cup {k} ELSE Confirmed \ {k}
      /\ Holder' = [Holder EXCEPT ![k] = row.device]
      /\ Log' = [Log EXCEPT ![k] = row.events]
      BY RowSeen
<1>2. Confirmed' = Confirmed
      BY <1>1 DEF Confirmed
<1>3. Holder[k] = row.device /\ Log[k] = row.events
      BY DEF Holder, Log
<1>4. Holder' = Holder /\ Log' = Log
      BY <1>1, <1>3, ZenonT(60) DEF Holder, Log
<1> QED BY <1>2, <1>4

\* An event is recorded.
LEMMA Recording ==
    ASSUME CommandTypeOK, NEW k \in Keys, Exists(k), NEW row \in Command, NEW type \in EventTypes,
           command' = [command EXCEPT ![k] = row],
           row.confirmation = command[k].confirmation,
           row.device = command[k].device,
           row.events = Append(command[k].events, type),
           type \in DeviceEvents => command[k].device # NoDevice,
           UNCHANGED Hands
    PROVE  LedgerStep
<1>1. /\ Confirmed' = IF row.confirmation = "APPROVED"
                      THEN Confirmed \cup {k} ELSE Confirmed \ {k}
      /\ Holder' = [Holder EXCEPT ![k] = row.device]
      /\ Log' = [Log EXCEPT ![k] = row.events]
      BY RowSeen
<1>2. Confirmed' = Confirmed
      BY <1>1 DEF Confirmed
<1>3. Holder[k] = row.device /\ Log[k] = command[k].events
      BY DEF Holder, Log
<1>4. Holder' = Holder
      BY <1>1, <1>3 DEF Holder
<1>5. Log' = [Log EXCEPT ![k] = Append(Log[k], type)]
      BY <1>1, <1>3
<1>6. Ledger!Record(k, type)
      BY <1>2, <1>3, <1>4, <1>5 DEF Ledger!Record
<1>7. type \in AgentEvents \cup DeviceEvents
      BY DEF AgentEvents
<1> QED BY <1>6, <1>7 DEF LedgerStep, Ledger!Next

LEMMA Appending ==
    ASSUME CommandTypeOK, NEW k \in Keys, Exists(k), NEW type \in EventTypes, Append1(k, type),
           type \in DeviceEvents => command[k].device # NoDevice,
           UNCHANGED Hands
    PROVE  LedgerStep
<1>1. /\ command' = [command EXCEPT ![k] = command'[k]]
      /\ command'[k] \in Command
      /\ command'[k].events = Append(command[k].events, type)
      /\ command'[k].device = command[k].device
      /\ command'[k].confirmation = command[k].confirmation
      BY EventAppended
<1>2. ASSUME NEW row \in Command, row = command'[k] PROVE LedgerStep
      BY <1>1, <1>2, Recording
<1> QED BY <1>1, <1>2

\* Nothing that the ledger sees.
LEMMA Unseen ==
    ASSUME UNCHANGED command, UNCHANGED Hands
    PROVE  LedgerStep
BY SameRows DEF LedgerStep

-----------------------------------------------------------------------------

LEMMA AskStep ==
    ASSUME NEW u \in Requests, NEW k \in Keys, Ask(u, k) PROVE LedgerStep
BY Unseen, SameHands DEF Ask

LEMMA IssueFindStep ==
    ASSUME NEW u \in Requests, IssueFind(u) PROVE LedgerStep
BY Unseen, SameHands DEF IssueFind

LEMMA IssueCreateStep ==
    ASSUME CommandInv, NEW u \in Requests, IssueCreate(u) PROVE LedgerStep
<1> DEFINE k == request[u].key
<1>1. k \in Keys /\ CommandTypeOK /\ UNCHANGED Hands
      BY SameHands DEF IssueCreate, CommandInv, RequestInv, RequestSteps
<1>2. CASE Exists(k)
      BY <1>1, <1>2, Unseen DEF IssueCreate
<1>3. CASE ~Exists(k)
  <2>1. command' = [command EXCEPT ![k] = NewCommand]
        BY <1>3 DEF IssueCreate
  <2>2. /\ NewCommand \in Command
        /\ NewCommand.confirmation # "APPROVED"
        /\ NewCommand.device = NoDevice
        /\ NewCommand.events = <<>>
        BY DEF NewCommand, Command, States, Confirmations, AuthStates
  <2>3. /\ Confirmed' = Confirmed \ {k}
        /\ Holder' = [Holder EXCEPT ![k] = NoDevice]
        /\ Log' = [Log EXCEPT ![k] = <<>>]
        BY <1>1, <2>1, <2>2, RowSeen
  <2>4. Confirmed' = Confirmed
        BY <1>3, <2>3 DEF Confirmed
  <2>5. Holder[k] = NoDevice /\ Log[k] = <<>>
        BY <1>1, <1>3 DEF Holder, Log
  <2>6. Holder' = Holder /\ Log' = Log
        BY <2>3, <2>5 DEF Holder, Log
  <2> QED BY <1>1, <2>4, <2>6 DEF LedgerStep
<1> QED BY <1>2, <1>3

LEMMA IssueFirstEventStep ==
    ASSUME CommandInv, NEW u \in Requests, IssueFirstEvent(u) PROVE LedgerStep
<1> DEFINE k == request[u].key
<1>1. k \in Keys /\ Exists(k) /\ CommandTypeOK /\ UNCHANGED Hands
      BY SameHands DEF IssueFirstEvent, CommandInv, RequestInv, RequestSteps
<1>2. CASE Append1(k, "WAITING_FOR_CONFIRMATION")
  <2>1. /\ "WAITING_FOR_CONFIRMATION" \in EventTypes
        /\ "WAITING_FOR_CONFIRMATION" \notin DeviceEvents
        BY DEF EventTypes, DeviceEvents
  <2> QED BY <1>1, <1>2, <2>1, Appending
<1>3. CASE UNCHANGED command
      BY <1>1, <1>3, Unseen
<1> QED BY <1>2, <1>3 DEF IssueFirstEvent

LEMMA ApproveReadStep ==
    ASSUME CommandInv, NEW u \in Requests, ApproveRead(u) PROVE LedgerStep
<1> DEFINE k == request[u].key
           row == [command[k] EXCEPT !.state = "CANCELLED", !.confirmation = "EXPIRED"]
<1>1. k \in Keys /\ Exists(k) /\ CommandTypeOK /\ UNCHANGED Hands
      BY SameHands DEF ApproveRead, CommandInv, RequestInv, RequestSteps
<1>2. CASE UNCHANGED command
      BY <1>1, <1>2, Unseen
<1>3. CASE command' = [command EXCEPT ![k].state = "CANCELLED", ![k].confirmation = "EXPIRED"]
  <2>1. command[k] \in Command
        BY <1>1, RowType
  <2>2. command' = [command EXCEPT ![k] = row]
        BY <1>1, <1>3 DEF CommandTypeOK
  <2>3. /\ row \in Command
        /\ row.confirmation # "APPROVED"
        /\ row.device = command[k].device
        /\ row.events = command[k].events
        BY <2>1 DEF Command, States, Confirmations
  <2> HIDE DEF row
  <2>4. /\ Confirmed' = Confirmed \ {k}
        /\ Holder' = [Holder EXCEPT ![k] = command[k].device]
        /\ Log' = [Log EXCEPT ![k] = command[k].events]
    <3>1. /\ Confirmed' = IF row.confirmation = "APPROVED"
                          THEN Confirmed \cup {k} ELSE Confirmed \ {k}
          /\ Holder' = [Holder EXCEPT ![k] = row.device]
          /\ Log' = [Log EXCEPT ![k] = row.events]
          BY <1>1, <2>2, <2>3, RowSeen
    <3> QED BY <2>3, <3>1
  <2>5. Holder[k] = command[k].device /\ Log[k] = command[k].events
        BY <1>1 DEF Holder, Log
  <2>6. Holder' = Holder /\ Log' = Log
        BY <2>4, <2>5 DEF Holder, Log
  <2>7. Ledger!Lapse(k)
        BY <1>1, <2>4, <2>6 DEF Ledger!Lapse
  <2> QED BY <1>1, <2>7 DEF LedgerStep, Ledger!Next
<1> QED BY <1>2, <1>3 DEF ApproveRead

LEMMA ApproveWriteStep ==
    ASSUME CommandInv, NEW u \in Requests, ApproveWrite(u) PROVE LedgerStep
<1> DEFINE k == request[u].key
           row == [command[k] EXCEPT !.state = "QUEUED", !.confirmation = "APPROVED"]
<1>1. k \in Keys /\ Exists(k) /\ CommandTypeOK /\ UNCHANGED Hands
      BY SameHands DEF ApproveWrite, CommandInv, RequestInv, RequestSteps
<1>2. command[k] \in Command
      BY <1>1, RowType
<1>3. command' = [command EXCEPT ![k] = row]
      BY <1>1 DEF ApproveWrite, CommandTypeOK
<1>4. /\ row \in Command
      /\ row.confirmation = "APPROVED"
      /\ row.device = command[k].device
      /\ row.events = command[k].events
      BY <1>2 DEF Command, States, Confirmations
<1> HIDE DEF row
<1>5. /\ Confirmed' = Confirmed \cup {k}
      /\ Holder' = [Holder EXCEPT ![k] = command[k].device]
      /\ Log' = [Log EXCEPT ![k] = command[k].events]
  <2>1. /\ Confirmed' = IF row.confirmation = "APPROVED"
                        THEN Confirmed \cup {k} ELSE Confirmed \ {k}
        /\ Holder' = [Holder EXCEPT ![k] = row.device]
        /\ Log' = [Log EXCEPT ![k] = row.events]
        BY <1>1, <1>3, <1>4, RowSeen
  <2> QED BY <1>4, <2>1
<1>6. Holder[k] = command[k].device /\ Log[k] = command[k].events
      BY <1>1 DEF Holder, Log
<1>7. Holder' = Holder /\ Log' = Log
      BY <1>5, <1>6 DEF Holder, Log
<1>8. Ledger!Confirm(k)
      BY <1>1, <1>5, <1>7 DEF Ledger!Confirm
<1> QED BY <1>1, <1>8 DEF LedgerStep, Ledger!Next

LEMMA ApproveAcceptStep ==
    ASSUME CommandInv, NEW u \in Requests, ApproveAccept(u) PROVE LedgerStep
<1> DEFINE k == request[u].key
<1>1. k \in Keys /\ Exists(k) /\ CommandTypeOK /\ UNCHANGED Hands
      BY SameHands DEF ApproveAccept, CommandInv, RequestInv, RequestSteps
<1>2. CASE Append1(k, "COMMAND_ACCEPTED")
  <2>1. "COMMAND_ACCEPTED" \in EventTypes /\ "COMMAND_ACCEPTED" \notin DeviceEvents
        BY DEF EventTypes, DeviceEvents
  <2> QED BY <1>1, <1>2, <2>1, Appending
<1>3. CASE UNCHANGED command
      BY <1>1, <1>3, Unseen
<1> QED BY <1>2, <1>3 DEF ApproveAccept

LEMMA RequestCrashStep ==
    ASSUME NEW u \in Requests, RequestCrash(u) PROVE LedgerStep
BY Unseen, SameHands DEF RequestCrash

LEMMA ExpireStep ==
    ASSUME CommandInv, NEW k \in Keys, Expire(k) PROVE LedgerStep
<1> DEFINE row == [command[k] EXCEPT !.expired = TRUE]
<1>1. Exists(k) /\ CommandTypeOK /\ UNCHANGED Hands
      BY SameHands DEF Expire, CommandInv
<1>2. command[k] \in Command
      BY <1>1, RowType
<1>3. command' = [command EXCEPT ![k] = row]
      BY <1>1 DEF Expire, CommandTypeOK
<1>4. /\ row \in Command
      /\ row.confirmation = command[k].confirmation
      /\ row.device = command[k].device
      /\ row.events = command[k].events
      BY <1>2 DEF Command
<1> HIDE DEF row
<1> QED BY <1>1, <1>3, <1>4, SameSeen DEF LedgerStep

LEMMA RetryReadStep ==
    ASSUME NEW k \in Keys, RetryRead(k) PROVE LedgerStep
BY Unseen, SameHands DEF RetryRead

LEMMA RetryCommitStep ==
    ASSUME CommandInv, NEW k \in Keys, RetryCommit(k) PROVE LedgerStep
<1> DEFINE type == "AUTH_RETRY_REQUESTED"
<1>1. Exists(k) /\ CommandTypeOK /\ UNCHANGED Hands
      BY SameHands DEF RetryCommit, CommandInv, RetryInv
<1>2. command[k] \in Command /\ type \in EventTypes /\ type \notin DeviceEvents
      BY <1>1, RowType DEF EventTypes, DeviceEvents
<1>3. CASE UNCHANGED command
      BY <1>1, <1>3, Unseen
<1>4. CASE command' = [command EXCEPT ![k] = Requeued(command[k])]
  <2>1. Append(command[k].events, type) \in Seq(EventTypes)
        BY <1>2 DEF Command
  <2>2. /\ Requeued(command[k]) \in Command
        /\ Requeued(command[k]).confirmation = command[k].confirmation
        /\ Requeued(command[k]).device = command[k].device
        /\ Requeued(command[k]).events = Append(command[k].events, type)
        BY <1>2, <2>1 DEF Requeued, Command, States, AuthStates
  <2> QED BY <1>1, <1>2, <1>4, <2>2, Recording
<1> QED BY <1>3, <1>4 DEF RetryCommit

-----------------------------------------------------------------------------

LEMMA ClaimOwnedStep ==
    ASSUME CommandInv, NEW d \in Devices, NEW k \in Keys, ClaimOwned(d, k) PROVE LedgerStep
<1>1. /\ CommandTypeOK
      /\ Exists(k)
      /\ command[k].device = d
      /\ ext' = [ext EXCEPT ![d] = Dispatched(k)]
      /\ UNCHANGED <<Confirmed, Holder, Log>>
      BY SameRows DEF ClaimOwned, CommandInv
<1>2. Dispatched(k).at \in Working /\ Dispatched(k).key = k
      BY DEF Dispatched, Working
<1>3. Hands' = [Hands EXCEPT ![d] = k]
      BY <1>1, <1>2 DEF Hands, CommandTypeOK
<1>4. Holder[k] = d
      BY <1>1 DEF Holder
<1>5. Ledger!TakeUp(d, k)
      BY <1>1, <1>3, <1>4 DEF Ledger!TakeUp
<1> QED BY <1>5 DEF LedgerStep, Ledger!Next

LEMMA ClaimUnboundStep ==
    ASSUME CommandInv, NEW d \in Devices, NEW k \in Keys, ClaimUnbound(d, k) PROVE LedgerStep
<1>1. /\ ext[d].at \notin Working
      /\ UNCHANGED command
      /\ ext' = [ext EXCEPT ![d] = [Asleep EXCEPT !.at = "claiming", !.key = k]]
      /\ ext \in [Devices -> Extension]
      BY DEF ClaimUnbound, Polling, Working, CommandInv, CommandTypeOK
<1>2. [Asleep EXCEPT !.at = "claiming", !.key = k].at \notin Working
      BY DEF Asleep, Working
<1>3. Hands' = Hands
      BY <1>1, <1>2 DEF Hands
<1> QED BY <1>1, <1>3, Unseen

LEMMA ClaimCommitStep ==
    ASSUME CommandInv, NEW d \in Devices, ClaimCommit(d) PROVE LedgerStep
<1> DEFINE k == ext[d].key
           row == [command[k] EXCEPT !.device = d]
<1>1. /\ CommandTypeOK
      /\ k \in Keys
      /\ Exists(k)
      /\ ext[d].at \notin Working
      /\ ext \in [Devices -> Extension]
      BY DEF ClaimCommit, CommandInv, CommandTypeOK, ExtensionInv, Working
<1>2. CASE Claimable(k)
  <2>1. command[k] \in Command /\ command[k].device = NoDevice /\ command[k].state = "QUEUED"
        BY <1>1, <1>2, RowType DEF Claimable
  <2>2. command' = [command EXCEPT ![k] = row] /\ ext' = [ext EXCEPT ![d] = Dispatched(k)]
        BY <1>1, <1>2 DEF ClaimCommit, CommandTypeOK
  <2>3. command[k].confirmation = "APPROVED"
        BY <1>1, <2>1 DEF CommandInv, RowInv
  <2>4. /\ row \in Command
        /\ row.confirmation = "APPROVED"
        /\ row.device = d
        /\ row.events = command[k].events
        BY <2>1, <2>3 DEF Command
  <2> HIDE DEF row
  <2>5. /\ Confirmed' = IF row.confirmation = "APPROVED"
                        THEN Confirmed \cup {k} ELSE Confirmed \ {k}
        /\ Holder' = [Holder EXCEPT ![k] = row.device]
        /\ Log' = [Log EXCEPT ![k] = row.events]
        BY <1>1, <2>2, <2>4, RowSeen
  <2>6. k \in Confirmed /\ Holder[k] = NoDevice /\ Log[k] = command[k].events
        BY <1>1, <2>1, <2>3 DEF Confirmed, Holder, Log
  <2>7. Confirmed' = Confirmed
        BY <2>4, <2>5, <2>6
  <2>8. Log' = Log
        BY <2>4, <2>5, <2>6 DEF Log
  <2>9. Hands' = [Hands EXCEPT ![d] = k]
    <3>1. Dispatched(k).at \in Working /\ Dispatched(k).key = k
          BY DEF Dispatched, Working
    <3> QED BY <1>1, <2>2, <3>1 DEF Hands
  <2>10. Ledger!Bind(d, k)
        BY <2>4, <2>5, <2>6, <2>7, <2>8, <2>9 DEF Ledger!Bind
  <2> QED BY <1>1, <2>10 DEF LedgerStep, Ledger!Next
<1>3. CASE ~Claimable(k)
  <2>1. UNCHANGED command /\ ext' = [ext EXCEPT ![d] = Asleep]
        BY <1>3 DEF ClaimCommit
  <2>2. Hands' = Hands
        BY <1>1, <2>1 DEF Hands, Asleep, Working
  <2> QED BY <2>1, <2>2, Unseen
<1> QED BY <1>2, <1>3

\* A request ends, and the ledger sees no change in any row.
LEMMA FinishStep ==
    ASSUME CommandInv, NEW c \in Posts, NEW ok \in BOOLEAN, Finish(c, ok),
           UNCHANGED <<Confirmed, Holder, Log>>
    PROVE  LedgerStep
BY HandsAfterFinish, LayingDown

LEMMA PostReadStep ==
    ASSUME CommandInv, NEW c \in Posts, PostRead(c) PROVE LedgerStep
<1>1. UNCHANGED command /\ UNCHANGED <<Confirmed, Holder, Log>>
      BY SameRows DEF PostRead
<1>2. CASE Finish(c, FALSE)
      BY <1>1, <1>2, FinishStep
<1>3. CASE UNCHANGED ext
      BY <1>1, <1>3, SameHands, Unseen
<1> QED BY <1>2, <1>3 DEF PostRead

LEMMA PostAppendStep ==
    ASSUME CommandInv, NEW c \in Posts, PostAppend(c) PROVE LedgerStep
<1> DEFINE k == post[c].key
           type == post[c].type
<1>1. /\ post[c].pc = "append"
      /\ k \in Keys
      /\ Exists(k)
      /\ type \in EventTypes
      /\ type \in DeviceEvents
      /\ CommandTypeOK
      BY PostOf DEF PostAppend, CommandInv
<1>2. command[k].device # NoDevice
      BY <1>1 DEF CommandInv, PostInv
<1>3. CASE ~NextNumber(c)
      BY <1>3, SameRows, FinishStep DEF PostAppend
<1>4. CASE NextNumber(c)
  <2>1. Append1(k, type)
        BY <1>4 DEF PostAppend
  <2>2. UNCHANGED Hands
    <3>1. CASE type \in DOMAIN NextState
          BY <1>4, <3>1, SameHands DEF PostAppend
    <3>2. CASE type \notin DOMAIN NextState
      <4>1. type = "DATA_BATCH"
            BY <1>1, <3>2 DEF NextState, DeviceEvents
      <4>2. Finish(c, TRUE)
            BY <1>4, <3>2 DEF PostAppend
      <4>3. ASSUME NEW f \in Devices
            PROVE  /\ ext'[f].at \in Working <=> ext[f].at \in Working
                   /\ ext'[f].key = ext[f].key
        <5>1. CASE ext[f].call # c
              BY <4>2, <5>1 DEF Finish
        <5>2. CASE ext[f].call = c
          <6>1. ext[f].at \in Working /\ ext[f] \in Extension
                BY <5>2, PostAssumption DEF CommandInv, CommandTypeOK, CallInv, Working
          <6>2. ext'[f] = Heard(ext[f], type, TRUE)
                BY <4>2, <5>2 DEF Finish
          <6>3. ext'[f] = [ext[f] EXCEPT !.at = "complete", !.next = ext[f].next + 1, !.call = NoPost]
                BY <4>1, <6>2 DEF Heard, Following
          <6>4. ext'[f].at = "complete" /\ ext'[f].key = ext[f].key
                BY <6>1, <6>3 DEF Extension
          <6> QED BY <6>1, <6>4 DEF Working
        <5> QED BY <5>1, <5>2
      <4> QED BY <4>3 DEF Hands
    <3> QED BY <3>1, <3>2
  <2> QED BY <1>1, <1>2, <2>1, <2>2, Appending
<1> QED BY <1>3, <1>4

LEMMA PostUpdateStep ==
    ASSUME CommandInv, NEW c \in Posts, PostUpdate(c) PROVE LedgerStep
<1> DEFINE k == post[c].key
           row == Updated(command[k], post[c])
<1>1. /\ post[c].pc = "update"
      /\ Finish(c, TRUE)
      /\ command' = [command EXCEPT ![k] = row]
      BY DEF PostUpdate
<1>2. /\ post[c] \in Post
      /\ k \in Keys
      /\ Exists(k)
      /\ command[k] \in Command
      /\ CommandTypeOK
      BY <1>1, PostOf, RowType DEF CommandInv
<1>3. /\ post[c].type \in DOMAIN NextState
      /\ post[c].authEpoch <= Episodes(command[k].events)
      /\ post[c].type = "AUTH_REQUIRED" => post[c].authEpoch + 1 <= Episodes(command[k].events)
      /\ command[k].authEpoch <= Episodes(command[k].events)
      /\ Episodes(command[k].events) \in Nat
      BY <1>1, <1>2, EpisodesNatural DEF CommandInv, HandlerInv, RowInv
<1>4. NextState[post[c].type] \in States
      BY <1>3 DEF NextState, States
<1>5. /\ row \in Command
      /\ row.confirmation = command[k].confirmation
      /\ row.device = command[k].device
      /\ row.events = command[k].events
      BY <1>2, <1>3, <1>4, UpdatedRow
<1> HIDE DEF row
<1> QED BY <1>1, <1>2, <1>5, SameSeen, FinishStep

LEMMA PostCrashStep ==
    ASSUME CommandInv, NEW c \in Posts, PostCrash(c) PROVE LedgerStep
BY SameRows, FinishStep DEF PostCrash

-----------------------------------------------------------------------------

\* A device goes on with its command, or lays it down.
LEMMA OwnHands ==
    ASSUME UNCHANGED command, NEW d \in Devices, ext[d].at \in Working,
           \A f \in Devices \ {d} : ext'[f] = ext[f],
           ext'[d].key = ext[d].key \/ ext'[d].at \notin Working
    PROVE  LedgerStep
<1>1. UNCHANGED <<Confirmed, Holder, Log>>
      BY SameRows
<1>2. \A f \in Devices : Hands'[f] \in {Hands[f], NoKey}
      BY DEF Hands
<1> QED BY <1>1, <1>2, LayingDown

LEMMA PostingStep ==
    ASSUME CommandInv, NEW d \in Devices, NEW type \in DeviceEvents, Posting(d, type),
           ext[d].at \in Working
    PROVE  LedgerStep
<1>1. PICK c \in Posts : ext' = [ext EXCEPT ![d].at = "waiting", ![d].call = c]
      BY DEF Posting
<1>2. ext \in [Devices -> Extension] /\ ext[d] \in Extension
      BY DEF CommandInv, CommandTypeOK
<1>3. /\ \A f \in Devices \ {d} : ext'[f] = ext[f]
      /\ ext'[d].key = ext[d].key
      BY <1>1, <1>2 DEF Extension
<1>4. UNCHANGED command
      BY DEF Posting
<1> QED BY <1>3, <1>4, OwnHands

LEMMA RestartAuthenticationStep ==
    ASSUME CommandInv, NEW d \in Devices, RestartAuthentication(d) PROVE LedgerStep
BY PostingStep DEF RestartAuthentication, DeviceEvents, Working

LEMMA SignInNeededStep ==
    ASSUME CommandInv, NEW d \in Devices, NEW requirement \in SignIns, SignInNeeded(d, requirement)
    PROVE  LedgerStep
<1>1. /\ requirement \in DeviceEvents
      /\ ext[d].at \in Working
      /\ ext \in [Devices -> Extension]
      /\ ext[d] \in Extension
      BY SignInAssumption DEF SignInNeeded, DeviceEvents, Working, CommandInv, CommandTypeOK
<1>2. CASE Posting(d, requirement)
      BY <1>1, <1>2, PostingStep
<1>3. CASE ext' = [ext EXCEPT ![d].at = Following(requirement)] /\ UNCHANGED command
  <2>1. \A f \in Devices \ {d} : ext'[f] = ext[f]
        BY <1>1, <1>3
  <2>2. ext'[d].key = ext[d].key
        BY <1>1, <1>3 DEF Extension
  <2> QED BY <1>1, <1>3, <2>1, <2>2, OwnHands
<1> QED BY <1>2, <1>3 DEF SignInNeeded

LEMMA ReadInputStep ==
    ASSUME CommandInv, NEW d \in Devices, NEW target, ReadInput(d, target) PROVE LedgerStep
<1>1. /\ ext[d].at \in Working
      /\ UNCHANGED command
      /\ ext \in [Devices -> Extension]
      /\ ext[d] \in Extension
      BY DEF ReadInput, Working, CommandInv, CommandTypeOK
<1>2. /\ \A f \in Devices \ {d} : ext'[f] = ext[f]
      /\ ext'[d].key = ext[d].key
      BY <1>1 DEF ReadInput, Extension
<1> QED BY <1>1, <1>2, OwnHands

LEMMA ReportStartStep ==
    ASSUME CommandInv, NEW d \in Devices, ReportStart(d) PROVE LedgerStep
BY PostingStep DEF ReportStart, DeviceEvents, Working

LEMMA ExecuteStep ==
    ASSUME CommandInv, NEW d \in Devices, Execute(d) PROVE LedgerStep
BY PostingStep DEF Execute, DeviceEvents, Working

LEMMA ExecuteFailsStep ==
    ASSUME CommandInv, NEW d \in Devices, ExecuteFails(d) PROVE LedgerStep
<1>1. /\ ext[d].at \in Working
      /\ UNCHANGED command
      /\ ext \in [Devices -> Extension]
      /\ ext[d] \in Extension
      /\ ext' = [ext EXCEPT ![d].at = "fail"]
      BY DEF ExecuteFails, Working, CommandInv, CommandTypeOK
<1>2. /\ \A f \in Devices \ {d} : ext'[f] = ext[f]
      /\ ext'[d].key = ext[d].key
      BY <1>1 DEF Extension
<1> QED BY <1>1, <1>2, OwnHands

LEMMA ReportCompletionStep ==
    ASSUME CommandInv, NEW d \in Devices, ReportCompletion(d) PROVE LedgerStep
BY PostingStep DEF ReportCompletion, DeviceEvents, Working

LEMMA ReportFailureStep ==
    ASSUME CommandInv, NEW d \in Devices, ReportFailure(d) PROVE LedgerStep
BY PostingStep DEF ReportFailure, DeviceEvents, Working

LEMMA AnswerLostStep ==
    ASSUME CommandInv, NEW d \in Devices, AnswerLost(d) PROVE LedgerStep
<1> DEFINE e == Heard(ext[d], post[ext[d].call].type, FALSE)
<1>1. /\ ext[d].at \in Working
      /\ UNCHANGED command
      /\ ext \in [Devices -> Extension]
      /\ ext[d] \in Extension
      /\ ext' = [ext EXCEPT ![d] = e]
      BY DEF AnswerLost, Working, CommandInv, CommandTypeOK
<1>2. e.key = ext[d].key \/ e = Asleep
      BY <1>1 DEF Heard, Extension
<1>3. Asleep.at \notin Working
      BY DEF Asleep, Working
<1> HIDE DEF e
<1> QED BY <1>1, <1>2, <1>3, OwnHands

LEMMA WorkerKilledStep ==
    ASSUME CommandInv, NEW d \in Devices, WorkerKilled(d) PROVE LedgerStep
<1>1. UNCHANGED <<Confirmed, Holder, Log>>
      BY SameRows DEF WorkerKilled
<1>2. Asleep.at \notin Working
      BY DEF Asleep, Working
<1>3. \A f \in Devices : Hands'[f] \in {Hands[f], NoKey}
      BY <1>2 DEF WorkerKilled, Hands, CommandInv, CommandTypeOK
<1> QED BY <1>1, <1>3, LayingDown

LEMMA LedgerStart ==
    ASSUME CommandInit
    PROVE  Ledger!Init
<1>1. Confirmed = {} /\ Holder = [k \in Keys |-> NoDevice] /\ Log = [k \in Keys |-> <<>>]
      BY DEF CommandInit, Confirmed, Holder, Log, Exists
<1>2. Hands = [d \in Devices |-> NoKey]
      BY DEF CommandInit, Hands, Asleep, Working
<1> QED BY <1>1, <1>2 DEF Ledger!Init

\* A step that is none of the commands'.
LEMMA CommandStutter ==
    ASSUME CommandInv, UNCHANGED commandVars
    PROVE  CommandInv' /\ LedgerStep
<1>1. UNCHANGED <<command, request, post, retry, ext>>
      BY DEF commandVars
<1>2. RowsTyped /\ Grow /\ \A j \in Keys : RowInv(j)'
      BY <1>1, NothingLost
<1>3. CommandTypeOK'
      BY <1>1 DEF CommandInv, CommandTypeOK
<1>4. CommandInv'
  <2>1. \A v \in Requests : RequestInv(v)'
        BY <1>1, <1>2, RequestKept
  <2>2. \A j \in Keys : RetryInv(j)'
        BY <1>1, <1>2, RetryKept
  <2>3. \A b \in Posts : PostInv(b)' /\ HandlerInv(b)'
        BY <1>1, <1>2, PostKept
  <2>4. \A f \in Devices : ExtensionInv(f)'
        BY <1>1, <1>2, ExtensionKept
  <2>5. \A f \in Devices : CallInv(f)'
        BY <1>1, CallKept DEF CommandInv, CallInv
  <2> QED BY <1>2, <1>3, <2>1, <2>2, <2>3, <2>4, <2>5 DEF CommandInv
<1> QED BY <1>1, <1>4, SameHands, Unseen

\* What an appended event adds to what was recorded.
LEMMA LoggedAppended ==
    ASSUME CommandTypeOK, NEW k \in Keys, Exists(k), NEW type \in EventTypes, Append1(k, type)
    PROVE  Logged(k)' = Logged(k) \cup {type}
<1>1. command'[k].events = Append(command[k].events, type)
      BY EventAppended
<1>2. command[k].events \in Seq(EventTypes)
      BY LogOf
<1>3. ASSUME NEW log \in Seq(EventTypes)
      PROVE  {Append(log, type)[i] : i \in DOMAIN Append(log, type)}
                = {log[i] : i \in DOMAIN log} \cup {type}
  <2>1. /\ DOMAIN Append(log, type) = 1 .. Len(log) + 1
        /\ DOMAIN log = 1 .. Len(log)
        /\ \A i \in 1 .. Len(log) : Append(log, type)[i] = log[i]
        /\ Append(log, type)[Len(log) + 1] = type
        OBVIOUS
  <2>2. Len(log) + 1 \in 1 .. Len(log) + 1 /\ 1 .. Len(log) \subseteq 1 .. Len(log) + 1
        OBVIOUS
  <2>3. \A i \in 1 .. Len(log) + 1 : i \in 1 .. Len(log) \/ i = Len(log) + 1
        OBVIOUS
  <2> QED BY <2>1, <2>2, <2>3
<1>4. Logged(k) = {command[k].events[i] : i \in DOMAIN command[k].events}
      BY DEF Logged
<1>5. Logged(k)' = {command'[k].events[i] : i \in DOMAIN command'[k].events}
      BY DEF Logged
<1>6. {Append(command[k].events, type)[i] : i \in DOMAIN Append(command[k].events, type)}
         = {command[k].events[i] : i \in DOMAIN command[k].events} \cup {type}
      BY <1>2, <1>3
<1> QED BY <1>1, <1>4, <1>5, <1>6

=============================================================================
