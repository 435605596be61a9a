---------------------------- MODULE Connections ----------------------------
(***************************************************************************)
(* The connection registry: one Redis key scorpion:conn:<client>:<ip> per  *)
(* (client, IP) pair, written by every SSE handler of every instance.      *)
(*                                                                         *)
(* A handler (V1SSEStreamEvents, after it consumed its ticket) registers   *)
(* its key with SET NX and a TTL, renews the TTL with EXPIRE on every poll *)
(* tick of RunLoop, and removes the key with DEL in a deferred function.   *)
(* Each command is one atomic step of Redis.  go-redis repeats a command   *)
(* whose reply it did not get, whether or not Redis executed it.  Time is  *)
(* counted in ticks; an instance can crash at any moment, and the process  *)
(* started in its place has a fresh instance id.  An instance that is told *)
(* to stop waits for its handlers, up to ShutdownTimeout, then removes the *)
(* keys that hold its id (CleanupInstance: SCAN, GET, DEL) and exits.      *)
(***************************************************************************)
EXTENDS Integers, FiniteSets

CONSTANTS
    Instances,    \* instance ids: one uuid for every start of the process
    Handlers,     \* request handlers, reused from one request to the next
    Keys,         \* (client, IP) pairs
    ConnTTL,      \* SSE.ConnTTL, in ticks
    MaxGap,       \* most ticks between two renewals Redis executes for a
                  \* running handler, or between the last one and its DEL
    MaxRetries,   \* go-redis: how often a command without a reply is repeated
    LoseReplies,  \* commands whose reply may be lost after Redis executed them
    Shutdowns,    \* how srv.Shutdown may end: "graceful" (no handler is left),
                  \* "forced" (ShutdownTimeout ran out)
    MaxLag,       \* most ticks between a GET of a clean-up and its DEL
    NoOwner,      \* the value of a key that does not exist
    NoKey         \* the key of a handler with no request

ASSUME TTLAssumption == ConnTTL \in Nat \ {0}
ASSUME GapAssumption == MaxGap \in Nat
ASSUME RetryAssumption == MaxRetries \in Nat
ASSUME RepliesAssumption == LoseReplies \subseteq {"SET", "DEL"}
ASSUME ShutdownsAssumption == Shutdowns \subseteq {"graceful", "forced"}
ASSUME LagAssumption == MaxLag \in Nat
ASSUME NoOwnerAssumption == NoOwner \notin Instances
ASSUME NoKeyAssumption == NoKey \notin Keys

VARIABLES
    owner,   \* owner[k]: the instance id stored under k, or NoOwner
    ttl,     \* ttl[k]: ticks until Redis drops k; 0 for a key without expiry
    status,  \* status[i]: where the process of instance i is
    sweep,   \* sweep[i]: the state of CleanupInstance in instance i
    pc,      \* pc[h]: where the handler is
    key,     \* key[h]: the key the handler works on
    inst,    \* inst[h]: the instance the handler runs in
    tries,   \* tries[h]: repetitions of the current command so far
    gap      \* gap[h]: ticks since Redis last set the TTL of key[h] for h

redis == <<owner, ttl>>
vars == <<owner, ttl, status, sweep, pc, key, inst, tries, gap>>

PCs == {"idle", "registering", "streaming", "closing", "redeleting"}

\* "stopping": in srv.Shutdown; "drained", "forced": in CleanupInstance, after
\* srv.Shutdown returned nil or an error; "stopped": exited from "drained"
\* with every command of the clean-up carried out; "down": exited otherwise.
Statuses == {"new", "up", "stopping", "drained", "forced", "stopped", "down"}

\* CleanupInstance: the part of the key space SCAN has still to cover, the
\* keys of the current page not yet looked at, the key about to be deleted,
\* repetitions of its DEL, ticks since its GET, and whether every command was
\* carried out.
SweepStates ==
    [pc : {"off", "scan", "get", "del"}, todo : SUBSET Keys, page : SUBSET Keys,
     key : Keys \cup {NoKey}, tries : 0..MaxRetries, lag : 0..MaxLag, clean : BOOLEAN]

NoSweep ==
    [pc |-> "off", todo |-> {}, page |-> {}, key |-> NoKey, tries |-> 0, lag |-> 0,
     clean |-> TRUE]

(***************************************************************************)
(* The type invariant.                                                     *)
(***************************************************************************)
TypeOK ==
    /\ owner \in [Keys -> Instances \cup {NoOwner}]
    /\ ttl \in [Keys -> 0..ConnTTL]
    /\ status \in [Instances -> Statuses]
    /\ sweep \in [Instances -> SweepStates]
    /\ pc \in [Handlers -> PCs]
    /\ key \in [Handlers -> Keys \cup {NoKey}]
    /\ inst \in [Handlers -> Instances \cup {NoOwner}]
    /\ tries \in [Handlers -> 0..MaxRetries]
    /\ gap \in [Handlers -> 0..MaxGap]
    /\ \A h \in Handlers : pc[h] # "idle" => key[h] \in Keys /\ inst[h] \in Instances
    /\ \A i \in Instances : sweep[i].pc = "del" => sweep[i].key \in Keys

Init ==
    /\ owner = [k \in Keys |-> NoOwner]
    /\ ttl = [k \in Keys |-> 0]
    /\ status = [i \in Instances |-> "new"]
    /\ sweep = [i \in Instances |-> NoSweep]
    /\ pc = [h \in Handlers |-> "idle"]
    /\ key = [h \in Handlers |-> NoKey]
    /\ inst = [h \in Handlers |-> NoOwner]
    /\ tries = [h \in Handlers |-> 0]
    /\ gap = [h \in Handlers |-> 0]

\* A handler holds its key from the SET that created it to its DEL.
Holds(h) == pc[h] \in {"streaming", "closing"}

(***************************************************************************)
(* Redis.                                                                  *)
(***************************************************************************)
\* Mutant of SetNX: a SET without expiry.
SetNXWithoutTTL(k, value) ==
    /\ owner' = [owner EXCEPT ![k] = value]
    /\ ttl' = [ttl EXCEPT ![k] = 0]

\* SET k value NX EX ttl on a key that does not exist.
SetNX(k, value) ==
    /\ owner' = [owner EXCEPT ![k] = value]
    /\ ttl' = [ttl EXCEPT ![k] = ConnTTL]

\* Mutant of Expire: EXPIRE NX, which leaves a key that has a TTL alone.
ExpireNX(k) ==
    /\ ttl' = [ttl EXCEPT ![k] = IF owner[k] # NoOwner /\ @ = 0 THEN ConnTTL ELSE @]
    /\ UNCHANGED owner

\* EXPIRE sets the TTL of an existing key, whoever wrote it, and does
\* nothing to a key that is gone.
Expire(k) ==
    /\ ttl' = [ttl EXCEPT ![k] = IF owner[k] = NoOwner THEN 0 ELSE ConnTTL]
    /\ UNCHANGED owner

\* DEL removes the key whatever its value is.
Del(k) ==
    /\ owner' = [owner EXCEPT ![k] = NoOwner]
    /\ ttl' = [ttl EXCEPT ![k] = 0]

(***************************************************************************)
(* Steps of a handler.                                                     *)
(***************************************************************************)
\* The handler returns (a response, or the end of the stream).
Return(h) ==
    /\ pc' = [pc EXCEPT ![h] = "idle"]
    /\ key' = [key EXCEPT ![h] = NoKey]
    /\ inst' = [inst EXCEPT ![h] = NoOwner]
    /\ tries' = [tries EXCEPT ![h] = 0]
    /\ gap' = [gap EXCEPT ![h] = 0]

Goto(h, l) ==
    /\ pc' = [pc EXCEPT ![h] = l]
    /\ tries' = [tries EXCEPT ![h] = 0]
    /\ UNCHANGED <<key, inst>>

\* Mutant of Retry: one attempt too many.
RetryTooOften(h, l) ==
    /\ tries[h] <= MaxRetries
    /\ pc' = [pc EXCEPT ![h] = l]
    /\ tries' = [tries EXCEPT ![h] = @ + 1]
    /\ UNCHANGED <<key, inst, gap>>

\* go-redis sends the command again, now at l.
Retry(h, l) ==
    /\ tries[h] < MaxRetries
    /\ pc' = [pc EXCEPT ![h] = l]
    /\ tries' = [tries EXCEPT ![h] = @ + 1]
    /\ UNCHANGED <<key, inst, gap>>

\* Every retry is used up: the call reports an error and the handler returns.
GiveUp(h) ==
    /\ tries[h] = MaxRetries
    /\ Return(h)

\* A request with a valid ticket for k reaches Register in instance i.  (A
\* process that is shutting down still serves the connections it accepted.)
Arrive(h, i, k) ==
    /\ pc[h] = "idle"
    /\ status[i] \in {"up", "stopping", "forced"}
    /\ pc' = [pc EXCEPT ![h] = "registering"]
    /\ key' = [key EXCEPT ![h] = k]
    /\ inst' = [inst EXCEPT ![h] = i]
    /\ UNCHANGED <<owner, ttl, status, sweep, tries, gap>>

\* Mutant of Register: a plain SET.
RegisterOverwrites(h) ==
    /\ pc[h] = "registering"
    /\ SetNX(key[h], inst[h])
    /\ Goto(h, "streaming")
    /\ gap' = [gap EXCEPT ![h] = 0]
    /\ UNCHANGED <<status, sweep>>

\* SET NX creates the key: 200 and the stream starts.
Register(h) ==
    /\ pc[h] = "registering"
    /\ owner[key[h]] = NoOwner
    /\ SetNX(key[h], inst[h])
    /\ Goto(h, "streaming")
    /\ gap' = [gap EXCEPT ![h] = 0]
    /\ UNCHANGED <<status, sweep>>

\* Mutant of RegisterDuplicate: the handler renews the key it found.
RegisterDuplicateRenews(h) ==
    /\ pc[h] = "registering"
    /\ owner[key[h]] # NoOwner
    /\ Expire(key[h])
    /\ Return(h)
    /\ UNCHANGED <<status, sweep>>

\* SET NX finds the key: 429 duplicate_connection.
RegisterDuplicate(h) ==
    /\ pc[h] = "registering"
    /\ owner[key[h]] # NoOwner
    /\ Return(h)
    /\ UNCHANGED <<owner, ttl, status, sweep>>

\* Redis executes the SET and the reply is lost: the retry will find the
\* key, and 429; when go-redis gives up (no retry left, or the request's
\* context cancelled), 500.  Neither deletes the key.
RegisterLost(h) ==
    /\ pc[h] = "registering"
    /\ "SET" \in LoseReplies
    /\ \/ owner[key[h]] = NoOwner /\ SetNX(key[h], inst[h])
       \/ owner[key[h]] # NoOwner /\ UNCHANGED redis
    /\ Retry(h, "registering") \/ Return(h)
    /\ UNCHANGED <<status, sweep>>

\* The SET does not reach Redis: again, or 500.
RegisterUnsent(h) ==
    /\ pc[h] = "registering"
    /\ Retry(h, "registering") \/ Return(h)
    /\ UNCHANGED <<owner, ttl, status, sweep>>

\* A poll tick of RunLoop: Redis executes EXPIRE.  An EXPIRE that does not
\* reach Redis is only logged: it is a poll tick that changes nothing.
Refresh(h) ==
    /\ pc[h] = "streaming"
    /\ Expire(key[h])
    /\ gap' = [gap EXCEPT ![h] = 0]
    /\ UNCHANGED <<status, sweep, pc, key, inst, tries>>

\* RunLoop returns (request context cancelled, or a heartbeat that could
\* not be written) and the deferred Delete begins.
Leave(h) ==
    /\ pc[h] = "streaming"
    /\ Goto(h, "closing")
    /\ UNCHANGED <<owner, ttl, status, sweep, gap>>

\* DEL is executed and acknowledged.
Delete(h) ==
    /\ pc[h] \in {"closing", "redeleting"}
    /\ Del(key[h])
    /\ Return(h)
    /\ UNCHANGED <<status, sweep>>

\* DEL is executed and its reply lost: go-redis sends it again.
DeleteLost(h) ==
    /\ pc[h] \in {"closing", "redeleting"}
    /\ "DEL" \in LoseReplies
    /\ Del(key[h])
    /\ Retry(h, "redeleting") \/ GiveUp(h)
    /\ UNCHANGED <<status, sweep>>

\* DEL does not reach Redis; after the last attempt the error is logged and
\* the key is left to its TTL.
DeleteUnsent(h) ==
    /\ pc[h] \in {"closing", "redeleting"}
    /\ Retry(h, pc[h]) \/ GiveUp(h)
    /\ UNCHANGED <<owner, ttl, status, sweep>>

(***************************************************************************)
(* Instances and time.                                                     *)
(***************************************************************************)
Start(i) ==
    /\ status[i] = "new"
    /\ status' = [status EXCEPT ![i] = "up"]
    /\ UNCHANGED <<owner, ttl, sweep, pc, key, inst, tries, gap>>

\* The process ends, and its handlers with it.
Kill(i, s) ==
    /\ status' = [status EXCEPT ![i] = s]
    /\ sweep' = [sweep EXCEPT ![i] = NoSweep]
    /\ pc' = [h \in Handlers |-> IF inst[h] = i THEN "idle" ELSE pc[h]]
    /\ key' = [h \in Handlers |-> IF inst[h] = i THEN NoKey ELSE key[h]]
    /\ tries' = [h \in Handlers |-> IF inst[h] = i THEN 0 ELSE tries[h]]
    /\ gap' = [h \in Handlers |-> IF inst[h] = i THEN 0 ELSE gap[h]]
    /\ inst' = [h \in Handlers |-> IF inst[h] = i THEN NoOwner ELSE inst[h]]

\* The process dies; nothing is removed from Redis.
Crash(i) ==
    /\ status[i] \in {"up", "stopping", "drained", "forced"}
    /\ Kill(i, "down")
    /\ UNCHANGED <<owner, ttl>>

(***************************************************************************)
(* Shutdown.                                                               *)
(***************************************************************************)
\* SIGINT or SIGTERM: srv.Shutdown stops the listener and waits.  Nothing
\* tells the streams to end: appCtx is a context that is never cancelled.
Signal(i) ==
    /\ status[i] = "up"
    /\ Shutdowns # {}
    /\ status' = [status EXCEPT ![i] = "stopping"]
    /\ UNCHANGED <<owner, ttl, sweep, pc, key, inst, tries, gap>>

\* CleanupInstance begins: cursor 0.
BeginSweep(i) ==
    /\ sweep' = [sweep EXCEPT ![i] = [NoSweep EXCEPT !.pc = "scan", !.todo = Keys]]
    /\ UNCHANGED <<owner, ttl, pc, key, inst, tries, gap>>

\* srv.Shutdown returns nil: no connection is left.
Drained(i) ==
    /\ status[i] = "stopping"
    /\ "graceful" \in Shutdowns
    /\ \A h \in Handlers : inst[h] # i
    /\ status' = [status EXCEPT ![i] = "drained"]
    /\ BeginSweep(i)

\* ShutdownTimeout runs out: the error is logged, the handlers run on.
Forced(i) ==
    /\ status[i] = "stopping"
    /\ "forced" \in Shutdowns
    /\ status' = [status EXCEPT ![i] = "forced"]
    /\ BeginSweep(i)

\* Where the sweep goes when it is done with a key: to the rest of its page,
\* or to the next SCAN.
NextKey(page) == IF page = {} THEN "scan" ELSE "get"

\* Mutant of SweepScan: the loop ends after the first page.
SweepScanOnce(i) ==
    /\ sweep[i].pc = "scan"
    /\ \E part \in SUBSET sweep[i].todo :
          /\ part # {}
          /\ LET page == {k \in part : owner[k] # NoOwner}
             IN  sweep' = [sweep EXCEPT ![i] = [@ EXCEPT !.todo = {}, !.page = page,
                                                         !.pc = NextKey(page)]]
    /\ UNCHANGED <<owner, ttl, status, pc, key, inst, tries, gap>>

\* Mutant of SweepScan: the cursor is not moved on.
SweepScanStuck(i) ==
    /\ sweep[i].pc = "scan"
    /\ \E part \in SUBSET sweep[i].todo :
          /\ part # {}
          /\ LET page == {k \in part : owner[k] # NoOwner}
             IN  sweep' = [sweep EXCEPT ![i] = [@ EXCEPT !.page = page, !.pc = NextKey(page)]]
    /\ UNCHANGED <<owner, ttl, status, pc, key, inst, tries, gap>>

\* A SCAN call covers some part of the key space and returns the connection
\* keys it finds there; the cursor is 0 again when all of it is covered.
SweepScan(i) ==
    /\ sweep[i].pc = "scan"
    /\ \E part \in SUBSET sweep[i].todo :
          /\ part # {}
          /\ LET page == {k \in part : owner[k] # NoOwner}
             IN  sweep' = [sweep EXCEPT ![i] = [@ EXCEPT !.todo = sweep[i].todo \ part, !.page = page,
                                                         !.pc = NextKey(page)]]
    /\ UNCHANGED <<owner, ttl, status, pc, key, inst, tries, gap>>

\* SCAN fails: the loop ends.
SweepScanError(i) ==
    /\ sweep[i].pc = "scan"
    /\ sweep[i].todo # {}
    /\ sweep' = [sweep EXCEPT ![i] = [@ EXCEPT !.todo = {}, !.clean = FALSE]]
    /\ UNCHANGED <<owner, ttl, status, pc, key, inst, tries, gap>>

\* Mutant of SweepGet: the value is not compared with the instance's id.
SweepGetAny(i) ==
    /\ sweep[i].pc = "get"
    /\ \E k \in sweep[i].page :
          sweep' = [sweep EXCEPT ![i] = [@ EXCEPT !.page = sweep[i].page \ {k}, !.key = k, !.pc = "del"]]
    /\ UNCHANGED <<owner, ttl, status, pc, key, inst, tries, gap>>

\* GET of one key of the page: on to its DEL if it holds this instance's id.
SweepGet(i) ==
    /\ sweep[i].pc = "get"
    /\ \E k \in sweep[i].page :
          LET rest == sweep[i].page \ {k}
          IN  \/ /\ owner[k] = i
                 /\ sweep' = [sweep EXCEPT ![i] = [@ EXCEPT !.page = rest, !.key = k, !.pc = "del"]]
              \/ /\ owner[k] # i
                 /\ sweep' = [sweep EXCEPT ![i] = [@ EXCEPT !.page = rest, !.pc = NextKey(rest)]]
    /\ UNCHANGED <<owner, ttl, status, pc, key, inst, tries, gap>>

\* GET fails: the key is passed over.
SweepGetError(i) ==
    /\ sweep[i].pc = "get"
    /\ \E k \in sweep[i].page :
          LET rest == sweep[i].page \ {k}
          IN  sweep' = [sweep EXCEPT ![i] = [@ EXCEPT !.page = rest, !.pc = NextKey(rest),
                                                      !.clean = FALSE]]
    /\ UNCHANGED <<owner, ttl, status, pc, key, inst, tries, gap>>

\* The sweep is done with the key it was to delete.
SweptKey(i, ok) ==
    sweep' = [sweep EXCEPT ![i] = [@ EXCEPT !.pc = NextKey(sweep[i].page), !.key = NoKey, !.tries = 0,
                                            !.lag = 0, !.clean = sweep[i].clean /\ ok]]

\* DEL, whatever the key holds by now.
SweepDel(i) ==
    /\ sweep[i].pc = "del"
    /\ Del(sweep[i].key)
    /\ SweptKey(i, TRUE)
    /\ UNCHANGED <<status, pc, key, inst, tries, gap>>

\* DEL is executed and its reply lost: again, or the error is logged.
SweepDelLost(i) ==
    /\ sweep[i].pc = "del"
    /\ "DEL" \in LoseReplies
    /\ Del(sweep[i].key)
    /\ \/ /\ sweep[i].tries < MaxRetries
          /\ sweep' = [sweep EXCEPT ![i] = [@ EXCEPT !.tries = sweep[i].tries + 1]]
       \/ sweep[i].tries = MaxRetries /\ SweptKey(i, TRUE)
    /\ UNCHANGED <<status, pc, key, inst, tries, gap>>

\* DEL does not reach Redis: logged.
SweepDelError(i) ==
    /\ sweep[i].pc = "del"
    /\ SweptKey(i, FALSE)
    /\ UNCHANGED <<owner, ttl, status, pc, key, inst, tries, gap>>

\* The cursor is 0 again, or SCAN failed: runStart returns and the process
\* exits, with the handlers that are still running.
Exit(i) ==
    /\ sweep[i].pc = "scan"
    /\ sweep[i].todo = {}
    /\ Kill(i, IF status[i] = "drained" /\ sweep[i].clean THEN "stopped" ELSE "down")
    /\ UNCHANGED <<owner, ttl>>

\* One tick.  Redis drops a key whose TTL runs out.  The guards are the
\* bounds on how long a running handler goes without a renewal and on how
\* long a clean-up takes from a GET to its DEL.
Tick ==
    /\ \A h \in Handlers : Holds(h) => gap[h] < MaxGap
    /\ \A i \in Instances : sweep[i].pc = "del" => sweep[i].lag < MaxLag
    /\ gap' = [h \in Handlers |-> IF Holds(h) THEN gap[h] + 1 ELSE gap[h]]
    /\ owner' = [k \in Keys |-> IF ttl[k] = 1 THEN NoOwner ELSE owner[k]]
    /\ ttl' = [k \in Keys |-> IF ttl[k] = 0 THEN 0 ELSE ttl[k] - 1]
    /\ sweep' = [i \in Instances |-> IF sweep[i].pc = "del"
                                     THEN [sweep[i] EXCEPT !.lag = @ + 1] ELSE sweep[i]]
    /\ UNCHANGED <<status, pc, key, inst, tries>>

HandlerStep(h) ==
    \/ \E i \in Instances, k \in Keys : Arrive(h, i, k)
    \/ Register(h)
    \/ RegisterDuplicate(h)
    \/ RegisterLost(h)
    \/ RegisterUnsent(h)
    \/ Refresh(h)
    \/ Leave(h)
    \/ Delete(h)
    \/ DeleteLost(h)
    \/ DeleteUnsent(h)

SweepStep(i) ==
    \/ SweepScan(i) \/ SweepScanError(i)
    \/ SweepGet(i) \/ SweepGetError(i)
    \/ SweepDel(i) \/ SweepDelLost(i) \/ SweepDelError(i)
    \/ Exit(i)

Next ==
    \/ \E h \in Handlers : HandlerStep(h)
    \/ \E i \in Instances : Start(i) \/ Crash(i)
    \/ \E i \in Instances : Signal(i) \/ Drained(i) \/ Forced(i) \/ SweepStep(i)
    \/ Tick

Spec == Init /\ [][Next]_vars

\* Time passes, a poll tick that keeps failing succeeds in the end, a deferred
\* Delete is carried out or gives up, ShutdownTimeout runs out, and a clean-up
\* keeps going (every command of it ends, with or without success).
Fairness ==
    /\ WF_vars(Tick)
    /\ \A h \in Handlers :
          /\ WF_vars(Refresh(h))
          /\ WF_vars(Delete(h) \/ DeleteUnsent(h))
    /\ \A i \in Instances :
          /\ WF_vars(Drained(i) \/ Forced(i))
          /\ WF_vars(SweepStep(i))

FairSpec == Spec /\ Fairness

(***************************************************************************)
(* Properties.                                                             *)
(***************************************************************************)
\* No (client, IP) pair ever has two running streams, over all instances
\* (Register, stream.go:110, is the only gate).
OneStream ==
    \A g, h \in Handlers :
        pc[g] = "streaming" /\ pc[h] = "streaming" /\ key[g] = key[h] => g = h

\* A running stream, and one that still has its Delete to do, never loses its
\* key: it holds the id of its own instance, and what is left of the TTL is
\* what the handler's last renewal gave it.  (Refresh neither recreates a key
\* nor looks at its value; Delete does not look at it either.)
StreamHoldsKey ==
    \A h \in Handlers : Holds(h) =>
        /\ owner[key[h]] = inst[h]
        /\ ttl[key[h]] >= 1
        /\ ttl[key[h]] = ConnTTL - gap[h]

\* A key that no handler stands behind any more (crashed instance, Delete
\* that failed, SET whose reply was lost) is dropped in the end, so that its
\* client is not locked out for ever.
GhostKeysExpire ==
    \A k \in Keys :
        (owner[k] # NoOwner /\ \A h \in Handlers : ~(Holds(h) /\ key[h] = k))
            ~> owner[k] = NoOwner

\* The DEL of a clean-up does not look at the key again, so what the GET saw may
\* be stale (connection.go:89-94): the key can lapse, or be deleted by its own
\* handler or by an earlier execution of this DEL, and another instance can
\* register it.  But that is the only way in which a clean-up takes the key of
\* another process: whatever fails, lags or is repeated, a foreign key that it is
\* about to delete had its TTL set after the GET.  A stream or a ghost of another
\* process that was there before is never touched.
SweepsOwnOrNew ==
    \A i \in Instances : sweep[i].pc = "del" =>
        \/ owner[sweep[i].key] \in {i, NoOwner}
        \/ ttl[sweep[i].key] >= ConnTTL - sweep[i].lag

\* A process that ended its handlers and carried out its clean-up leaves no
\* key behind that would lock a client out (CleanupInstance, connection.go:80).
SweptClean ==
    \A i \in Instances : status[i] = "stopped" => \A k \in Keys : owner[k] # i

\* A process that is told to stop exits: srv.Shutdown has a timeout and the
\* SCAN loop of CleanupInstance comes to an end, whatever Redis does.
ShutdownEnds ==
    \A i \in Instances : (status[i] = "stopping") ~> (status[i] \in {"stopped", "down"})

(***************************************************************************)
(* The registry implements the abstract lease: the handlers that hold a    *)
(* key, from their SET to their DEL, are its holders.                      *)
(***************************************************************************)
holders == [k \in Keys |-> {h \in Handlers : Holds(h) /\ key[h] = k}]

L == INSTANCE Lease

\* Every step of the registry is a step of the lease or leaves it alone: a key
\* is taken only when nobody holds it and never passes from one handler to
\* another (Register, stream.go:110, against Delete, stream.go:148, and the end
\* of processes).
ImplementsLease == L!Spec
=============================================================================
