-------------------------------- MODULE Fetch --------------------------------
(***************************************************************************)
(* The fetch framework: server/internal/market/fetch.go and request.go, for*)
(* one kind of data of one datasource.                                     *)
(*                                                                         *)
(* A fetch reads the open blocks once, answers what it can from the cache, *)
(* sends the rest in chunks with retries, stores the answers and then      *)
(* records every key and the blocks its failures earned in one             *)
(* transaction.  Fetches run concurrently and share the cache, the blocks  *)
(* and the datasource's limiter; an administrator clears blocks meanwhile. *)
(*                                                                         *)
(* A request is what it is sent as, an element of Ids (an identifier or a  *)
(* domain), or Unserved where the integration declines it.  A block's      *)
(* scope is an element of Ids or Everything.  Durations are left out: a    *)
(* pause holds until PauseEnds, a cached answer until CacheExpires.        *)
(***************************************************************************)
EXTENDS Integers, Sequences, FiniteSets

CONSTANTS Fetches,    \* the fetch runs
          Ids,        \* what a request can be sent as
          Unserved,   \* a request the integration declines
          Everything, \* the scope of a block of the whole datasource
          NoKey,      \* no fetch key
          Requests,   \* the request sequences a fetch may be asked for
          Batch,      \* Integration.Batch: requests per call, 0 for no limit
          Tries       \* calls one chunk may cost (retryTries)

ASSUME FetchAssumption == /\ Batch \in Nat
                          /\ Tries \in Nat \ {0}
                          /\ Everything \notin Ids /\ Unserved \notin Ids
                          /\ NoKey \notin Fetches \X Nat
                          /\ Requests \subseteq Seq(Ids \cup {Unserved})

VARIABLES pc,       \* where the fetch is
          reqs,     \* its requests
          fresh,    \* whether it skips the cache read
          blocked,  \* its blockSet: scopes read as it started or earned since
          out,      \* the outcome of each request
          attempts, \* the calls each request cost
          batch,    \* the requests to send, by index
          pos,      \* how many of batch have been handled
          attempt,  \* calls made for the current chunk
          pending,  \* blocks to write: scope and the index of the failed key
          paused,   \* limiter.until is in the future
          late,     \* calls each fetch has made since the pause began
          cache,    \* the sent identifiers whose answer Redis holds
          open,     \* open block of each scope: the fetch key that earned it
          reports   \* open block findings: scope and fetch key

local == <<pc, reqs, fresh, blocked, out, attempts, batch, pos, attempt, pending>>
shared == <<paused, late, cache, open, reports>>
vars == <<local, shared>>

Scopes == Ids \cup {Everything}
\* A fetch key is a fetch and the index of a request.
Keys == Fetches \X Nat
PCs == {"idle", "read", "check", "wait", "store", "record", "done", "failed"}
Outcomes == {"none", "not_served", "cached", "served", "blocked", "temporary", "permanent"}
Failures == [temporary : BOOLEAN, scope : {"key", "datasource", "request"}, after : BOOLEAN]

Init == /\ pc = [f \in Fetches |-> "idle"]
        /\ reqs = [f \in Fetches |-> <<>>]
        /\ fresh = [f \in Fetches |-> FALSE]
        /\ blocked = [f \in Fetches |-> {}]
        /\ out = [f \in Fetches |-> <<>>]
        /\ attempts = [f \in Fetches |-> <<>>]
        /\ batch = [f \in Fetches |-> <<>>]
        /\ pos = [f \in Fetches |-> 0]
        /\ attempt = [f \in Fetches |-> 0]
        /\ pending = [f \in Fetches |-> {}]
        /\ paused = FALSE
        /\ late = [f \in Fetches |-> 0]
        /\ cache = {}
        /\ open = [s \in Scopes |-> NoKey]
        /\ reports = {}

-----------------------------------------------------------------------------
(* fetchRun up to the first call *)

\* blockSet.covers
Covered(scopes, id) == Everything \in scopes \/ id \in scopes

\* CreateFetch, ListOpenBlocks, and Serves for each request.
Begin(f) ==
  /\ pc[f] = "idle"
  /\ \E q \in Requests, fr \in BOOLEAN :
       /\ reqs' = [reqs EXCEPT ![f] = q]
       /\ fresh' = [fresh EXCEPT ![f] = fr]
       /\ out' = [out EXCEPT ![f] = [i \in DOMAIN q |->
                    IF q[i] = Unserved THEN "not_served" ELSE "none"]]
       /\ attempts' = [attempts EXCEPT ![f] = [i \in DOMAIN q |-> 0]]
  /\ blocked' = [blocked EXCEPT ![f] = {s \in Scopes : open[s] # NoKey}]
  /\ pc' = [pc EXCEPT ![f] = "read"]
  /\ UNCHANGED <<batch, pos, attempt, pending, shared>>

\* Mutant: a fresh fetch reads the cache too.
Triage_FreshIgnored(f, i) ==
  IF out[f][i] # "none" THEN out[f][i]
  ELSE IF reqs[f][i] \in cache THEN "cached"
  ELSE IF Covered(blocked[f], reqs[f][i]) THEN "blocked"
  ELSE "none"

\* The outcome a request has once the cache and the blocks were consulted: the
\* cache comes first.
Triage(f, i) ==
  IF out[f][i] # "none" THEN out[f][i]
  ELSE IF ~fresh[f] /\ reqs[f][i] \in cache THEN "cached"
  ELSE IF Covered(blocked[f], reqs[f][i]) THEN "blocked"
  ELSE "none"

\* Whether b lists the indexes in s once each, in order.
Lists(b, s) == /\ {b[p] : p \in DOMAIN b} = s
               /\ \A p, q \in DOMAIN b : p < q => b[p] < b[q]

\* readCache, then the requests left to send.
ReadCache(f) ==
  /\ pc[f] = "read"
  /\ LET o == [i \in DOMAIN reqs[f] |-> Triage(f, i)]
         left == {i \in DOMAIN o : o[i] = "none"}
     IN /\ out' = [out EXCEPT ![f] = o]
        /\ \E b \in [1..Cardinality(left) -> left] : Lists(b, left) /\ batch' = [batch EXCEPT ![f] = b]
        /\ pc' = [pc EXCEPT ![f] = IF left = {} THEN "store" ELSE "check"]
  /\ UNCHANGED <<reqs, fresh, blocked, attempts, pos, attempt, pending, shared>>

-----------------------------------------------------------------------------
(* fetchChunk and request *)

\* The last position of the chunk after position p.
ChunkEnd(f, p) == IF Batch = 0 \/ p + Batch > Len(batch[f]) THEN Len(batch[f]) ELSE p + Batch

Chunk(f) == {batch[f][p] : p \in (pos[f] + 1)..ChunkEnd(f, pos[f])}

\* The requests of the chunk that earlier chunks' blocks do not suppress.
Send(f) == {i \in Chunk(f) : ~Covered(blocked[f], reqs[f][i])}

\* Mutant: the blocks of a chunk are only written, never added to the fetch's own set.
Suppressed_NotAdded(f, new) == blocked[f]

\* blockSet.add
Suppressed(f, new) == blocked[f] \cup {b[1] : b \in new}

\* The chunk is over: o are the outcomes of its sent requests, n the calls they
\* cost and new the blocks they earned, which suppress the chunks after it.
ChunkEnds(f, o, n, new) ==
  /\ out' = [out EXCEPT ![f] = [i \in DOMAIN out[f] |->
               IF i \in DOMAIN o THEN o[i]
               ELSE IF i \in Chunk(f) THEN "blocked" ELSE out[f][i]]]
  /\ attempts' = [attempts EXCEPT ![f] = [i \in DOMAIN out[f] |->
               IF i \in DOMAIN o THEN n ELSE attempts[f][i]]]
  /\ pending' = [pending EXCEPT ![f] = @ \cup new]
  /\ blocked' = [blocked EXCEPT ![f] = Suppressed(f, new)]
  /\ pos' = [pos EXCEPT ![f] = ChunkEnd(f, pos[f])]
  /\ attempt' = [attempt EXCEPT ![f] = 0]
  /\ pc' = [pc EXCEPT ![f] = IF ChunkEnd(f, pos[f]) = Len(batch[f]) THEN "store" ELSE "check"]
  /\ UNCHANGED <<reqs, fresh, batch>>

\* Every request of the chunk is suppressed, so no call is made.
SkipChunk(f) == /\ pc[f] = "check" /\ Send(f) = {}
                /\ ChunkEnds(f, <<>>, 0, {})
                /\ UNCHANGED shared

\* The pause fails the chunk without a call; otherwise the call waits its turn.
CheckPause(f) ==
  /\ pc[f] = "check" /\ Send(f) # {}
  /\ \/ /\ paused
        /\ ChunkEnds(f, [i \in Send(f) |-> "temporary"], attempt[f], {})
     \/ /\ ~paused
        /\ pc' = [pc EXCEPT ![f] = "wait"]
        /\ UNCHANGED <<reqs, fresh, blocked, out, attempts, batch, pos, attempt, pending>>
  /\ UNCHANGED shared

\* A call of f is counted against the pause in force.
Counted(f) == IF paused THEN [late EXCEPT ![f] = @ + 1] ELSE late

\* identifierBlock, for each index whose own failure blocks.
IdBlocks(f, s) == {<<reqs[f][i], i>> : i \in s}

\* The call succeeds, with a response or an error for each request: a
\* temporary one, a permanent one about the identifier, or a permanent one about
\* the request's other terms, which blocks nothing.
Answered(f) ==
  \E resp \in [Send(f) -> {"served", "temporary", "identifier", "terms"}] :
    /\ ChunkEnds(f, [i \in Send(f) |-> IF resp[i] \in {"served", "temporary"} THEN resp[i]
                                        ELSE "permanent"],
                 attempt[f] + 1,
                 IdBlocks(f, {i \in Send(f) : resp[i] = "identifier"}))
    /\ UNCHANGED paused

\* Mutant: a repeated call is not counted.
Calls_NotCounted(n) == n

\* The calls made once one more has been.
Calls(n) == n + 1

\* A failure the framework repeats the call for.
Retries(fail, n) == fail.temporary /\ fail.scope # "datasource" /\ n < Tries

\* Mutant: a temporary refusal of the datasource blocks it.
Earned_Temporary(f, fail) ==
  IF fail.scope = "datasource" THEN {<<Everything, CHOOSE i \in Send(f) : TRUE>>} ELSE {}

\* requestFailed: the blocks a failed call earns.
Earned(f, fail) ==
  CASE fail.temporary \/ fail.scope = "request" -> {}
    [] ~fail.temporary /\ fail.scope = "datasource" ->
         {<<Everything, CHOOSE i \in Send(f) : \A j \in Send(f) : i <= j>>}
    [] OTHER -> IdBlocks(f, Send(f))

\* Mutant: the pause is checked before the first call only.
RetryFrom_PastCheck == "wait"

\* A repeated call starts over at the pause check.
RetryFrom == "check"

\* The call itself fails: it is repeated, or it fails every request it carried.
\* A refusal of the whole datasource that names a delay pauses the datasource.
Refused(f) ==
  \E fail \in Failures :
    /\ \/ /\ Retries(fail, attempt[f] + 1)
          /\ attempt' = [attempt EXCEPT ![f] = Calls(@)]
          /\ pc' = [pc EXCEPT ![f] = RetryFrom]
          /\ UNCHANGED <<reqs, fresh, blocked, out, attempts, batch, pos, pending>>
       \/ /\ ~Retries(fail, attempt[f] + 1)
          /\ ChunkEnds(f, [i \in Send(f) |-> IF fail.temporary THEN "temporary" ELSE "permanent"],
                       attempt[f] + 1, Earned(f, fail))
    /\ paused' = (paused \/ (fail.temporary /\ fail.scope = "datasource" /\ fail.after))

\* The wait and the rate are behind it, and the call is made.
Call(f) == /\ pc[f] = "wait"
           /\ late' = Counted(f)
           /\ Answered(f) \/ Refused(f)
           /\ UNCHANGED <<cache, open, reports>>

\* The backoff, the wait or the rate gives up: the context was cancelled or its
\* deadline falls before the turn.  The chunk fails with the calls made so far.
WaitFails(f) == /\ pc[f] = "wait" \/ (pc[f] = "check" /\ attempt[f] > 0)
                /\ ChunkEnds(f, [i \in Send(f) |-> "temporary"], attempt[f], {})
                /\ UNCHANGED shared

-----------------------------------------------------------------------------
(* writeCache and the recording transaction *)

\* The answers a call served: only these are cached.
Answers(f) == {reqs[f][i] : i \in {j \in DOMAIN out[f] : out[f][j] = "served"}}

\* fetchRun returns, and only the outcomes it recorded are left of it.
Returns(f, p) == /\ pc' = [pc EXCEPT ![f] = p]
                 /\ fresh' = [fresh EXCEPT ![f] = FALSE]
                 /\ blocked' = [blocked EXCEPT ![f] = {}]
                 /\ batch' = [batch EXCEPT ![f] = <<>>]
                 /\ pos' = [pos EXCEPT ![f] = 0]
                 /\ attempt' = [attempt EXCEPT ![f] = 0]
                 /\ pending' = [pending EXCEPT ![f] = {}]
                 /\ late' = [late EXCEPT ![f] = 0]
                 /\ attempts' = [attempts EXCEPT ![f] = <<>>]
                 /\ IF p = "done" THEN UNCHANGED <<reqs, out>>
                    ELSE /\ reqs' = [reqs EXCEPT ![f] = <<>>]
                         /\ out' = [out EXCEPT ![f] = <<>>]

\* Each answer is stored in turn; an error leaves the rest and fails the run.
WriteCache(f) ==
  /\ pc[f] = "store"
  /\ \/ /\ cache' = cache \cup Answers(f)
        /\ pc' = [pc EXCEPT ![f] = "record"]
        /\ UNCHANGED <<reqs, fresh, blocked, out, attempts, batch, pos, attempt, pending, late>>
     \/ /\ \E some \in SUBSET Answers(f) : cache' = cache \cup some
        /\ Returns(f, "failed")
  /\ UNCHANGED <<paused, open, reports>>

\* CreateDatasourceBlock reports the blocks it inserted, new, and no other.
Reported(f, new) == new

\* One transaction records the keys, and for each block whose scope has none open
\* the block and the finding reporting it; the first key that earned it is named.
Record(f) ==
  /\ pc[f] = "record"
  /\ LET key(s) == <<f, CHOOSE i \in DOMAIN out[f] : /\ <<s, i>> \in pending[f]
                                                     /\ \A j \in 1..(i - 1) : <<s, j>> \notin pending[f]>>
         new == {s \in {b[1] : b \in pending[f]} : open[s] = NoKey}
     IN /\ open' = [s \in Scopes |-> IF s \in new THEN key(s) ELSE open[s]]
        /\ reports' = reports \cup {<<s, key(s)>> : s \in Reported(f, new)}
  /\ Returns(f, "done")
  /\ UNCHANGED <<paused, cache>>

\* A cancelled context or a failed store call ends the fetch with nothing recorded.
Abort(f) == /\ pc[f] \notin {"idle", "done", "failed"}
            /\ Returns(f, "failed")
            /\ UNCHANGED <<paused, cache, open, reports>>

-----------------------------------------------------------------------------
(* Beside the fetches *)

\* An administrator clears a block, and its finding with it.
ClearBlock(s) == /\ open[s] # NoKey
                 /\ open' = [open EXCEPT ![s] = NoKey]
                 /\ reports' = {r \in reports : r # <<s, open[s]>>}
                 /\ UNCHANGED <<local, paused, late, cache>>

\* The delay the provider gave is over.
PauseEnds == /\ paused
             /\ paused' = FALSE
             /\ late' = [f \in Fetches |-> 0]
             /\ UNCHANGED <<local, cache, open, reports>>

\* A cached answer's lifetime is over.
CacheExpires(id) == /\ id \in cache
                    /\ cache' = cache \ {id}
                    /\ UNCHANGED <<local, paused, late, open, reports>>

Step(f) == \/ ReadCache(f) \/ SkipChunk(f) \/ CheckPause(f) \/ Call(f)
           \/ WriteCache(f) \/ Record(f)

Next == \/ \E f \in Fetches : Begin(f) \/ Step(f) \/ WaitFails(f) \/ Abort(f)
        \/ \E s \in Scopes : ClearBlock(s)
        \/ PauseEnds
        \/ \E id \in Ids : CacheExpires(id)

Spec == Init /\ [][Next]_vars

\* A started fetch's goroutine is scheduled, and calls, store and cache return.
FairSpec == Spec /\ \A f \in Fetches : WF_vars(Step(f))

-----------------------------------------------------------------------------
(* Properties *)

Active(f) == pc[f] \notin {"idle", "done", "failed"}

\* Types, and the calls one chunk may cost (request.go:54).
TypeOK == /\ pc \in [Fetches -> PCs]
          /\ \A f \in Fetches :
               /\ reqs[f] \in Seq(Ids \cup {Unserved})
               /\ fresh[f] \in BOOLEAN
               /\ blocked[f] \subseteq Scopes
               /\ DOMAIN out[f] = DOMAIN reqs[f] /\ DOMAIN attempts[f] \subseteq DOMAIN reqs[f]
               /\ \A i \in DOMAIN out[f] : out[f][i] \in Outcomes
               /\ \A i \in DOMAIN attempts[f] : attempts[f][i] \in 0..Tries
               /\ pos[f] \in 0..Len(batch[f])
               /\ attempt[f] \in 0..Tries
               /\ pending[f] \subseteq Scopes \X DOMAIN reqs[f]
          /\ paused \in BOOLEAN
          /\ late \in [Fetches -> Nat]
          /\ cache \subseteq Ids
          /\ \A s \in Scopes : open[s] \in Keys \cup {NoKey}
          /\ reports \subseteq Scopes \X Keys

\* A fetch records every key with an outcome that its calls explain
\* (fetch.go:130-204): nothing is left undecided, a key that was declined,
\* cached or blocked cost no call, and a served or permanently failed one did: a
\* pause or an abandoned wait fails keys temporarily only.
OutcomesExplained == \A f \in Fetches : pc[f] \in {"store", "record"} =>
  \A i \in DOMAIN reqs[f] :
    /\ out[f][i] # "none"
    /\ out[f][i] \in {"not_served", "cached", "blocked"} => attempts[f][i] = 0
    /\ out[f][i] \in {"served", "permanent"} => attempts[f][i] > 0
    /\ out[f][i] = "cached" => ~fresh[f]

\* The number of the chunk that position p of the batch is in.
ChunkOf(p) == IF Batch = 0 THEN 0 ELSE (p - 1) \div Batch

\* A failure that blocks an identifier or the datasource suppresses what the
\* same fetch would send in later chunks (fetch.go:164-182): no request it
\* covers goes out any more.
SuppressesLaterChunks == \A f \in Fetches : \A b \in pending[f], p, q \in 1..Len(batch[f]) :
  /\ batch[f][p] = b[2] /\ ChunkOf(p) < ChunkOf(q)
  /\ q <= pos[f] /\ Covered({b[1]}, reqs[f][batch[f][q]])
  => out[f][batch[f][q]] = "blocked"

\* Every open block was earned (fetch.go:187-202, 330-342): it names a recorded
\* fetch key that failed permanently on a call and was sent as the block's
\* scope, and exactly one open finding reports it.  A temporary failure, a pause
\* or an unrecorded fetch never blocks.
BlocksAreEarned ==
  /\ \A s \in Scopes : open[s] # NoKey =>
       LET f == open[s][1]  i == open[s][2] IN
         /\ pc[f] = "done" /\ i \in DOMAIN out[f]
         /\ out[f][i] = "permanent"
         /\ s \in {Everything, reqs[f][i]}
  /\ reports = {<<s, open[s]>> : s \in {x \in Scopes : open[x] # NoKey}}

\* A pause stops the datasource for every fetch (request.go:31, 50-53): once it
\* is in force a fetch makes at most the one call that was already past its
\* check, however many chunks and retries it has left.
PauseAdmitsCallInFlight == \A f \in Fetches : late[f] <= 1

\* Every fetch ends, recorded or failed: retries are bounded and chunks run out
\* (request.go:30-69, fetch.go:167-182).
FetchEnds == \A f \in Fetches : Active(f) ~> pc[f] \in {"done", "failed"}
=============================================================================
