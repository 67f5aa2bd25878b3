----------------------------- MODULE ClaimCache -----------------------------
(***************************************************************************)
(* The API server's cache of ClaimStatus accounts (api/src/cache.rs).  For *)
(* every distributor one task follows a websocket subscription and another *)
(* polls all accounts every INTERVAL; both send what they see through one  *)
(* bounded channel to one updater, which keeps one entry per CLAIMANT.     *)
(* They start when the trees are loaded; the chain does not wait for them, *)
(* so the server may come up to accounts that exist.                       *)
(*                                                                         *)
(* An account's data is the number of instructions that have changed it (a *)
(* claim always changes a field PartialEq compares), 0 before it exists.   *)
(***************************************************************************)
EXTENDS TreeLoader

CONSTANTS
    Accounts,      \* ClaimStatus addresses: <<distributor, claimant>>
    MaxChanges,    \* bound on the changes of all accounts
    ChannelSize,   \* 1000 in the code
    MaxAttempts    \* max_reconnection_attempts, 20 in the code

ASSUME AccountsAssumption ==
    /\ IsFiniteSet(Accounts)
    /\ \A k \in Accounts : k[1] \in Readable /\ Has(k[1], k[2])

ASSUME SizesAssumption ==
    MaxChanges \in Nat /\ ChannelSize \in Nat /\ MaxAttempts \in Nat \ {0}

Distributors == {k[1] : k \in Accounts}

VARIABLES
    chain, slot,   \* data of every account; the slot of the last change
    ws,            \* ws[d]: "connecting", "open", or "dead" once the task ended
    attempt,       \* attempt[d]: reconnection attempts
    stream,        \* stream[d]: notifications on their way to the task
    polled,        \* polled[d]: updates of the last poll not sent yet
    channel,       \* the mpsc channel to the updater
    cache          \* claim_status_cache

chainVars == <<chain, slot>>
wsVars == <<ws, attempt, stream>>
cacheVars == <<chain, slot, ws, attempt, stream, polled, channel, cache>>
vars == <<loadVars, cacheVars>>

Update == [account : Accounts, data : 1..MaxChanges, slot : Nat]

CacheTypeOK ==
    /\ chain \in [Accounts -> 0..MaxChanges] /\ slot \in Nat
    /\ ws \in [Distributors -> {"connecting", "open", "dead"}]
    /\ attempt \in [Distributors -> 0..MaxAttempts + 1]
    /\ stream \in [Distributors -> Seq(Update)]
    /\ polled \in [Distributors -> SUBSET Update]
    /\ channel \in Seq(Update) /\ Len(channel) <= ChannelSize
    /\ cache \in [Claimants -> Update \cup {None}]

Init ==
    /\ LoadInit
    /\ chain = [k \in Accounts |-> 0] /\ slot = 1
    /\ ws = [d \in Distributors |-> "connecting"]
    /\ attempt = [d \in Distributors |-> 0]
    /\ stream = [d \in Distributors |-> <<>>]
    /\ polled = [d \in Distributors |-> {}]
    /\ channel = <<>>
    /\ cache = [c \in Claimants |-> None]

\* The program changes an account, in the slot of the change before or a
\* later one; an open subscription will be notified.
ChainUpdate(k) ==
    /\ SumFunction(chain) < MaxChanges
    /\ chain' = [chain EXCEPT ![k] = @ + 1]
    /\ slot' \in {slot, slot + 1}
    /\ stream' = [stream EXCEPT ![k[1]] =
         IF ws[k[1]] = "open"
         THEN Append(@, [account |-> k, data |-> chain'[k], slot |-> slot'])
         ELSE @]
    /\ UNCHANGED <<loadVars, ws, attempt, polled, channel, cache>>
-----------------------------------------------------------------------------
(***************************************************************************)
(* The websocket task.                                                     *)
(***************************************************************************)
Subscribe(d) ==
    /\ ws[d] = "connecting"
    /\ ws' = [ws EXCEPT ![d] = "open"]
    /\ UNCHANGED <<chainVars, attempt, stream, polled, channel, cache>>

\* PubsubClient::new(..).unwrap() ends the task.
ConnectPanics(d) ==
    /\ ws[d] = "connecting"
    /\ ws' = [ws EXCEPT ![d] = "dead"]
    /\ UNCHANGED <<chainVars, attempt, stream, polled, channel, cache>>

\* A failed subscription counts once in its branch and once after the sleep.
SubscribeFails(d) ==
    /\ ws[d] = "connecting"
    /\ IF attempt[d] + 1 >= MaxAttempts
       THEN /\ ws' = [ws EXCEPT ![d] = "dead"]
            /\ attempt' = [attempt EXCEPT ![d] = @ + 1]
       ELSE /\ attempt' = [attempt EXCEPT ![d] = @ + 2]
            /\ UNCHANGED ws
    /\ UNCHANGED <<chainVars, stream, polled, channel, cache>>

Deliver(d) ==
    /\ ws[d] = "open"
    /\ stream[d] # <<>>
    /\ Len(channel) < ChannelSize
    /\ attempt' = [attempt EXCEPT ![d] = 0]
    /\ channel' = Append(channel, Head(stream[d]))
    /\ stream' = [stream EXCEPT ![d] = Tail(@)]
    /\ UNCHANGED <<chainVars, ws, polled, cache>>

\* The stream ends and what was on its way is lost; attempt is reset, and
\* counted once after the sleep.
StreamEnds(d) ==
    /\ ws[d] = "open"
    /\ ws' = [ws EXCEPT ![d] = "connecting"]
    /\ attempt' = [attempt EXCEPT ![d] = 1]
    /\ stream' = [stream EXCEPT ![d] = <<>>]
    /\ UNCHANGED <<chainVars, polled, channel, cache>>
-----------------------------------------------------------------------------
(***************************************************************************)
(* The polling task.  A failed getProgramAccounts changes nothing.         *)
(***************************************************************************)
PollRead(d) ==
    /\ polled[d] = {}
    /\ polled' = [polled EXCEPT ![d] =
         {[account |-> k, data |-> chain[k], slot |-> 0] :
            k \in {j \in Accounts : j[1] = d /\ chain[j] > 0}}]
    /\ UNCHANGED <<chainVars, wsVars, channel, cache>>

\* Slip: the channel is unbounded.
PollSendUnbounded(d) ==
    \E u \in polled[d] :
        /\ channel' = Append(channel, u)
        /\ polled' = [polled EXCEPT ![d] = @ \ {u}]
        /\ UNCHANGED <<chainVars, wsVars, cache>>

\* One task per account, in any order; the next poll waits for all of them.
PollSend(d) ==
    \E u \in polled[d] :
        /\ Len(channel) < ChannelSize
        /\ channel' = Append(channel, u)
        /\ polled' = [polled EXCEPT ![d] = @ \ {u}]
        /\ UNCHANGED <<chainVars, wsVars, cache>>
-----------------------------------------------------------------------------
(***************************************************************************)
(* The updater.                                                            *)
(***************************************************************************)
SameData(e, u) == e.account = u.account /\ e.data = u.data

\* Slips: polls obey the slot comparison too; the comparison is missing.
AcceptsBySlot(e, u) == ~SameData(e, u) /\ e.slot <= u.slot
AcceptsAlways(e, u) == ~SameData(e, u)

\* Whether update u replaces entry e: not when the data is the same, and
\* otherwise when its slot is not older or it comes from polling (slot 0).
Accepts(e, u) == ~SameData(e, u) /\ (e.slot <= u.slot \/ u.slot = 0)

ApplyUpdate ==
    /\ channel # <<>>
    /\ LET u == Head(channel)
           c == u.account[2]
       IN  cache' = IF cache[c] = None \/ Accepts(cache[c], u)
                    THEN [cache EXCEPT ![c] = u]
                    ELSE cache
    /\ channel' = Tail(channel)
    /\ UNCHANGED <<chainVars, wsVars, polled>>

Follow(d) ==
    \/ Subscribe(d) \/ ConnectPanics(d) \/ SubscribeFails(d)
    \/ Deliver(d) \/ StreamEnds(d)

\* The tasks that `subscribe` spawns once the trees are loaded.
Spawned(task) == serving /\ task /\ UNCHANGED loadVars

Next ==
    \/ Load /\ UNCHANGED cacheVars
    \/ \E k \in Accounts : ChainUpdate(k)
    \/ Spawned(ApplyUpdate)
    \/ \E d \in Distributors : Spawned(Follow(d) \/ PollRead(d) \/ PollSend(d))

\* tokio runs every task that can run, and its mutex is fair.  Polling goes on
\* forever and getProgramAccounts is answered again and again; mpsc senders are
\* served in order of arrival, so a sender that finds room again and again gets
\* some; the updater never stops.  Nothing is assumed of the websocket.
Fairness ==
    /\ \A f \in Files : WF_vars(Task(f) /\ UNCHANGED cacheVars)
    /\ WF_vars(Serve /\ UNCHANGED cacheVars)
    /\ WF_vars(Spawned(ApplyUpdate))
    /\ \A d \in Distributors : /\ WF_vars(Spawned(PollRead(d)))
                                /\ SF_vars(Spawned(PollSend(d)))

Spec == Init /\ [][Next]_vars /\ Fairness
-----------------------------------------------------------------------------
\* Between two websocket updates of one claimant the newer slot wins, even
\* when the two distributors' notifications arrive out of order.
NewestSlotWins ==
    [][\A c \in Claimants :
         cache[c] # None /\ cache[c].slot > 0 /\ cache'[c].slot > 0
           => cache'[c].slot >= cache[c].slot]_vars

\* Whatever the websocket loses or delivers late, and whichever stale poll
\* overwrites it, once the chain is quiet (MaxChanges makes it so) the entry
\* of a claimant becomes and stays the current state of one of its accounts:
\* of its account, when it is in one tree.
CacheCatchesUp ==
    \A c \in Claimants :
        <>[](LET existing == {k \in Accounts : k[2] = c /\ chain[k] > 0}
             IN  existing # {} =>
                   \E k \in existing :
                     /\ cache[c] # None
                     /\ cache[c].account = k
                     /\ cache[c].data = chain[k])

\* The inductive invariant of CacheProofs: a task that gave up counts one more.
CacheInv ==
    /\ CacheTypeOK
    /\ \A d \in Distributors : ws[d] # "dead" => attempt[d] <= MaxAttempts
=============================================================================
