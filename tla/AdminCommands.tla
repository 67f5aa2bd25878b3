--------------------------- MODULE AdminCommands ---------------------------
(***************************************************************************)
(* The administrator's commands of the CLI (cli/src/bin/instructions/).    *)
(* A command walks the sorted files of a directory of trees; for each one  *)
(* it reads the distributor's account, sends a transaction, and waits for  *)
(* it or not.  Several operators run commands at once, calls to the node   *)
(* fail, and a transaction that was sent lands later or expires.           *)
(***************************************************************************)
EXTENDS Integers, Sequences, Functions

CONSTANTS
    Directory,          \* the versions of the tree files, in the order of paths
    Deployed,           \* the account of every version at the start
    Operators,
    Key,                \* Key[o]: the key the operator signs with
    Commands,           \* Commands[o]: the commands the operator may give
    Samples,            \* the lists of performance samples the node may return
    clawback_start_ts,  \* of every distributor
    FirstSlot,          \* the slot at time 0
    MaxTime,            \* the bound on the clock
    MaxFlight,          \* the bound on transactions in flight
    MaxRuns,            \* the bound on commands given
    None

ASSUME AdminAssumption ==
    /\ clawback_start_ts \in Nat /\ FirstSlot \in Nat
    /\ MaxTime \in Nat /\ MaxFlight \in Nat /\ MaxRuns \in Nat
    /\ Directory \in Seq(Range(Directory))

VARIABLES
    accounts,   \* accounts[v]: the distributor's account; open: it is not closed
    clock,      \* the Clock sysvar: [ts, slot]
    flight,     \* the transactions that may still land
    run,        \* run[o]: the command of operator o and where it is
    runs,       \* how many commands have been given
    held        \* held[o]: the versions for which what the command is to set
                \* has been so at some moment since it began (history)

vars == <<accounts, clock, flight, run, runs, held>>

Versions == Range(Directory)
Ids == 1..MaxFlight
DEFAULT_MS_PER_SLOT == 400
-----------------------------------------------------------------------------
\* The commands.  reads: the account is read before a transaction is built;
\* confirms: the transaction is waited for; on_error: what an error of the
\* sending or of the waiting leads to; unreadable: what an error of the read
\* leads to.
process_set_admin(new_admin) ==
    [op |-> "set_admin", value |-> new_admin, files |-> Directory,
     reads |-> TRUE, confirms |-> FALSE, on_error |-> "retry", unreadable |-> "panic"]

process_set_clawback_receiver(receiver) ==
    [op |-> "set_clawback_receiver", value |-> receiver, files |-> Directory,
     reads |-> TRUE, confirms |-> FALSE, on_error |-> "retry", unreadable |-> "panic"]

process_clawback ==
    [op |-> "clawback", value |-> None, files |-> Directory,
     reads |-> TRUE, confirms |-> FALSE, on_error |-> "retry", unreadable |-> "panic"]

\* Only the run over a directory tries again.
process_set_enable_slot(slot, airdrop_version) ==
    [op |-> "set_enable_slot", value |-> slot,
     files |-> IF airdrop_version = None THEN Directory ELSE <<airdrop_version>>,
     reads |-> TRUE, confirms |-> TRUE,
     on_error |-> IF airdrop_version = None THEN "retry" ELSE "panic",
     unreadable |-> "panic"]

process_set_enable_slot_by_time(timestamp, airdrop_version) ==
    [op |-> "by_time", value |-> timestamp,
     files |-> IF airdrop_version = None THEN Directory ELSE <<airdrop_version>>,
     reads |-> FALSE, confirms |-> TRUE, on_error |-> "panic", unreadable |-> "panic"]

process_close_distributor(airdrop_version) ==
    [op |-> "close", value |-> None,
     files |-> IF airdrop_version = None THEN Directory
               ELSE IF airdrop_version \in Versions THEN <<airdrop_version>> ELSE <<>>,
     reads |-> TRUE, confirms |-> FALSE, on_error |-> "next", unreadable |-> "next"]

\* expected: the record of arguments; the root, the amount of the tree and
\* clawback_start_ts do not change here and match.
process_verify(expected) ==
    [op |-> "verify", value |-> expected, files |-> Directory,
     reads |-> TRUE, confirms |-> FALSE, on_error |-> "panic", unreadable |-> "panic"]

\* No command has been given yet.
NoCommand ==
    [op |-> "none", value |-> None, files |-> <<>>,
     reads |-> FALSE, confirms |-> FALSE, on_error |-> "panic", unreadable |-> "panic"]

\* What the commands have in common: those that wait set the slot, and neither
\* they nor verify go on to the next file after an error.
WellFormed(c) ==
    /\ DOMAIN c = {"op", "value", "files", "reads", "confirms", "on_error", "unreadable"}
    /\ c.files \in Seq(Versions)
    /\ c.confirms \in BOOLEAN
    /\ {c.on_error, c.unreadable} \subseteq {"next", "panic", "retry"}
    /\ c.confirms => c.op \in {"set_enable_slot", "by_time"}
    /\ c.confirms \/ c.op = "verify" => c.on_error # "next" /\ c.unreadable # "next"
    /\ c.op = "by_time" => c.value \in Nat

ASSUME CommandsAssumption ==
    \A o \in Operators : \A c \in Commands[o] : WellFormed(c)

IsAccount(a) ==
    DOMAIN a =
        {"admin", "clawback_receiver", "enable_slot", "clawed_back", "closable", "open"}

ASSUME DeployedAssumption ==
    /\ DOMAIN Deployed = Versions
    /\ \A v \in Versions : IsAccount(Deployed[v])

\* What the loops compare: is the account as the command is to leave it?
Satisfied(c, a) ==
    /\ a.open
    /\ CASE c.op = "set_admin" -> a.admin = c.value
         [] c.op = "set_clawback_receiver" -> a.clawback_receiver = c.value
         [] c.op = "set_enable_slot" -> a.enable_slot = c.value
         [] c.op = "clawback" -> a.clawed_back
         [] c.op = "verify" -> /\ a.closable = c.value.closable
                               /\ a.admin = c.value.admin
                               /\ a.enable_slot = c.value.enable_slot
                               /\ a.clawback_receiver = c.value.clawback_receiver
         [] OTHER -> FALSE
-----------------------------------------------------------------------------
\* set_enable_slot_by_time: from a time to a slot.

\* The division of the code panics at zero.
Usable(samples) == \A n \in 1..Len(samples) : samples[n].num_slots > 0

Total(samples) ==
    SumFunction([n \in DOMAIN samples |->
                   (samples[n].sample_period_secs * 1000) \div samples[n].num_slots])

\* Slip: the sanity check is missing.
average_unchecked(samples) ==
    IF samples = <<>> THEN DEFAULT_MS_PER_SLOT ELSE Total(samples) \div Len(samples)

get_average_slot_time(samples) ==
    LET average == Total(samples) \div Len(samples)
    IN  IF \/ samples = <<>>
           \/ average < DEFAULT_MS_PER_SLOT \div 2
           \/ average > DEFAULT_MS_PER_SLOT * 2
        THEN DEFAULT_MS_PER_SLOT
        ELSE average

\* Checked u64 arithmetic panics when the result is below zero.
SlotAt(timestamp, now, average) ==
    IF timestamp > now.ts
    THEN now.slot + ((timestamp - now.ts) * 1000) \div average
    ELSE now.slot - ((now.ts - timestamp) * 1000) \div average

\* Every sum is a u64.
ASSUME SamplesAssumption ==
    \A s \in Samples : s \in Seq(Range(s)) /\ (Usable(s) => Total(s) \in Nat)
-----------------------------------------------------------------------------
\* The chain.  A transaction holds one instruction; id stands for its
\* signature, and `to` is the receiver a clawback names.
Transaction(o, i) ==
    LET r == run[o]
    IN  [id |-> i, by |-> o, op |-> r.cmd.op, value |-> r.cmd.value, signer |-> Key[o],
         version |-> r.cmd.files[r.file], to |-> r.to]

\* The constraints of the instructions on the account.
Executes(t) ==
    LET a == accounts[t.version]
    IN  /\ a.open
        /\ CASE t.op = "set_admin" -> t.signer = a.admin /\ t.signer # t.value
             [] t.op = "set_clawback_receiver" ->
                    t.signer = a.admin /\ t.value # a.clawback_receiver
             [] t.op = "set_enable_slot" -> t.signer = a.admin
             [] t.op = "clawback" -> /\ ~a.clawed_back
                                     /\ clock.ts >= clawback_start_ts
                                     /\ t.to = a.clawback_receiver
             [] t.op = "close" -> t.signer = a.admin /\ a.closable
             [] OTHER -> FALSE

After(t) ==
    LET a == accounts[t.version]
    IN  CASE t.op = "set_admin" -> [a EXCEPT !.admin = t.value]
          [] t.op = "set_clawback_receiver" -> [a EXCEPT !.clawback_receiver = t.value]
          [] t.op = "set_enable_slot" -> [a EXCEPT !.enable_slot = t.value]
          [] t.op = "clawback" -> [a EXCEPT !.clawed_back = TRUE]
          [] OTHER -> [a EXCEPT !.open = FALSE]

\* An operator that waits for the transaction learns what became of it.
Learn(t, outcome) ==
    run' = IF run[t.by].at = "confirm" /\ run[t.by].waits = t.id
           THEN [run EXCEPT ![t.by].waits = 0, ![t.by].outcome = outcome]
           ELSE run

Land(i) ==
    \E t \in flight :
        /\ t.id = i
        /\ \/ /\ Executes(t)
              /\ accounts' = [accounts EXCEPT ![t.version] = After(t)]
              /\ held' = [o \in Operators |->
                            held[o] \cup {v \in Versions : Satisfied(run[o].cmd, accounts'[v])}]
              /\ Learn(t, "landed")
           \/ ~Executes(t) /\ Learn(t, "failed") /\ UNCHANGED <<accounts, held>>
        /\ flight' = flight \ {t}
        /\ UNCHANGED <<clock, runs>>

\* The blockhash is too old.
Expire(i) ==
    \E t \in flight :
        /\ t.id = i
        /\ flight' = flight \ {t}
        /\ Learn(t, "failed")
        /\ UNCHANGED <<accounts, clock, runs, held>>

\* A second is two or three slots.
Tick ==
    /\ clock.ts < MaxTime
    /\ \E n \in {2, 3} : clock' = [ts |-> clock.ts + 1, slot |-> clock.slot + n]
    /\ UNCHANGED <<accounts, flight, run, runs, held>>
-----------------------------------------------------------------------------
\* The commands' steps.
Active(o) == run[o].at \notin {"idle", "ended", "panicked"}

Becomes(o, r) == run' = [run EXCEPT ![o] = r]

\* verify reads the vault first unless it is told to skip it.
Begin(c) ==
    IF c.op = "verify" /\ ~c.value.skip_verify_amount THEN "vault"
    ELSE IF c.reads THEN "read" ELSE "send"

NextFile(r) ==
    [r EXCEPT !.file = @ + 1, !.to = None, !.waits = 0, !.outcome = "none",
              !.at = IF r.file < Len(r.cmd.files) THEN Begin(r.cmd) ELSE "ended"]

Panicked(r) == [r EXCEPT !.at = "panicked", !.to = None, !.waits = 0, !.outcome = "none"]

Retried(r, at) == [r EXCEPT !.at = at, !.waits = 0, !.outcome = "none"]

\* Slip: the account is read once, before the loop.
LeadsToSend(how, r) ==
    CASE how = "next" -> NextFile(r)
      [] how = "panic" -> Panicked(r)
      [] how = "retry" -> Retried(r, "send")

\* Where an error leads.
Leads(how, r) ==
    CASE how = "next" -> NextFile(r)
      [] how = "panic" -> Panicked(r)
      [] how = "retry" -> Retried(r, "read")

Give(o) ==
    /\ ~Active(o) /\ runs < MaxRuns
    /\ runs' = runs + 1
    /\ \E c \in Commands[o] :
          LET r == [cmd |-> c, file |-> 0, at |-> "estimate", to |-> None,
                    waits |-> 0, outcome |-> "none"]
          IN  /\ Becomes(o, IF c.op = "by_time" THEN r ELSE NextFile(r))
              /\ held' = [held EXCEPT ![o] = {v \in Versions : Satisfied(c, accounts[v])}]
    /\ UNCHANGED <<accounts, clock, flight>>

Enabling(r, slot) ==
    NextFile([r EXCEPT !.cmd = [@ EXCEPT !.op = "set_enable_slot", !.value = slot]])

\* The clock and the samples are read once, before the first transaction.
Estimate(o) ==
    /\ run[o].at = "estimate"
    /\ \E samples \in Samples :
          LET slot == SlotAt(run[o].cmd.value, clock, get_average_slot_time(samples))
              r == Enabling(run[o], slot)
          IN  IF Usable(samples) /\ slot >= 0
              THEN /\ Becomes(o, r)
                   /\ held' = [held EXCEPT ![o] = {v \in Versions : Satisfied(r.cmd, accounts[v])}]
              ELSE Becomes(o, Panicked(run[o])) /\ UNCHANGED held
    /\ UNCHANGED <<accounts, clock, flight, runs>>

File(o) == run[o].cmd.files[run[o].file]

ReadVault(o) ==
    /\ run[o].at = "vault"
    /\ Becomes(o, IF accounts[File(o)].open /\ ~accounts[File(o)].clawed_back
                  THEN [run[o] EXCEPT !.at = "read"]
                  ELSE Panicked(run[o]))
    /\ UNCHANGED <<accounts, clock, flight, runs, held>>

\* The account as the node has it, or an error.
ReadAccount(o) ==
    /\ run[o].at = "read"
    /\ LET r == run[o]
           a == accounts[File(o)]
       IN  \/ Satisfied(r.cmd, a) /\ Becomes(o, NextFile(r))
           \/ /\ a.open /\ ~Satisfied(r.cmd, a)
              /\ Becomes(o, IF r.cmd.op = "verify" THEN Panicked(r)
                            ELSE [r EXCEPT !.at = "send", !.to = a.clawback_receiver])
           \/ Becomes(o, Leads(r.cmd.unreadable, r))
    /\ UNCHANGED <<accounts, clock, flight, runs, held>>

\* The node runs the transaction against its state before it takes it.
Taken(o, i) ==
    /\ run[o].at = "send"
    /\ Executes(Transaction(o, i))
    /\ flight' = flight \cup {Transaction(o, i)}
    /\ UNCHANGED <<accounts, clock, runs, held>>

FreeIds == Ids \ {t.id : t \in flight}

\* The least id that no transaction in flight has: which one stands for a
\* signature does not matter.
Fresh == {i \in FreeIds : \A j \in FreeIds : i <= j}

Send(o) ==
    \E i \in Fresh :
        /\ Taken(o, i)
        /\ Becomes(o, IF run[o].cmd.confirms
                      THEN [run[o] EXCEPT !.at = "confirm", !.waits = i, !.outcome = "none"]
                      ELSE NextFile(run[o]))

\* The transaction is on its way and the answer is lost.
AnswerLost(o) ==
    \E i \in Fresh : Taken(o, i) /\ Becomes(o, Leads(run[o].cmd.on_error, run[o]))

\* The node refuses, or is not reached.
Refused(o) ==
    /\ run[o].at = "send"
    /\ Becomes(o, Leads(run[o].cmd.on_error, run[o]))
    /\ UNCHANGED <<accounts, clock, flight, runs, held>>

\* An error of get_latest_blockhash, of get_or_create_ata, or of the reads of the
\* vault, the clock and the samples is unwrapped.
Unwrap(o) ==
    /\ run[o].at \in {"vault", "estimate", "send"}
    /\ Becomes(o, Panicked(run[o]))
    /\ UNCHANGED <<accounts, clock, flight, runs, held>>

\* Slip: the result is not looked at.
ConfirmAnyway(o) ==
    /\ run[o].at = "confirm"
    /\ Becomes(o, NextFile(run[o]))
    /\ UNCHANGED <<accounts, clock, flight, runs, held>>

\* send_and_confirm_transaction_with_spinner returns: with Ok only once the
\* transaction has landed, with an error at any time.
Confirm(o) ==
    /\ run[o].at = "confirm"
    /\ \/ run[o].outcome = "landed" /\ Becomes(o, NextFile(run[o]))
       \/ Becomes(o, Leads(run[o].cmd.on_error, run[o]))
    /\ UNCHANGED <<accounts, clock, flight, runs, held>>

Step(o) ==
    \/ Estimate(o) \/ ReadVault(o) \/ ReadAccount(o)
    \/ Send(o) \/ AnswerLost(o) \/ Refused(o) \/ Unwrap(o) \/ Confirm(o)

Init ==
    /\ accounts = Deployed
    /\ clock = [ts |-> 0, slot |-> FirstSlot]
    /\ flight = {}
    /\ run = [o \in Operators |->
                [cmd |-> NoCommand, file |-> 0, at |-> "idle", to |-> None,
                 waits |-> 0, outcome |-> "none"]]
    /\ runs = 0
    /\ held = [o \in Operators |-> {}]

Next ==
    \/ \E o \in Operators : Give(o) \/ Step(o)
    \/ \E i \in Ids : Land(i) \/ Expire(i)
    \/ Tick

\* A process runs, the node takes an executable transaction if it is sent
\* again and again, not every transaction is dropped, and time passes.
Fairness ==
    /\ \A o \in Operators : WF_vars(Step(o)) /\ SF_vars(Send(o))
    /\ \A i \in Ids : WF_vars(Land(i) \/ Expire(i)) /\ SF_vars(Land(i))
    /\ WF_vars(Tick)

Spec == Init /\ [][Next]_vars /\ Fairness
-----------------------------------------------------------------------------
\* A command that waits for its transactions, and verify, leave a file behind
\* only if the account was as asked at some moment of the run: what a run that
\* ends reports is true of every file, and a run that panics half-way has done
\* the files before the one it was at, whatever other operators, lost answers,
\* late landings and expiries have done in between.
DoneMeansHeld ==
    \A o \in Operators :
        LET c == run[o].cmd
        IN  c.confirms \/ c.op = "verify" =>
                \A n \in 1..Len(c.files) : n < run[o].file => c.files[n] \in held[o]

\* The loops end: a command that is given ends or panics, unless it goes on
\* trying with a key that is not the admin's.  A clawback that is begun early
\* ends once its time has come, and a receiver that changes between the read
\* and the transaction does not hold it up.
Barred(o) ==
    /\ Active(o)
    /\ run[o].cmd.op \in {"set_admin", "set_clawback_receiver", "set_enable_slot"}
    /\ accounts[File(o)].open /\ accounts[File(o)].admin # Key[o]

CommandsEnd == \A o \in Operators : []<>(~Active(o) \/ Barred(o))

\* The slot a time is turned into, at most twice as far from the current slot
\* as the default rate says and at least half as far, up to the slot that the
\* division drops, on the right side of it, whatever the node's samples are.
Near(timestamp, now, slot) ==
    LET ms == 1000 * (IF timestamp > now.ts THEN timestamp - now.ts ELSE now.ts - timestamp)
        n == IF timestamp > now.ts THEN slot - now.slot ELSE now.slot - slot
    IN  /\ n >= 0
        /\ n * (DEFAULT_MS_PER_SLOT \div 2) <= ms
        /\ ms < (n + 1) * (DEFAULT_MS_PER_SLOT * 2)

SlotTimed ==
    [][\A o \in Operators :
          run[o].at = "estimate" /\ run[o].at' \notin {"estimate", "panicked"}
              => Near(run[o].cmd.value, clock, run[o].cmd.value')]_vars
=============================================================================
