------------------------------ MODULE MassSend ------------------------------
(***************************************************************************)
(* The commands mass-send and resend (cli process_send.rs): pay a fixed    *)
(* amount to every address of a list, remember in a file which signature   *)
(* paid which address, and later send again what did not go through.       *)
(*                                                                         *)
(* Transactions are sent without waiting.  A transaction is pending until  *)
(* it is finalized (its transfers all happen), finalized with an error     *)
(* (none does) or expired; the status the code asks for, at commitment     *)
(* finalized, is "none" both for a pending and for an expired one.  The    *)
(* process may be stopped between any two steps.  A signature is the       *)
(* transaction's place in `txs`.  Batches and groups are taken in any      *)
(* order, as resend takes them from a hash map; no batch depends on the    *)
(* ones before it.                                                         *)
(***************************************************************************)
EXTENDS Integers, Sequences, FiniteSets, Functions

CONSTANTS
    Addresses,        \* the list of the CSV
    Pubkeys,          \* the addresses that are public keys
    max_address_per_tx,
    max_address_per_resend,
    MaxTxs,           \* bound on the transactions sent
    None, Torn        \* no signature; a file cut short by a crash

ASSUME SendAssumption ==
    /\ max_address_per_tx \in Nat \ {0}
    /\ max_address_per_resend \in Nat
    /\ None \notin Nat
    /\ IsInjective(Addresses)

VARIABLES
    file,             \* the file at des_path: address -> signature or None
    sent_addresses,   \* the run's copy of it
    pc,               \* "idle", "mass" or "resend": the command that runs
    step,             \* where in its loop: "next", "send", "record", "write"
    work,             \* batches or groups still to be done
    current,          \* the one being done, from "send" to "write"
    sending,          \* signature and addresses of the transaction just sent
    txs,              \* every transaction sent: its transfers and its status
    excused           \* ghost: transactions whose record was lost, or that were
                      \* sent again before their outcome was known

vars == <<file, sent_addresses, pc, step, work, current, sending, txs, excused>>

List == Range(Addresses)
Signatures == 1..Len(txs)
NoSend == [signature |-> None, to |-> {}]

Init ==
    /\ file = [a \in List |-> None]
    /\ sent_addresses = file
    /\ pc = "idle" /\ step = "next"
    /\ work = {}
    /\ current = NoSend /\ sending = NoSend
    /\ txs = <<>>
    /\ excused = {}
-----------------------------------------------------------------------------
\* Slip: addresses that were sent are not skipped.
ToSendAll == List

\* The addresses without a record.
ToSend == {a \in List : file[a] = None}

Position(a) == CHOOSE i \in DOMAIN Addresses : Addresses[i] = a

\* The batch of an address: addresses are counted in the order of the list, and
\* every max_address_per_tx of them a new batch begins.
BatchNumber(a) ==
    Cardinality({b \in ToSend : Position(b) < Position(a)}) \div max_address_per_tx

\* wrap_batch_addresses.
Batches ==
    {[signature |-> None, to |-> {a \in ToSend : BatchNumber(a) = n}] :
       n \in {BatchNumber(a) : a \in ToSend}}

\* process_mass_send up to its loop; a file that does not parse is a panic.
StartMassSend ==
    /\ pc = "idle" /\ file # Torn
    /\ pc' = "mass" /\ step' = "next"
    /\ sent_addresses' = file
    /\ work' = Batches
    /\ UNCHANGED <<file, current, sending, txs, excused>>

\* signature_to_address: who was paid by which transaction.
Groups ==
    {[signature |-> s, to |-> {a \in List : file[a] = s}] :
       s \in {file[a] : a \in List} \ {None}}

\* process_resend up to its loop.
StartResend ==
    /\ pc = "idle" /\ file # Torn
    /\ pc' = "resend" /\ step' = "next"
    /\ sent_addresses' = file
    /\ work' = Groups
    /\ UNCHANGED <<file, current, sending, txs, excused>>

NextBatch(g) ==
    /\ pc = "mass" /\ step = "next" /\ g \in work
    /\ step' = "send"
    /\ current' = g /\ work' = work \ {g}
    /\ UNCHANGED <<file, sent_addresses, pc, sending, txs, excused>>

\* The status is none, or an error.
ShouldResend(s) == txs[s].status \in {"pending", "expired", "error"}

\* Ask for the status of the next group's transaction; the request itself may
\* fail, and then the group is left for another run.
CheckStatus(g) ==
    /\ pc = "resend" /\ step = "next" /\ g \in work
    /\ work' = work \ {g}
    /\ \/ /\ ShouldResend(g.signature)
          /\ step' = "send"
          /\ current' = g
          /\ excused' = IF txs[g.signature].status = "pending"
                        THEN excused \cup {g.signature} ELSE excused
       \/ UNCHANGED <<step, current, excused>>
    /\ UNCHANGED <<file, sent_addresses, pc, sending, txs>>

\* A group too large for one transaction is cut, whichever addresses come first.
Chosen ==
    IF pc = "resend" /\ Cardinality(current.to) > max_address_per_resend
    THEN {S \in SUBSET current.to : Cardinality(S) = max_address_per_resend}
    ELSE {current.to}

Sent(to) == Append(txs, [to |-> to, status |-> "pending"])

\* send_for_batch_address: addresses that are no public keys are left out.
SendBatch ==
    /\ step = "send"
    /\ Len(txs) < MaxTxs
    /\ \E to \in Chosen :
         /\ txs' = Sent(to \cap Pubkeys)
         /\ sending' = [signature |-> Len(txs) + 1, to |-> to \cap Pubkeys]
    /\ step' = "record"
    /\ UNCHANGED <<file, sent_addresses, pc, work, current, excused>>

\* It fails, or reports the failure of a transaction that was delivered.
SendFails ==
    /\ step = "send"
    /\ \/ UNCHANGED <<txs, excused>>
       \/ /\ Len(txs) < MaxTxs
          /\ \E to \in Chosen : txs' = Sent(to \cap Pubkeys)
          /\ excused' = excused \cup {Len(txs) + 1}
    /\ step' = "next"
    /\ current' = NoSend
    /\ UNCHANGED <<file, sent_addresses, pc, work, sending>>

\* Slip: the whole batch or group is recorded, sent or not.
RecordedGroup == current.to

\* The addresses whose record changes.
Recorded == sending.to

\* Update the copy; File::create has emptied the file.
Record ==
    /\ step = "record"
    /\ sent_addresses' = [a \in List |-> IF a \in Recorded THEN sending.signature
                                         ELSE sent_addresses[a]]
    /\ file' = Torn
    /\ step' = "write"
    /\ UNCHANGED <<pc, work, current, sending, txs, excused>>

WriteFile ==
    /\ step = "write"
    /\ file' = sent_addresses
    /\ current' = NoSend /\ sending' = NoSend
    /\ step' = "next"
    /\ UNCHANGED <<sent_addresses, pc, work, txs, excused>>

EndRun ==
    /\ pc # "idle" /\ step = "next" /\ work = {}
    /\ pc' = "idle"
    /\ UNCHANGED <<file, sent_addresses, step, work, current, sending, txs, excused>>

\* The process is stopped; only the file survives.
Crash ==
    /\ pc # "idle"
    /\ pc' = "idle" /\ step' = "next" /\ work' = {}
    /\ current' = NoSend /\ sending' = NoSend
    /\ excused' = IF step = "record" THEN excused \cup {sending.signature} ELSE excused
    /\ UNCHANGED <<file, sent_addresses, txs>>

\* The cluster settles a transaction.
Settle(s) ==
    /\ txs[s].status = "pending"
    /\ \E outcome \in {"final", "error", "expired"} :
         txs' = [txs EXCEPT ![s].status = outcome]
    /\ UNCHANGED <<file, sent_addresses, pc, step, work, current, sending, excused>>

Command == \/ StartMassSend \/ StartResend
           \/ \E g \in work : NextBatch(g) \/ CheckStatus(g)
           \/ SendBatch \/ SendFails \/ Record \/ WriteFile \/ EndRun

Next == Command \/ Crash \/ \E s \in Signatures : Settle(s)

Spec == Init /\ [][Next]_vars
-----------------------------------------------------------------------------
\* Transactions that paid address a, or may still pay it.
Paying(a) == {s \in Signatures : a \in txs[s].to /\ txs[s].status \in {"pending", "final"}}

\* Over any number of runs of both commands no address is paid twice, except
\* through a transaction whose record a crash or a failed request lost, or one
\* that resend replaced while it was pending.  So a run that is not interrupted
\* may be repeated, and a resend after every transaction is settled never pays
\* again.
PaidOnce ==
    \A a \in List : \A s, t \in Paying(a) \ excused : s = t

\* A record in the file names a transaction that pays the address: resend asks
\* about the right transaction, and cutting a large group leaves the others
\* under their old one.
RecordsTrue ==
    file # Torn =>
      \A a \in List : file[a] # None =>
         file[a] \in Signatures /\ a \in txs[file[a]].to

-----------------------------------------------------------------------------
\* The invariant behind both, in four parts.
Transaction == [to : SUBSET List, status : {"pending", "final", "error", "expired"}]
Group == [signature : Nat \cup {None}, to : SUBSET List]

SendTypeOK ==
    /\ sent_addresses \in [List -> Nat \cup {None}]
    /\ txs \in Seq(Transaction)
    /\ pc \in {"idle", "mass", "resend"}
    /\ step \in {"next", "send", "record", "write"}
    /\ work \subseteq Group /\ current \in Group /\ sending \in Group
    /\ pc = "idle" => step = "next"

\* The record of the addresses of group g is still the one the run began with.
Untouched(g) == \A a \in g.to : sent_addresses[a] = g.signature

\* Groups still to be done are untouched and share no address with one another or
\* with the one being done.
WorkInv ==
    /\ pc = "mass" => \A g \in work : g.signature = None
    /\ pc = "resend" => \A g \in work : g.signature \in Signatures
    /\ \A g \in work : Untouched(g)
    /\ \A g, h \in work : g # h => g.to \cap h.to = {}
    /\ step # "next" => \A g \in work : g.to \cap current.to = {}

\* The group being paid has no record, or one of a transaction that is dead or
\* excused; the transaction just sent is the last, and pays only the group.
CurrentInv ==
    /\ step \in {"send", "record"} =>
         /\ Untouched(current)
         /\ \/ current.signature = None
            \/ current.signature \in Signatures /\ current.signature \in excused
            \/ current.signature \in Signatures
               /\ txs[current.signature].status \in {"expired", "error"}
    /\ step = "record" =>
         /\ sending.to \subseteq current.to
         /\ sending.signature \in Signatures /\ sending.signature = Len(txs)
         /\ txs[sending.signature].to = sending.to

\* The copy agrees with the file.  It names for an address a transaction that pays
\* it, and the only one that does, apart from the excused and the one to be recorded.
RecordInv ==
    /\ file # Torn => file = sent_addresses
    /\ \A a \in List :
         /\ sent_addresses[a] # None =>
              sent_addresses[a] \in Signatures /\ a \in txs[sent_addresses[a]].to
         /\ \A s \in Paying(a) \ excused :
              \/ s = sent_addresses[a]
              \/ step = "record" /\ s = sending.signature

SendInv == SendTypeOK /\ WorkInv /\ CurrentInv /\ RecordInv
=============================================================================
