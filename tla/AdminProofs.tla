---------------------------- MODULE AdminProofs ----------------------------
(***************************************************************************)
(* That the administrator's commands leave no file behind undone, and that *)
(* set_enable_slot_by_time picks a slot near the time asked for, for every *)
(* directory, set of operators and list of samples.                        *)
(***************************************************************************)
EXTENDS AdminCommands, TLAPS

\* The commands of the CLI are well formed, whatever their arguments.
LEMMA CommandsWellFormed ==
    ASSUME NEW x, NEW ts \in Nat, NEW only \in Versions \cup {None}
    PROVE  /\ WellFormed(process_set_admin(x))
           /\ WellFormed(process_set_clawback_receiver(x))
           /\ WellFormed(process_clawback)
           /\ WellFormed(process_set_enable_slot(x, only))
           /\ WellFormed(process_set_enable_slot_by_time(ts, only))
           /\ WellFormed(process_close_distributor(only))
           /\ WellFormed(process_verify(x))
           /\ WellFormed(NoCommand)
<1>1. Directory \in Seq(Versions)
  BY AdminAssumption DEF Versions
<1>2. only \in Versions => <<only>> \in Seq(Versions)
  OBVIOUS
<1>3. <<>> \in Seq(Versions)
  OBVIOUS
<1>4. WellFormed(process_set_admin(x)) /\ WellFormed(process_set_clawback_receiver(x))
  BY <1>1 DEF WellFormed, process_set_admin, process_set_clawback_receiver
<1>5. WellFormed(process_clawback) /\ WellFormed(process_verify(x)) /\ WellFormed(NoCommand)
  BY <1>1, <1>3 DEF WellFormed, process_clawback, process_verify, NoCommand
<1>6. WellFormed(process_set_enable_slot(x, only))
  BY <1>1, <1>2 DEF WellFormed, process_set_enable_slot
<1>7. WellFormed(process_set_enable_slot_by_time(ts, only))
  BY <1>1, <1>2 DEF WellFormed, process_set_enable_slot_by_time
<1>8. WellFormed(process_close_distributor(only))
  BY <1>1, <1>2, <1>3 DEF WellFormed, process_close_distributor
<1> QED
  BY <1>4, <1>5, <1>6, <1>7, <1>8
-----------------------------------------------------------------------------
\* From a time to a slot.

\* The average is the default's at most twice and at least half.
LEMMA AverageSane ==
    ASSUME NEW s \in Samples, Usable(s)
    PROVE  /\ get_average_slot_time(s) \in Nat
           /\ get_average_slot_time(s) >= 200
           /\ get_average_slot_time(s) <= 800
<1>1. CASE s = <<>>
  BY <1>1 DEF get_average_slot_time, DEFAULT_MS_PER_SLOT
<1>2. CASE s # <<>>
  <2>1. Len(s) \in Nat /\ Len(s) > 0 /\ Total(s) \in Nat
    BY <1>2, SamplesAssumption
  <2> DEFINE average == Total(s) \div Len(s)
  <2>2. average \in Nat
    BY <2>1
  <2>3. get_average_slot_time(s) =
            IF average < 200 \/ average > 800 THEN 400 ELSE average
    BY <1>2 DEF get_average_slot_time, DEFAULT_MS_PER_SLOT
  <2> HIDE DEF average
  <2> QED
    BY <2>2, <2>3
<1> QED
  BY <1>1, <1>2

\* The quotient of a truncating division.
LEMMA Quotient ==
    \A ms, d \in Nat :
        d >= 200 /\ d <= 800 =>
            \E q \in Nat : ms \div d = q /\ q * 200 <= ms /\ ms < (q + 1) * 800
<1> SUFFICES ASSUME NEW ms \in Nat, NEW d \in Nat, d >= 200, d <= 800
             PROVE  \E q \in Nat : ms \div d = q /\ q * 200 <= ms /\ ms < (q + 1) * 800
  OBVIOUS
<1> DEFINE q == ms \div d
<1>1. q \in Nat /\ q * d <= ms /\ ms < (q + 1) * d
  OBVIOUS
<1> HIDE DEF q
<1>2. q * 200 <= q * d
  BY <1>1
<1>3. (q + 1) * d <= (q + 1) * 800
  BY <1>1
<1>4. q * 200 <= ms /\ ms < (q + 1) * 800
  <2>1. q * d \in Nat /\ (q + 1) * d \in Nat
    BY <1>1
  <2> QED
    BY <1>1, <1>2, <1>3, <2>1
<1> QED
  BY <1>1, <1>4 DEF q

LEMMA SlotNear ==
    ASSUME NEW timestamp \in Nat, NEW ts \in Nat, NEW slot \in Nat,
           NEW d \in Nat, d >= 200, d <= 800,
           NEW now, now.ts = ts, now.slot = slot
    PROVE  Near(timestamp, now, SlotAt(timestamp, now, d))
<1>1. CASE timestamp > ts
  <2>1. PICK ms \in Nat : ms = (timestamp - ts) * 1000
    BY <1>1
  <2>2. SlotAt(timestamp, now, d) = slot + ms \div d
    BY <1>1, <2>1 DEF SlotAt
  <2>3. PICK q \in Nat : ms \div d = q /\ q * 200 <= ms /\ ms < (q + 1) * 800
    BY Quotient
  <2>4. SlotAt(timestamp, now, d) - slot = q /\ q >= 0
    BY <2>2, <2>3
  <2>5. 1000 * (timestamp - ts) = ms
    BY <2>1
  <2> QED
    BY <1>1, <2>3, <2>4, <2>5 DEF Near, DEFAULT_MS_PER_SLOT
<1>2. CASE ~(timestamp > ts)
  <2>1. PICK ms \in Nat : ms = (ts - timestamp) * 1000
    BY <1>2
  <2>2. SlotAt(timestamp, now, d) = slot - ms \div d
    BY <1>2, <2>1 DEF SlotAt
  <2>3. PICK q \in Nat : ms \div d = q /\ q * 200 <= ms /\ ms < (q + 1) * 800
    BY Quotient
  <2>4. slot - SlotAt(timestamp, now, d) = q /\ q >= 0
    BY <2>2, <2>3
  <2>5. 1000 * (ts - timestamp) = ms
    BY <2>1
  <2> QED
    BY <1>2, <2>3, <2>4, <2>5 DEF Near, DEFAULT_MS_PER_SLOT
<1> QED
  BY <1>1, <1>2
-----------------------------------------------------------------------------
\* The inductive invariant.
Ats == {"idle", "estimate", "vault", "read", "send", "confirm", "ended", "panicked"}

IsRun(r) ==
    /\ DOMAIN r = {"cmd", "file", "at", "to", "waits", "outcome"}
    /\ WellFormed(r.cmd)
    /\ r.file \in Nat /\ r.waits \in Nat /\ r.at \in Ats
    /\ r.at \in {"vault", "read", "send", "confirm"} => r.file \in 1..Len(r.cmd.files)
    /\ r.at = "estimate" => r.cmd.op = "by_time" /\ r.file = 0

\* The files before the present one are done.
Done(r, h) ==
    r.cmd.confirms \/ r.cmd.op = "verify" =>
        \A n \in 1..Len(r.cmd.files) : n < r.file => r.cmd.files[n] \in h

ShapeInv ==
    /\ DOMAIN accounts = Versions
    /\ \A v \in Versions : IsAccount(accounts[v])
    /\ clock = [ts |-> clock.ts, slot |-> clock.slot]
    /\ clock.ts \in Nat /\ clock.slot \in Nat
    /\ run = [o \in Operators |-> run[o]]
    /\ held \in [Operators -> SUBSET Versions]
    /\ \A o \in Operators : IsRun(run[o])

\* Transactions in flight have different ids.
FlightInv ==
    /\ \A t \in flight : t.by \in Operators /\ t.id \in Ids
    /\ \A t, u \in flight : t.id = u.id => t = u

\* Whoever waits has a transaction in flight, or has been told its outcome.
WaitInv ==
    \A o \in Operators :
        run[o].at = "confirm" =>
            /\ run[o].cmd.confirms
            /\ \/ run[o].waits \in Ids /\ Transaction(o, run[o].waits) \in flight
               \/ run[o].waits = 0
            /\ run[o].outcome = "landed" => File(o) \in held[o]

\* What is as asked now is held.
HeldInv ==
    \A o \in Operators : \A v \in Versions :
        Satisfied(run[o].cmd, accounts[v]) => v \in held[o]

DoneInv == \A o \in Operators : Done(run[o], held[o])

AdminInv == ShapeInv /\ FlightInv /\ WaitInv /\ HeldInv /\ DoneInv
-----------------------------------------------------------------------------
\* Where a run goes.
LEMMA NextFileRun ==
    ASSUME NEW r, IsRun(r)
    PROVE  /\ IsRun(NextFile(r))
           /\ NextFile(r).cmd = r.cmd /\ NextFile(r).file = r.file + 1
           /\ NextFile(r).at \notin {"confirm", "estimate"}
<1>1. Begin(r.cmd) \in {"vault", "read", "send"}
  BY DEF Begin
<1>2. Len(r.cmd.files) \in Nat
  BY DEF IsRun, WellFormed
<1> DEFINE at == IF r.file < Len(r.cmd.files) THEN Begin(r.cmd) ELSE "ended"
<1>3. /\ DOMAIN NextFile(r) = DOMAIN r
      /\ NextFile(r).cmd = r.cmd /\ NextFile(r).file = r.file + 1
      /\ NextFile(r).at = at /\ NextFile(r).waits = 0
  BY DEF IsRun, NextFile
<1>4. at \in Ats \ {"confirm", "estimate"}
  BY <1>1 DEF Ats
<1>5. at # "ended" => r.file + 1 \in 1..Len(r.cmd.files)
  BY <1>2 DEF IsRun
<1> HIDE DEF at
<1> QED
  BY <1>3, <1>4, <1>5 DEF IsRun

LEMMA PanickedRun ==
    ASSUME NEW r, IsRun(r)
    PROVE  /\ IsRun(Panicked(r))
           /\ Panicked(r).cmd = r.cmd /\ Panicked(r).file = r.file
           /\ Panicked(r).at = "panicked"
<1>1. /\ DOMAIN Panicked(r) = DOMAIN r
      /\ Panicked(r).cmd = r.cmd /\ Panicked(r).file = r.file
      /\ Panicked(r).at = "panicked" /\ Panicked(r).waits = 0
  BY DEF IsRun, Panicked
<1> QED
  BY <1>1 DEF IsRun, Ats

LEMMA RetriedRun ==
    ASSUME NEW r, IsRun(r), r.at \in {"read", "send", "confirm"}
    PROVE  /\ IsRun(Retried(r, "read"))
           /\ Retried(r, "read").cmd = r.cmd /\ Retried(r, "read").file = r.file
           /\ Retried(r, "read").at = "read"
<1>1. /\ DOMAIN Retried(r, "read") = DOMAIN r
      /\ Retried(r, "read").cmd = r.cmd /\ Retried(r, "read").file = r.file
      /\ Retried(r, "read").at = "read" /\ Retried(r, "read").waits = 0
  BY DEF IsRun, Retried
<1> QED
  BY <1>1 DEF IsRun, Ats

\* After an error a run is at the same file, or at the next one.
LEMMA LeadsRun ==
    ASSUME NEW r, IsRun(r), r.at \in {"read", "send", "confirm"},
           NEW how \in {"next", "panic", "retry"}
    PROVE  /\ IsRun(Leads(how, r))
           /\ Leads(how, r).cmd = r.cmd
           /\ Leads(how, r).at # "confirm"
           /\ \/ Leads(how, r).file = r.file
              \/ how = "next" /\ Leads(how, r).file = r.file + 1
<1>1. CASE how = "next"
  BY <1>1, NextFileRun DEF Leads
<1>2. CASE how = "panic"
  BY <1>2, PanickedRun DEF Leads
<1>3. CASE how = "retry"
  BY <1>3, RetriedRun DEF Leads
<1> QED
  BY <1>1, <1>2, <1>3
-----------------------------------------------------------------------------
\* What replacing one run does to the others.
LEMMA OneRun ==
    ASSUME ShapeInv, NEW o \in Operators, NEW r, run' = [run EXCEPT ![o] = r]
    PROVE  /\ run' = [p \in Operators |-> run'[p]]
           /\ run'[o] = r
           /\ \A p \in Operators \ {o} :
                 /\ run'[p] = run[p] /\ File(p)' = File(p)
                 /\ \A i : Transaction(p, i)' = Transaction(p, i)
<1>1. DOMAIN run = Operators
  BY DEF ShapeInv
<1>2. run'[o] = r /\ \A p \in Operators \ {o} : run'[p] = run[p]
  BY <1>1
<1>3. run' = [p \in Operators |-> run'[p]]
  BY <1>1, Zenon
<1> QED
  BY <1>2, <1>3 DEF File, Transaction

\* A step of a command that keeps the command, waits for nothing afterwards
\* and leaves a file only when it may.
LEMMA OwnStep ==
    ASSUME AdminInv, NEW o \in Operators, NEW r, IsRun(r),
           r.cmd = run[o].cmd, r.at # "confirm", run' = [run EXCEPT ![o] = r],
           \/ r.file = run[o].file
           \/ /\ r.file = run[o].file + 1
              /\ r.cmd.confirms \/ r.cmd.op = "verify" => File(o) \in held[o],
           accounts' = accounts, clock' = clock, held' = held,
           flight \subseteq flight', FlightInv'
    PROVE  AdminInv'
<1> USE DEF AdminInv
<1>1. /\ run' = [p \in Operators |-> run'[p]]
      /\ run'[o] = r
      /\ \A p \in Operators \ {o} :
            /\ run'[p] = run[p] /\ File(p)' = File(p)
            /\ \A i : Transaction(p, i)' = Transaction(p, i)
  BY OneRun, Zenon
<1>2. ShapeInv'
  BY <1>1 DEF ShapeInv
<1>3. WaitInv'
  BY <1>1 DEF WaitInv
<1>4. HeldInv'
  BY <1>1 DEF HeldInv
<1>5. DoneInv'
  <2>1. Done(r, held[o])
    <3>1. run[o].file \in Nat /\ Done(run[o], held[o])
      BY DEF ShapeInv, IsRun, DoneInv
    <3>2. CASE r.file = run[o].file
      BY <3>1, <3>2 DEF Done
    <3>3. CASE r.file # run[o].file
      BY <3>1, <3>3 DEF Done, File
    <3> QED
      BY <3>2, <3>3
  <2> QED
    BY <1>1, <2>1 DEF DoneInv
<1> QED
  BY <1>2, <1>3, <1>4, <1>5

\* A command begins, or by_time has its slot.
LEMMA NewCommand ==
    ASSUME AdminInv, NEW o \in Operators, NEW r, IsRun(r),
           r.at # "confirm", r.file \in {0, 1}, run' = [run EXCEPT ![o] = r],
           held' = [held EXCEPT ![o] = {v \in Versions : Satisfied(r.cmd, accounts[v])}],
           accounts' = accounts, clock' = clock, flight' = flight
    PROVE  AdminInv'
<1> USE DEF AdminInv
<1>1. /\ run' = [p \in Operators |-> run'[p]]
      /\ run'[o] = r
      /\ \A p \in Operators \ {o} :
            /\ run'[p] = run[p] /\ File(p)' = File(p)
            /\ \A i : Transaction(p, i)' = Transaction(p, i)
  BY OneRun, Zenon
<1>2. /\ held' \in [Operators -> SUBSET Versions]
      /\ held'[o] = {v \in Versions : Satisfied(r.cmd, accounts[v])}
      /\ \A p \in Operators \ {o} : held'[p] = held[p]
  BY DEF ShapeInv
<1>3. ShapeInv'
  BY <1>1, <1>2 DEF ShapeInv
<1>4. FlightInv' /\ WaitInv'
  BY <1>1, <1>2 DEF FlightInv, WaitInv
<1>5. HeldInv'
  BY <1>1, <1>2 DEF HeldInv
<1>6. DoneInv'
  <2>1. \A n \in 1..Len(r.cmd.files) : ~(n < r.file)
    BY DEF IsRun, WellFormed
  <2>2. Done(r, held'[o])
    BY <2>1 DEF Done
  <2> QED
    BY <1>1, <1>2, <2>2 DEF DoneInv
<1> QED
  BY <1>3, <1>4, <1>5, <1>6
-----------------------------------------------------------------------------
\* The actions.
LEMMA GiveInv ==
    ASSUME AdminInv, NEW o \in Operators, Give(o)
    PROVE  AdminInv'
<1>1. PICK c \in Commands[o] :
          LET r == [cmd |-> c, file |-> 0, at |-> "estimate", to |-> None,
                    waits |-> 0, outcome |-> "none"]
          IN  /\ Becomes(o, IF c.op = "by_time" THEN r ELSE NextFile(r))
              /\ held' = [held EXCEPT ![o] = {v \in Versions : Satisfied(c, accounts[v])}]
  BY Zenon DEF Give
<1> DEFINE r == [cmd |-> c, file |-> 0, at |-> "estimate", to |-> None,
                 waits |-> 0, outcome |-> "none"]
           idle == [r EXCEPT !.at = "idle"]
           s == IF c.op = "by_time" THEN r ELSE NextFile(r)
<1>2. WellFormed(c)
  BY CommandsAssumption
<1>3. IsRun(s) /\ s.cmd = c /\ s.at # "confirm" /\ s.file \in {0, 1}
  <2>1. CASE c.op = "by_time"
    BY <1>2, <2>1 DEF IsRun, Ats
  <2>2. CASE c.op # "by_time"
    <3>1. IsRun(idle) /\ idle.cmd = c /\ idle.file = 0
      BY <1>2 DEF IsRun, Ats
    <3>2. NextFile(r) = NextFile(idle)
      BY Zenon DEF NextFile
    <3> QED
      BY <2>2, <3>1, <3>2, NextFileRun
  <2> QED
    BY <2>1, <2>2
<1>4. /\ run' = [run EXCEPT ![o] = s]
      /\ held' = [held EXCEPT ![o] = {v \in Versions : Satisfied(c, accounts[v])}]
      /\ accounts' = accounts /\ clock' = clock /\ flight' = flight
  BY <1>1, Zenon DEF Give, Becomes
<1> HIDE DEF s
<1> QED
  BY <1>3, <1>4, NewCommand, Zenon

\* The command by_time turns into when its slot is known.
LEMMA EnablingRun ==
    ASSUME NEW r, IsRun(r), r.at = "estimate", NEW slot
    PROVE  /\ IsRun(Enabling(r, slot))
           /\ Enabling(r, slot).at # "confirm"
           /\ Enabling(r, slot).file = 1
           /\ Enabling(r, slot).cmd.value = slot
<1> DEFINE c == [r.cmd EXCEPT !.op = "set_enable_slot", !.value = slot]
           s == [r EXCEPT !.cmd = c]
           idle == [s EXCEPT !.at = "idle"]
<1>1. /\ DOMAIN c = DOMAIN r.cmd /\ c.op = "set_enable_slot" /\ c.value = slot
      /\ c.files = r.cmd.files /\ c.confirms = r.cmd.confirms
      /\ c.on_error = r.cmd.on_error /\ c.unreadable = r.cmd.unreadable
  BY DEF IsRun, WellFormed
<1>2. r.cmd.op = "by_time" /\ r.file = 0 /\ WellFormed(r.cmd)
  BY DEF IsRun
<1>3. WellFormed(c)
  <2>1. c.confirms => r.cmd.on_error # "next" /\ r.cmd.unreadable # "next"
    BY <1>1, <1>2 DEF WellFormed
  <2> HIDE DEF c
  <2> QED
    BY <1>1, <1>2, <2>1 DEF WellFormed
<1>4. Enabling(r, slot) = NextFile(s)
  BY DEF Enabling, IsRun
<1> HIDE DEF c
<1>5. IsRun(idle) /\ idle.cmd = c /\ idle.file = 0
  BY <1>2, <1>3 DEF IsRun, Ats
<1>6. NextFile(s) = NextFile(idle)
  BY Zenon DEF NextFile, IsRun
<1> HIDE DEF idle, s
<1> QED
  BY <1>1, <1>4, <1>5, <1>6, NextFileRun

LEMMA EstimateInv ==
    ASSUME AdminInv, NEW o \in Operators, Estimate(o)
    PROVE  AdminInv'
<1> DEFINE slot(samples) ==
               SlotAt(run[o].cmd.value, clock, get_average_slot_time(samples))
           r(samples) == Enabling(run[o], slot(samples))
<1>1. PICK samples \in Samples :
          \/ /\ run' = [run EXCEPT ![o] = r(samples)]
             /\ held' = [held EXCEPT ![o] =
                           {v \in Versions : Satisfied(r(samples).cmd, accounts[v])}]
          \/ run' = [run EXCEPT ![o] = Panicked(run[o])] /\ held' = held
  BY DEF Estimate, Becomes
<1>2. /\ IsRun(run[o]) /\ run[o].at = "estimate"
      /\ accounts' = accounts /\ clock' = clock /\ flight' = flight
  BY DEF AdminInv, ShapeInv, Estimate
<1>3. ASSUME run' = [run EXCEPT ![o] = r(samples)],
             held' = [held EXCEPT ![o] =
                       {v \in Versions : Satisfied(r(samples).cmd, accounts[v])}]
      PROVE  AdminInv'
  <2>1. /\ IsRun(r(samples)) /\ r(samples).at # "confirm"
        /\ r(samples).file \in {0, 1}
    BY <1>2, EnablingRun
  <2> HIDE DEF r
  <2> QED
    BY <1>2, <1>3, <2>1, NewCommand, Zenon
<1>4. ASSUME run' = [run EXCEPT ![o] = Panicked(run[o])], held' = held
      PROVE  AdminInv'
  <2>1. FlightInv'
    BY <1>2 DEF AdminInv, FlightInv
  <2> QED
    BY <1>2, <1>4, <2>1, PanickedRun, OwnStep, Zenon
<1> QED
  BY <1>1, <1>3, <1>4

\* The steps that only move the run on.
LEMMA QuietInv ==
    ASSUME AdminInv, NEW o \in Operators, NEW r, IsRun(r),
           r.cmd = run[o].cmd, r.at # "confirm", run' = [run EXCEPT ![o] = r],
           \/ r.file = run[o].file
           \/ /\ r.file = run[o].file + 1
              /\ r.cmd.confirms \/ r.cmd.op = "verify" => File(o) \in held[o],
           UNCHANGED <<accounts, clock, flight, runs, held>>
    PROVE  AdminInv'
<1>1. FlightInv'
  BY DEF AdminInv, FlightInv
<1> QED
  BY <1>1, OwnStep, Zenon

\* The file a run is at is one of the directory's.
LEMMA FileVersion ==
    ASSUME AdminInv, NEW o \in Operators,
           run[o].at \in {"vault", "read", "send", "confirm"}
    PROVE  IsRun(run[o]) /\ File(o) \in Versions
BY DEF AdminInv, ShapeInv, IsRun, WellFormed, File

\* An error leads a command that waits, or verify, to no other file.
LEMMA ErrorInv ==
    ASSUME AdminInv, NEW o \in Operators, run[o].at \in {"read", "send", "confirm"},
           NEW how \in {run[o].cmd.on_error, run[o].cmd.unreadable},
           run' = [run EXCEPT ![o] = Leads(how, run[o])],
           accounts' = accounts, clock' = clock, held' = held,
           flight \subseteq flight', FlightInv'
    PROVE  AdminInv'
<1>1. IsRun(run[o]) /\ WellFormed(run[o].cmd)
  BY DEF AdminInv, ShapeInv, IsRun
<1>2. how \in {"next", "panic", "retry"}
  BY <1>1 DEF WellFormed
<1>3. how = "next" => ~(run[o].cmd.confirms \/ run[o].cmd.op = "verify")
  BY <1>1 DEF WellFormed
<1> DEFINE r == Leads(how, run[o])
<1>4. /\ IsRun(r) /\ r.cmd = run[o].cmd /\ r.at # "confirm"
      /\ r.file = run[o].file \/ (how = "next" /\ r.file = run[o].file + 1)
  BY <1>1, <1>2, LeadsRun
<1> HIDE DEF r
<1>5. \/ r.file = run[o].file
      \/ /\ r.file = run[o].file + 1
         /\ r.cmd.confirms \/ r.cmd.op = "verify" => File(o) \in held[o]
  BY <1>3, <1>4
<1>6. run' = [run EXCEPT ![o] = r]
  BY DEF r
<1> QED
  BY <1>4, <1>5, <1>6, OwnStep, Zenon

LEMMA ReadVaultInv ==
    ASSUME AdminInv, NEW o \in Operators, ReadVault(o)
    PROVE  AdminInv'
<1>1. IsRun(run[o]) /\ run[o].at = "vault"
  BY FileVersion DEF ReadVault
<1> DEFINE r == [run[o] EXCEPT !.at = "read"]
<1>2. ASSUME run' = [run EXCEPT ![o] = r]
      PROVE  AdminInv'
  <2>1. IsRun(r) /\ r.cmd = run[o].cmd /\ r.at # "confirm" /\ r.file = run[o].file
    BY <1>1 DEF IsRun, Ats
  <2> HIDE DEF r
  <2> QED
    BY <1>2, <2>1, QuietInv, Zenon DEF ReadVault
<1>3. ASSUME run' = [run EXCEPT ![o] = Panicked(run[o])]
      PROVE  AdminInv'
  BY <1>1, <1>3, PanickedRun, QuietInv, Zenon DEF ReadVault
<1> QED
  BY <1>2, <1>3, Zenon DEF ReadVault, Becomes

LEMMA ReadAccountInv ==
    ASSUME AdminInv, NEW o \in Operators, ReadAccount(o)
    PROVE  AdminInv'
<1>1. /\ IsRun(run[o]) /\ run[o].at = "read" /\ File(o) \in Versions
      /\ UNCHANGED <<accounts, clock, flight, runs, held>>
  BY FileVersion DEF ReadAccount
<1> DEFINE a == accounts[File(o)]
           r == [run[o] EXCEPT !.at = "send", !.to = a.clawback_receiver]
<1>2. ASSUME Satisfied(run[o].cmd, a), run' = [run EXCEPT ![o] = NextFile(run[o])]
      PROVE  AdminInv'
  <2>1. File(o) \in held[o]
    BY <1>1, <1>2 DEF AdminInv, HeldInv
  <2> QED
    BY <1>1, <1>2, <2>1, NextFileRun, QuietInv, Zenon
<1>3. ASSUME run' = [run EXCEPT ![o] = r]
      PROVE  AdminInv'
  <2>1. IsRun(r) /\ r.cmd = run[o].cmd /\ r.at # "confirm" /\ r.file = run[o].file
    BY <1>1 DEF IsRun, Ats
  <2> HIDE DEF r
  <2> QED
    BY <1>1, <1>3, <2>1, QuietInv, Zenon
<1>4. ASSUME run' = [run EXCEPT ![o] = Panicked(run[o])]
      PROVE  AdminInv'
  BY <1>1, <1>4, PanickedRun, QuietInv, Zenon
<1>5. ASSUME run' = [run EXCEPT ![o] = Leads(run[o].cmd.unreadable, run[o])]
      PROVE  AdminInv'
  <2>1. FlightInv'
    BY <1>1 DEF AdminInv, FlightInv
  <2> QED
    BY <1>1, <1>5, <2>1, ErrorInv, Zenon
<1> QED
  BY <1>2, <1>3, <1>4, <1>5 DEF ReadAccount, Becomes

LEMMA TakenFlight ==
    ASSUME AdminInv, NEW o \in Operators,
           NEW i \in Fresh, Taken(o, i)
    PROVE  /\ FlightInv' /\ flight \subseteq flight'
           /\ Transaction(o, i) \in flight'
           /\ run[o].at = "send" /\ run[o].cmd.op # "verify"
           /\ accounts' = accounts /\ clock' = clock /\ held' = held
<1>1. flight' = flight \cup {Transaction(o, i)}
  BY DEF Taken
<1>2. Transaction(o, i).id = i /\ Transaction(o, i).by = o
  BY DEF Transaction
<1>3. FlightInv'
  BY <1>1, <1>2 DEF AdminInv, FlightInv, Fresh, FreeIds
<1>4. run[o].cmd.op # "verify"
  <2>1. Transaction(o, i).op = run[o].cmd.op
    BY DEF Transaction
  <2> QED
    BY <2>1 DEF Taken, Executes
<1> QED
  BY <1>1, <1>3, <1>4 DEF Taken

LEMMA SendInv ==
    ASSUME AdminInv, NEW o \in Operators, Send(o)
    PROVE  AdminInv'
<1>1. PICK i \in Fresh :
          /\ Taken(o, i)
          /\ run' = [run EXCEPT ![o] =
                IF run[o].cmd.confirms
                THEN [run[o] EXCEPT !.at = "confirm", !.waits = i, !.outcome = "none"]
                ELSE NextFile(run[o])]
  BY Zenon DEF Send, Becomes
<1>2. /\ FlightInv' /\ flight \subseteq flight'
      /\ Transaction(o, i) \in flight'
      /\ run[o].at = "send" /\ run[o].cmd.op # "verify"
      /\ accounts' = accounts /\ clock' = clock /\ held' = held
  BY <1>1, TakenFlight
<1>3. IsRun(run[o])
  BY <1>2, FileVersion
<1>4. ASSUME ~run[o].cmd.confirms
      PROVE  AdminInv'
  <2>1. run' = [run EXCEPT ![o] = NextFile(run[o])]
    BY <1>1, <1>4
  <2> QED
    BY <1>2, <1>3, <1>4, <2>1, NextFileRun, OwnStep, Zenon
<1>5. ASSUME run[o].cmd.confirms
      PROVE  AdminInv'
  <2> DEFINE r == [run[o] EXCEPT !.at = "confirm", !.waits = i, !.outcome = "none"]
  <2>1. /\ IsRun(r) /\ r.cmd = run[o].cmd /\ r.file = run[o].file /\ r.to = run[o].to
        /\ r.at = "confirm" /\ r.waits = i /\ r.outcome = "none"
    <3>1. i \in Nat
      BY AdminAssumption DEF Ids, Fresh, FreeIds
    <3> QED
      BY <1>2, <1>3, <3>1 DEF IsRun, Ats
  <2>2. run' = [run EXCEPT ![o] = r]
    BY <1>1, <1>5
  <2> HIDE DEF r
  <2>3. /\ run' = [p \in Operators |-> run'[p]]
        /\ run'[o] = r
        /\ \A p \in Operators \ {o} :
              /\ run'[p] = run[p] /\ File(p)' = File(p)
              /\ \A j : Transaction(p, j)' = Transaction(p, j)
    BY <2>2, OneRun, Zenon DEF AdminInv
  <2>4. Transaction(o, i)' = Transaction(o, i)
    BY <2>1, <2>3 DEF Transaction
  <2>5. ShapeInv'
    BY <1>2, <2>1, <2>3 DEF AdminInv, ShapeInv
  <2>6. WaitInv'
    <3>1. \A p \in Operators \ {o} : WaitInv!(p)'
      BY <1>2, <2>3 DEF AdminInv, WaitInv
    <3>2. i \in Ids
      BY DEF Fresh, FreeIds
    <3>3. WaitInv!(o)'
      BY <1>2, <1>5, <2>1, <2>3, <2>4, <3>2 DEF WaitInv
    <3> QED
      BY <3>1, <3>3 DEF WaitInv
  <2>7. HeldInv'
    BY <1>2, <2>1, <2>3 DEF AdminInv, HeldInv
  <2>8. DoneInv'
    BY <1>2, <2>1, <2>3 DEF AdminInv, DoneInv, Done
  <2> QED
    BY <1>2, <2>5, <2>6, <2>7, <2>8 DEF AdminInv
<1> QED
  BY <1>4, <1>5

LEMMA AnswerLostInv ==
    ASSUME AdminInv, NEW o \in Operators, AnswerLost(o)
    PROVE  AdminInv'
<1>1. PICK i \in Fresh :
          Taken(o, i) /\ run' = [run EXCEPT ![o] = Leads(run[o].cmd.on_error, run[o])]
  BY DEF AnswerLost, Becomes
<1> QED
  BY <1>1, TakenFlight, ErrorInv, Zenon

LEMMA RefusedInv ==
    ASSUME AdminInv, NEW o \in Operators, Refused(o)
    PROVE  AdminInv'
<1>1. FlightInv'
  BY DEF AdminInv, FlightInv, Refused
<1> QED
  BY <1>1, ErrorInv, Zenon DEF Refused, Becomes

LEMMA UnwrapInv ==
    ASSUME AdminInv, NEW o \in Operators, Unwrap(o)
    PROVE  AdminInv'
<1>1. IsRun(run[o])
  BY DEF AdminInv, ShapeInv
<1> QED
  BY <1>1, PanickedRun, QuietInv, Zenon DEF Unwrap, Becomes

LEMMA ConfirmInv ==
    ASSUME AdminInv, NEW o \in Operators, Confirm(o)
    PROVE  AdminInv'
<1>1. /\ IsRun(run[o]) /\ run[o].at = "confirm"
      /\ UNCHANGED <<accounts, clock, flight, runs, held>>
  BY FileVersion DEF Confirm
<1>2. ASSUME run[o].outcome = "landed", run' = [run EXCEPT ![o] = NextFile(run[o])]
      PROVE  AdminInv'
  <2>1. File(o) \in held[o]
    BY <1>1, <1>2 DEF AdminInv, WaitInv
  <2> QED
    BY <1>1, <1>2, <2>1, NextFileRun, QuietInv, Zenon
<1>3. ASSUME run' = [run EXCEPT ![o] = Leads(run[o].cmd.on_error, run[o])]
      PROVE  AdminInv'
  <2>1. FlightInv'
    BY <1>1 DEF AdminInv, FlightInv
  <2> QED
    BY <1>1, <1>3, <2>1, ErrorInv, Zenon
<1> QED
  BY <1>2, <1>3 DEF Confirm, Becomes

\* p waits for transaction t.
WaitsFor(p, t) == p = t.by /\ run[p].at = "confirm" /\ run[p].waits = t.id

LEMMA LearnRun ==
    ASSUME ShapeInv, NEW t, t.by \in Operators, NEW outcome, Learn(t, outcome)
    PROVE  /\ run' = [p \in Operators |-> run'[p]]
           /\ \A p \in Operators :
                 /\ IsRun(run'[p])
                 /\ run'[p].cmd = run[p].cmd /\ run'[p].file = run[p].file
                 /\ run'[p].at = run[p].at
                 /\ File(p)' = File(p)
                 /\ \A i : Transaction(p, i)' = Transaction(p, i)
                 /\ IF WaitsFor(p, t)
                    THEN run'[p].waits = 0 /\ run'[p].outcome = outcome
                    ELSE run'[p] = run[p]
<1>1. run = [p \in Operators |-> run[p]] /\ \A p \in Operators : IsRun(run[p])
  BY DEF ShapeInv
<1>2. ASSUME ~WaitsFor(t.by, t)
      PROVE  run' = run /\ \A p \in Operators : ~WaitsFor(p, t)
  BY <1>2 DEF Learn, WaitsFor
<1>3. ASSUME WaitsFor(t.by, t)
      PROVE  \E r : /\ run' = [run EXCEPT ![t.by] = r] /\ IsRun(r)
                    /\ r.cmd = run[t.by].cmd /\ r.file = run[t.by].file
                    /\ r.at = run[t.by].at /\ r.to = run[t.by].to
                    /\ r.waits = 0 /\ r.outcome = outcome
  <2> DEFINE r == [run[t.by] EXCEPT !.waits = 0, !.outcome = outcome]
  <2>1. run' = [run EXCEPT ![t.by] = r]
    BY <1>1, <1>3, Zenon DEF Learn, WaitsFor
  <2>2. /\ IsRun(r) /\ r.cmd = run[t.by].cmd /\ r.file = run[t.by].file
        /\ r.at = run[t.by].at /\ r.to = run[t.by].to
        /\ r.waits = 0 /\ r.outcome = outcome
    BY <1>1 DEF IsRun
  <2> HIDE DEF r
  <2> QED
    BY <2>1, <2>2, Zenon
<1>4. CASE ~WaitsFor(t.by, t)
  BY <1>1, <1>2, <1>4 DEF File, Transaction
<1>5. CASE WaitsFor(t.by, t)
  <2>1. PICK r : /\ run' = [run EXCEPT ![t.by] = r] /\ IsRun(r)
                 /\ r.cmd = run[t.by].cmd /\ r.file = run[t.by].file
                 /\ r.at = run[t.by].at /\ r.to = run[t.by].to
                 /\ r.waits = 0 /\ r.outcome = outcome
    BY <1>3, <1>5
  <2>2. /\ run' = [p \in Operators |-> run'[p]]
        /\ run'[t.by] = r
        /\ \A p \in Operators \ {t.by} :
              /\ run'[p] = run[p] /\ File(p)' = File(p)
              /\ \A i : Transaction(p, i)' = Transaction(p, i)
    BY <2>1, OneRun, Zenon
  <2>3. File(t.by)' = File(t.by)
    BY <2>1, <2>2, SMTT(20) DEF File
  <2>4. \A i : Transaction(t.by, i)' = Transaction(t.by, i)
    BY <2>1, <2>2 DEF Transaction
  <2>5. \A p \in Operators \ {t.by} : ~WaitsFor(p, t)
    BY DEF WaitsFor
  <2> QED
    BY <1>1, <1>5, <2>1, <2>2, <2>3, <2>4, <2>5
<1> QED
  BY <1>4, <1>5

\* Who waits for no transaction that has gone keeps its own in flight.
LEMMA StillInFlight ==
    ASSUME AdminInv, NEW t \in flight, NEW p \in Operators,
           run[p].at = "confirm", ~WaitsFor(p, t)
    PROVE  run[p].waits = 0 \/ Transaction(p, run[p].waits) \in flight \ {t}
<1>1. /\ Transaction(p, run[p].waits).by = p
      /\ Transaction(p, run[p].waits).id = run[p].waits
  BY DEF Transaction
<1> QED
  BY <1>1 DEF AdminInv, WaitInv, WaitsFor

LEMMA ExpireInv ==
    ASSUME AdminInv, NEW t \in flight, flight' = flight \ {t}, Learn(t, "failed"),
           UNCHANGED <<accounts, clock, runs, held>>
    PROVE  AdminInv'
<1>1. t.by \in Operators /\ FlightInv'
  BY DEF AdminInv, FlightInv
<1>2. /\ run' = [p \in Operators |-> run'[p]]
      /\ \A p \in Operators :
            /\ IsRun(run'[p])
            /\ run'[p].cmd = run[p].cmd /\ run'[p].file = run[p].file
            /\ run'[p].at = run[p].at
            /\ File(p)' = File(p)
            /\ \A i : Transaction(p, i)' = Transaction(p, i)
            /\ IF WaitsFor(p, t)
               THEN run'[p].waits = 0 /\ run'[p].outcome = "failed"
               ELSE run'[p] = run[p]
  BY <1>1, LearnRun DEF AdminInv
<1>3. ShapeInv' /\ HeldInv' /\ DoneInv'
  BY <1>2 DEF AdminInv, ShapeInv, HeldInv, DoneInv, Done
<1>4. WaitInv'
  <2>1. \A p \in Operators : WaitInv!(p)'
    <3> SUFFICES ASSUME NEW p \in Operators, run'[p].at = "confirm"
                 PROVE  WaitInv!(p)'
      OBVIOUS
    <3>1. WaitInv!(p)
      BY DEF AdminInv, WaitInv
    <3>2. CASE WaitsFor(p, t)
      BY <1>2, <3>1, <3>2
    <3>3. CASE ~WaitsFor(p, t)
      BY <1>2, <3>1, <3>3, StillInFlight
    <3> QED
      BY <3>2, <3>3
  <2> QED
    BY <2>1 DEF WaitInv
<1> QED
  BY <1>1, <1>3, <1>4 DEF AdminInv

\* A landing transaction of a command that waits does what was asked.
LEMMA LandedHeld ==
    ASSUME AdminInv, NEW t \in flight, Executes(t), NEW p \in Operators, WaitsFor(p, t),
           accounts' = [accounts EXCEPT ![t.version] = After(t)]
    PROVE  File(p) \in Versions /\ Satisfied(run[p].cmd, accounts'[File(p)])
<1>1. run[p].at = "confirm" /\ run[p].cmd.confirms /\ t.id # 0
  BY AdminAssumption DEF AdminInv, WaitInv, FlightInv, WaitsFor, Ids
<1>2. t = Transaction(p, t.id)
  <2>1. Transaction(p, t.id) \in flight
    BY <1>1 DEF AdminInv, WaitInv, WaitsFor
  <2>2. Transaction(p, t.id).id = t.id
    BY DEF Transaction
  <2> QED
    BY <2>1, <2>2 DEF AdminInv, FlightInv
<1>3. t.op = run[p].cmd.op /\ t.value = run[p].cmd.value /\ t.version = File(p)
  BY <1>2 DEF Transaction, File
<1>4. IsRun(run[p]) /\ File(p) \in Versions
  BY <1>1, FileVersion
<1>5. t.op = "set_enable_slot"
  <2>1. t.op \in {"set_enable_slot", "by_time"}
    BY <1>1, <1>3, <1>4 DEF IsRun, WellFormed
  <2> QED
    BY <2>1 DEF Executes
<1>6. /\ accounts'[File(p)] = [accounts[File(p)] EXCEPT !.enable_slot = t.value]
      /\ IsAccount(accounts[File(p)]) /\ accounts[File(p)].open
  BY <1>3, <1>4, <1>5 DEF AdminInv, ShapeInv, After, Executes
<1>7. accounts'[File(p)].open /\ accounts'[File(p)].enable_slot = t.value
  BY <1>6 DEF IsAccount
<1> QED
  BY <1>3, <1>4, <1>5, <1>7 DEF Satisfied

LEMMA LandInv ==
    ASSUME AdminInv, NEW t \in flight, Executes(t), flight' = flight \ {t},
           accounts' = [accounts EXCEPT ![t.version] = After(t)],
           held' = [o \in Operators |->
                      held[o] \cup {v \in Versions : Satisfied(run[o].cmd, accounts'[v])}],
           Learn(t, "landed"), UNCHANGED <<clock, runs>>
    PROVE  AdminInv'
<1>1. t.by \in Operators /\ FlightInv'
  BY DEF AdminInv, FlightInv
<1>2. /\ run' = [p \in Operators |-> run'[p]]
      /\ \A p \in Operators :
            /\ IsRun(run'[p])
            /\ run'[p].cmd = run[p].cmd /\ run'[p].file = run[p].file
            /\ run'[p].at = run[p].at
            /\ File(p)' = File(p)
            /\ \A i : Transaction(p, i)' = Transaction(p, i)
            /\ IF WaitsFor(p, t)
               THEN run'[p].waits = 0 /\ run'[p].outcome = "landed"
               ELSE run'[p] = run[p]
  BY <1>1, LearnRun DEF AdminInv
<1>3. /\ held' \in [Operators -> SUBSET Versions]
      /\ \A p \in Operators : held[p] \subseteq held'[p]
  BY DEF AdminInv, ShapeInv
<1>4. ShapeInv'
  <2>1. DOMAIN accounts' = Versions
    BY DEF AdminInv, ShapeInv
  <2>2. ASSUME NEW v \in Versions
        PROVE  IsAccount(accounts'[v])
    <3>1. IsAccount(accounts[v])
      BY DEF AdminInv, ShapeInv
    <3>2. CASE v # t.version
      BY <3>1, <3>2 DEF AdminInv, ShapeInv
    <3>3. CASE v = t.version
      <4>1. accounts'[v] = After(t)
        BY <3>3 DEF AdminInv, ShapeInv
      <4>2. IsAccount(After(t))
        BY <3>1, <3>3 DEF After, IsAccount
      <4> QED
        BY <4>1, <4>2
    <3> QED
      BY <3>2, <3>3
  <2> QED
    BY <1>2, <1>3, <2>1, <2>2 DEF AdminInv, ShapeInv
<1>5. HeldInv'
  BY <1>2 DEF HeldInv
<1>6. DoneInv'
  BY <1>2, <1>3 DEF AdminInv, DoneInv, Done
<1>7. WaitInv'
  <2>1. \A p \in Operators : WaitInv!(p)'
    <3> SUFFICES ASSUME NEW p \in Operators, run'[p].at = "confirm"
                 PROVE  WaitInv!(p)'
      OBVIOUS
    <3>1. WaitInv!(p)
      BY DEF AdminInv, WaitInv
    <3>2. CASE WaitsFor(p, t)
      <4>1. File(p) \in Versions /\ Satisfied(run[p].cmd, accounts'[File(p)])
        BY <3>2, LandedHeld, Zenon
      <4>2. File(p) \in held'[p]
        BY <4>1
      <4> QED
        BY <1>2, <3>1, <3>2, <4>2
    <3>3. CASE ~WaitsFor(p, t)
      BY <1>2, <1>3, <3>1, <3>3, StillInFlight
    <3> QED
      BY <3>2, <3>3
  <2> QED
    BY <2>1 DEF WaitInv
<1> QED
  BY <1>1, <1>4, <1>5, <1>6, <1>7 DEF AdminInv

LEMMA TickInv ==
    ASSUME AdminInv, Tick
    PROVE  AdminInv'
<1>1. PICK n \in {2, 3} : clock' = [ts |-> clock.ts + 1, slot |-> clock.slot + n]
  BY DEF Tick
<1>2. UNCHANGED <<accounts, flight, run, runs, held>>
  BY DEF Tick
<1>3. ShapeInv'
  BY <1>1, <1>2 DEF AdminInv, ShapeInv
<1>4. WaitInv'
  BY <1>2 DEF AdminInv, WaitInv, File, Transaction
<1> QED
  BY <1>2, <1>3, <1>4 DEF AdminInv, FlightInv, HeldInv, DoneInv
-----------------------------------------------------------------------------
LEMMA AdminInit == Init => AdminInv
<1> SUFFICES ASSUME Init
             PROVE  AdminInv
  OBVIOUS
<1> DEFINE r == [cmd |-> NoCommand, file |-> 0, at |-> "idle", to |-> None,
                 waits |-> 0, outcome |-> "none"]
<1>1. WellFormed(NoCommand)
  BY AdminAssumption DEF WellFormed, NoCommand
<1>2. IsRun(r) /\ r.at = "idle" /\ r.cmd = NoCommand
  BY <1>1 DEF IsRun, Ats
<1>3. run = [o \in Operators |-> r]
  BY DEF Init
<1> HIDE DEF r
<1>4. clock.ts \in Nat /\ clock.slot \in Nat /\ clock = [ts |-> clock.ts, slot |-> clock.slot]
  BY AdminAssumption DEF Init
<1>5. ShapeInv
  BY <1>2, <1>3, <1>4, DeployedAssumption DEF Init, ShapeInv
<1>6. FlightInv
  BY DEF Init, FlightInv
<1>7. WaitInv
  BY <1>2, <1>3 DEF WaitInv
<1>8. HeldInv
  BY <1>2, <1>3 DEF HeldInv, Satisfied, NoCommand
<1>9. DoneInv
  BY <1>2, <1>3 DEF DoneInv, Done, NoCommand
<1> QED
  BY <1>5, <1>6, <1>7, <1>8, <1>9 DEF AdminInv

LEMMA AdminStep == AdminInv /\ [Next]_vars => AdminInv'
<1> SUFFICES ASSUME AdminInv, [Next]_vars
             PROVE  AdminInv'
  OBVIOUS
<1>1. ASSUME NEW o \in Operators, Give(o) \/ Step(o)
      PROVE  AdminInv'
  BY <1>1, GiveInv, EstimateInv, ReadVaultInv, ReadAccountInv, SendInv, AnswerLostInv,
     RefusedInv, UnwrapInv, ConfirmInv DEF Step
<1>2. ASSUME NEW i \in Ids, Land(i)
      PROVE  AdminInv'
  <2>1. PICK t \in flight :
            /\ \/ /\ Executes(t)
                  /\ accounts' = [accounts EXCEPT ![t.version] = After(t)]
                  /\ held' = [o \in Operators |->
                        held[o] \cup {v \in Versions : Satisfied(run[o].cmd, accounts'[v])}]
                  /\ Learn(t, "landed")
               \/ ~Executes(t) /\ Learn(t, "failed") /\ UNCHANGED <<accounts, held>>
            /\ flight' = flight \ {t}
            /\ UNCHANGED <<clock, runs>>
    BY <1>2 DEF Land
  <2> QED
    BY <2>1, LandInv, ExpireInv
<1>3. ASSUME NEW i \in Ids, Expire(i)
      PROVE  AdminInv'
  BY <1>3, ExpireInv DEF Expire
<1>4. ASSUME UNCHANGED vars
      PROVE  AdminInv'
  BY <1>4 DEF vars, AdminInv, ShapeInv, FlightInv, WaitInv, HeldInv, DoneInv, File,
     Transaction
<1> QED
  BY <1>1, <1>2, <1>3, <1>4, TickInv DEF Next

\* The invariant of the administrator's commands: who waits has its transaction
\* in flight or has learnt its outcome, and what is as asked is on record.
THEOREM AdminInvariant == Spec => []AdminInv
BY AdminInit, AdminStep, PTL DEF Spec

\* A command that waits for its transactions, and verify, leave no file behind
\* that has not been as asked during the run: for every directory, number of
\* operators and order of landings, expiries and lost answers.
THEOREM NothingLeftUndone == Spec => []DoneMeansHeld
<1>1. AdminInv => DoneMeansHeld
  BY DEF AdminInv, DoneInv, Done, DoneMeansHeld
<1> QED
  BY <1>1, AdminInvariant, PTL

\* A run that waits for its slot is moved by its own steps only.
LEMMA EstimateMoves ==
    ASSUME AdminInv, [Next]_vars, NEW o \in Operators, run[o].at = "estimate",
           run'[o].at # "estimate"
    PROVE  Estimate(o) \/ Unwrap(o)
<1>1. ASSUME NEW p \in Operators, Give(p) \/ Step(p)
      PROVE  Estimate(o) \/ Unwrap(o)
  <2>1. CASE p = o
    BY <1>1, <2>1, Zenon DEF Give, Active, Step, ReadVault, ReadAccount, Send, AnswerLost,
       Taken, Refused, Confirm
  <2>2. CASE p # o
    <3>1. \E r : run' = [run EXCEPT ![p] = r]
      BY <1>1, Zenon DEF Give, Step, Estimate, ReadVault, ReadAccount, Send, AnswerLost,
         Refused, Unwrap, Confirm, Becomes
    <3>2. run'[o] = run[o]
      BY <2>2, <3>1 DEF AdminInv, ShapeInv
    <3> QED
      BY <3>2
  <2> QED
    BY <2>1, <2>2
<1>2. ASSUME NEW t \in flight, NEW outcome, Learn(t, outcome)
      PROVE  FALSE
  BY <1>2, LearnRun DEF AdminInv, FlightInv
<1>3. ASSUME NEW i \in Ids, Land(i) \/ Expire(i)
      PROVE  FALSE
  BY <1>2, <1>3 DEF Land, Expire
<1>4. Tick \/ UNCHANGED vars => FALSE
  BY DEF Tick, vars
<1> QED
  BY <1>1, <1>3, <1>4 DEF Next

LEMMA EstimateNear ==
    ASSUME AdminInv, NEW o \in Operators, Estimate(o), run'[o].at # "panicked"
    PROVE  Near(run[o].cmd.value, clock, run'[o].cmd.value)
<1> DEFINE slot(samples) ==
               SlotAt(run[o].cmd.value, clock, get_average_slot_time(samples))
<1>1. IsRun(run[o]) /\ run[o].at = "estimate"
  BY DEF AdminInv, ShapeInv, Estimate
<1>2. PICK samples \in Samples :
          \/ Usable(samples) /\ run' = [run EXCEPT ![o] = Enabling(run[o], slot(samples))]
          \/ run' = [run EXCEPT ![o] = Panicked(run[o])]
  BY DEF Estimate, Becomes
<1>3. run' # [run EXCEPT ![o] = Panicked(run[o])]
  <2> SUFFICES ASSUME run' = [run EXCEPT ![o] = Panicked(run[o])]
               PROVE  FALSE
    OBVIOUS
  <2>1. run'[o] = Panicked(run[o])
    BY OneRun, Zenon DEF AdminInv
  <2> QED
    BY <1>1, <2>1, PanickedRun
<1>4. Usable(samples) /\ run'[o] = Enabling(run[o], slot(samples))
  BY <1>2, <1>3 DEF AdminInv, ShapeInv
<1>5. run'[o].cmd.value = slot(samples)
  <2> HIDE DEF slot
  <2> QED
    BY <1>1, <1>4, EnablingRun
<1>6. run[o].cmd.value \in Nat
  BY <1>1 DEF IsRun, WellFormed
<1>7. clock.ts \in Nat /\ clock.slot \in Nat
  BY DEF AdminInv, ShapeInv
<1>8. PICK d \in Nat : d = get_average_slot_time(samples) /\ d >= 200 /\ d <= 800
  BY <1>4, AverageSane
<1>9. Near(run[o].cmd.value, clock, SlotAt(run[o].cmd.value, clock, d))
  BY <1>6, <1>7, <1>8, SlotNear
<1> QED
  BY <1>5, <1>8, <1>9

\* Whatever samples the node returns, by_time picks a slot that the default
\* rate, halved or doubled, does not rule out.
THEOREM SlotNearTime == Spec => SlotTimed
<1> DEFINE A == \A o \in Operators :
                   run[o].at = "estimate" /\ run[o].at' \notin {"estimate", "panicked"}
                       => Near(run[o].cmd.value, clock, run[o].cmd.value')
<1>1. ASSUME AdminInv, [Next]_vars, NEW o \in Operators, run[o].at = "estimate",
             run'[o].at \notin {"estimate", "panicked"}
      PROVE  Near(run[o].cmd.value, clock, run'[o].cmd.value)
  <2>1. ~Unwrap(o)
    <3> SUFFICES ASSUME Unwrap(o)
                 PROVE  FALSE
      OBVIOUS
    <3>1. run'[o] = Panicked(run[o]) /\ IsRun(run[o])
      BY <1>1, OneRun DEF AdminInv, ShapeInv, Unwrap, Becomes
    <3> QED
      BY <1>1, <3>1, PanickedRun
  <2> QED
    BY <1>1, <2>1, EstimateMoves, EstimateNear
<1>2. AdminInv /\ [Next]_vars => [A]_vars
  BY <1>1
<1> QED
  BY <1>2, AdminInvariant, PTL DEF Spec, SlotTimed
=============================================================================
