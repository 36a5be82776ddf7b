----------------------------- MODULE LifeProofs -----------------------------
(***************************************************************************)
(* Proofs of the process life, for any number of processes, migrators,     *)
(* cabinets, calls, migrations and crashes: the seed keeps what was sold,  *)
(* starts do not meet half a migration, and no accepted call is dropped.   *)
(***************************************************************************)
EXTENDS Life, TLAPS

Migrating == {"version", "migration", "clean"}
Writing   == {"images", "seedCommit"}

-----------------------------------------------------------------------------
(* The shapes of the steps, by what they leave alone.                      *)

\* A step of RunMigrations, or the start of main.
MigratorStep(m) == Start(m) \/ RunMigrations(m)

\* A step of main outside RunMigrations and the seed: the pool, the listener, Serve's
\* end, the signal and the stop.
ServerStep(p) ==
  \/ OpenPool(p) \/ OpenPoolFails(p) \/ Listen(p) \/ ListenFails(p) \/ ServeFails(p)
  \/ Signal(p) \/ Stop(p)

\* A step of a client or of a handler.
TrafficStep ==
  \/ \E p \in Processes : (\E k \in Calls : Accept(p, k)) \/ (\E w \in Watches : Watch(p, w))
  \/ \E k \in Calls : Sell(k) \/ Answer(k)
  \/ \E w \in Watches : Unwatch(w)

\* Every step is one of these.
LEMMA Shapes ==
  ASSUME [Next]_vars
  PROVE  \/ \E m \in Starters : MigratorStep(m) \/ Crash(m)
         \/ \E p \in Processes : Seed(p) \/ ServerStep(p)
         \/ TrafficStep
         \/ UNCHANGED vars
BY DEF Next, Serve, MigratorStep, ServerStep, TrafficStep

\* A migrator moves among the labels of RunMigrations; it touches no row.
LEMMA MigratorFrame ==
  ASSUME TypeOK, NEW m \in Starters, MigratorStep(m)
  PROVE  /\ pc[m] \in {"down"} \cup Starting
         /\ \E to \in {"down", "pool"} \cup Starting : pc' = [pc EXCEPT ![m] = to]
         /\ UNCHANGED <<shop, seeding, process, traffic, faults>>
BY DEF MigratorStep, Start, RunMigrations, TakeLock, LockTimeout, FoundDirty, Announce,
       Migrate, MigrateFails, Clean, Migrated, Exit, Goto, Starting

\* The seed moves the process that runs it.
LEMMA SeedFrame ==
  ASSUME TypeOK, NEW p \in Processes, Seed(p)
  PROVE  /\ pc[p] \in {"seed", "images", "seedCommit"}
         /\ \E to \in Launching : pc' = [pc EXCEPT ![p] = to]
         /\ UNCHANGED <<refused, migrator, sold, process, traffic, faults>>
BY DEF Seed, SeedCabinets, SeedImages, SeedImagesFails, SeedCommit, SeedFails, Goto,
       Launching, shop

\* The server moves its own process, and disturbs calls when main returns only.
LEMMA ServerFrame ==
  ASSUME TypeOK, NEW p \in Processes, ServerStep(p)
  PROVE  /\ pc[p] \in {"pool", "listen"} \cup Serving
         /\ \E to \in {"down", "seed"} \cup Serving : pc' = [pc EXCEPT ![p] = to]
         /\ UNCHANGED <<refused, migrator, shop, seeding, at, faults>>
         /\ Return(p) \/ UNCHANGED traffic
<1>1. ASSUME NEW from, NEW to, Goto(p, from, to)
      PROVE  pc[p] = from /\ pc' = [pc EXCEPT ![p] = to]
  BY <1>1 DEF Goto
<1>2. CASE Signal(p)
  <2>1. pc' = [pc EXCEPT ![p] = pc[p]]
    BY <1>2 DEF Signal, TypeOK
  <2> QED
    BY <1>2, <2>1 DEF Signal, Serving, traffic
<1>3. CASE Drain(p)
  BY <1>3 DEF Drain, Serving, traffic
<1>4. CASE OpenPool(p) \/ OpenPoolFails(p) \/ Listen(p) \/ ListenFails(p) \/ ServeFails(p)
  BY <1>1, <1>4 DEF OpenPool, OpenPoolFails, Listen, ListenFails, ServeFails, Quit, Serving, traffic
<1>5. CASE Drained(p) \/ ClosePool(p) \/ Return(p)
  BY <1>1, <1>5 DEF Drained, ClosePool, Return, Serving, traffic
<1> QED
  BY <1>2, <1>3, <1>4, <1>5 DEF ServerStep, Stop

\* A crash stops a process where it is.
LEMMA CrashFrame ==
  ASSUME TypeOK, NEW m \in Starters, Crash(m)
  PROVE  /\ pc' = [pc EXCEPT ![m] = "down"] /\ pc[m] # "down"
         /\ faults' > 0
         /\ UNCHANGED <<refused, version, dirty, tables, shop, at>>
BY DEF Crash, TypeOK

\* Clients and handlers move nobody.
LEMMA TrafficFrame ==
  ASSUME TrafficStep
  PROVE  UNCHANGED <<pc, refused, migrator, seeding, present, pictured, process, faults>>
BY DEF TrafficStep, Accept, Watch, Sell, Answer, Unwatch, shop

-----------------------------------------------------------------------------
(* Types.                                                                  *)

\* The process life starts with the types it keeps.
LEMMA TypesInit == Init => TypeOK
BY LifeAssumption DEF Init, TypeOK, Starters, Paths, NoSeed

\* RunMigrations keeps them: versions stay within the migrations there are.
LEMMA MigratorTypes ==
  ASSUME TypeOK, NEW m \in Starters, MigratorStep(m)
  PROVE  TypeOK'
<1>1. SearchPath(m) \in Paths
  BY DEF SearchPath, Paths
<1>2. pc' \in [Starters -> {"down"} \cup Starting \cup Launching \cup Serving]
  BY MigratorFrame DEF TypeOK, Launching
<1>3. refused' \in [Starters -> {"no", "timeout", "dirty", "exists"}]
  BY DEF TypeOK, MigratorStep, Start, RunMigrations, TakeLock, LockTimeout, FoundDirty, Announce,
         Migrate, MigrateFails, Clean, Migrated, Exit
<1>4. version' \in [Paths -> 0..Latest] /\ dirty' \in [Paths -> BOOLEAN] /\ tables' \in 0..Latest
  <2>1. CASE Announce(m)
    <3>1. version[SearchPath(m)] + 1 \in 0..Latest
      BY <1>1, <2>1, LifeAssumption DEF TypeOK, Announce
    <3> QED
      BY <2>1, <3>1 DEF TypeOK, Announce
  <2>2. CASE Migrate(m)
    <3>1. tables' \in 0..Latest
      BY <1>1, <2>2 DEF TypeOK, Migrate
    <3> QED
      BY <2>2, <3>1 DEF TypeOK, Migrate
  <2>4. CASE Clean(m)
    <3>1. dirty' \in [Paths -> BOOLEAN]
      BY <1>1, <2>4 DEF TypeOK, Clean
    <3> QED
      BY <2>4, <3>1 DEF TypeOK, Clean
  <2>3. CASE ~(Announce(m) \/ Migrate(m) \/ Clean(m))
    <3>1. UNCHANGED <<version, dirty, tables>>
      BY <2>3 DEF MigratorStep, Start, RunMigrations, TakeLock, LockTimeout, FoundDirty,
             MigrateFails, Migrated, Exit, migrator
    <3> QED
      BY <3>1 DEF TypeOK
  <2> QED
    BY <2>1, <2>2, <2>3, <2>4
<1>5. lock' \in [Paths -> Starters \cup {Nobody}]
  BY <1>1 DEF TypeOK, MigratorStep, Start, RunMigrations, TakeLock, LockTimeout,
         FoundDirty, Announce, Migrate, MigrateFails, Clean, Migrated, Exit, migrator
<1> QED
  BY <1>2, <1>3, <1>4, <1>5, MigratorFrame DEF TypeOK, shop, process, traffic

\* The seed keeps them.
LEMMA SeedTypes ==
  ASSUME TypeOK, NEW p \in Processes, Seed(p)
  PROVE  TypeOK'
<1>1. pc' \in [Starters -> {"down"} \cup Starting \cup Launching \cup Serving]
  BY SeedFrame DEF TypeOK, Starters
<1>2. seeding' \in [Processes -> [rows : SUBSET Cabinets, images : SUBSET Cabinets,
                                  aborted : BOOLEAN]]
  <2> DEFINE Writes == [rows : SUBSET Cabinets, images : SUBSET Cabinets, aborted : BOOLEAN]
  <2>1. NoSeed \in Writes
    BY DEF NoSeed
  <2>2. PICK w \in Writes : seeding' = [seeding EXCEPT ![p] = w]
    <3>1. CASE SeedCabinets(p)
      <4>1. [seeding[p] EXCEPT !.rows = Inserted(p)] \in Writes
        BY DEF TypeOK, Inserted
      <4> QED
        BY <3>1, <4>1 DEF SeedCabinets
    <3>2. CASE SeedImages(p)
      <4>1. [seeding[p] EXCEPT !.images = Cabinets \ pictured] \in Writes
        BY DEF TypeOK
      <4> QED
        BY <3>2, <4>1 DEF SeedImages
    <3>3. CASE SeedImagesFails(p)
      <4>1. [seeding[p] EXCEPT !.aborted = TRUE] \in Writes
        BY DEF TypeOK
      <4> QED
        BY <3>3, <4>1 DEF SeedImagesFails
    <3>4. CASE SeedCommit(p) \/ SeedFails(p)
      BY <2>1, <3>4 DEF SeedCommit, SeedFails
    <3> QED
      BY <3>1, <3>2, <3>3, <3>4 DEF Seed
  <2> HIDE DEF Writes
  <2> QED
    BY <2>2 DEF TypeOK, Writes
<1>3. left' \in [Cabinets -> Nat] /\ present' \subseteq Cabinets /\ pictured' \subseteq Cabinets
  <2>1. CASE SeedCommit(p) /\ ~seeding[p].aborted
    BY <2>1, LifeAssumption DEF TypeOK, SeedCommit
  <2>2. CASE ~(SeedCommit(p) /\ ~seeding[p].aborted)
    BY <2>2 DEF TypeOK, Seed, SeedCabinets, SeedImages, SeedImagesFails, SeedCommit, SeedFails, shop
  <2> QED
    BY <2>1, <2>2
<1> QED
  BY <1>1, <1>2, <1>3, SeedFrame DEF TypeOK, migrator, process, traffic

\* Clients and handlers keep them: a sale needs a unit.
LEMMA TrafficTypes ==
  ASSUME TypeOK, TrafficStep
  PROVE  TypeOK'
<1>1. left' \in [Cabinets -> Nat] /\ sold' \in [Cabinets -> Nat]
  <2>1. ASSUME NEW k \in Calls, Sell(k) PROVE left' \in [Cabinets -> Nat] /\ sold' \in [Cabinets -> Nat]
    <3>1. PICK c \in present : /\ left[c] > 0
                               /\ left' = [left EXCEPT ![c] = @ - 1]
                               /\ sold' = [sold EXCEPT ![c] = @ + 1]
      BY <2>1 DEF Sell
    <3> QED
      BY <3>1 DEF TypeOK
  <2>2. CASE ~ \E k \in Calls : Sell(k)
    BY <2>2 DEF TypeOK, TrafficStep, Accept, Watch, Answer, Unwatch, shop
  <2> QED
    BY <2>1, <2>2
<1>2. /\ call' \in [Calls -> {"none", "running", "sold", "answered", "denied", "lost", "cut"}]
      /\ at' \in [Calls -> Processes \cup {Nobody}]
      /\ watch' \in [Watches -> Processes \cup {Nobody}]
  BY DEF TypeOK, TrafficStep, Accept, Watch, Sell, Answer, Outcome, Unwatch
<1> QED
  BY <1>1, <1>2, TrafficFrame DEF TypeOK, migrator, process

\* A crash keeps them.
LEMMA CrashTypes ==
  ASSUME TypeOK, NEW m \in Starters, Crash(m)
  PROVE  TypeOK'
BY DEF Crash, TypeOK, NoSeed, shop

\* The server keeps them.
LEMMA ServerTypes ==
  ASSUME TypeOK, NEW p \in Processes, ServerStep(p)
  PROVE  TypeOK'
<1>1. pc' \in [Starters -> {"down"} \cup Starting \cup Launching \cup Serving]
  BY ServerFrame DEF TypeOK, Starters, Launching
<1>2. pools' \subseteq Processes /\ signalled' \subseteq Processes
  BY DEF TypeOK, ServerStep, OpenPool, OpenPoolFails, Listen, ListenFails, Quit, ServeFails, Signal,
         Stop, Drain, Drained, ClosePool, Return, process
<1>3. /\ call' \in [Calls -> {"none", "running", "sold", "answered", "denied", "lost", "cut"}]
      /\ watch' \in [Watches -> Processes \cup {Nobody}]
  BY ServerFrame DEF TypeOK, Return, traffic
<1> QED
  BY <1>1, <1>2, <1>3, ServerFrame DEF TypeOK, migrator, shop

\* Every step keeps the types.
LEMMA TypesStep == TypeOK /\ [Next]_vars => TypeOK'
<1> SUFFICES ASSUME TypeOK, [Next]_vars PROVE TypeOK'
  OBVIOUS
<1>1. CASE UNCHANGED vars
  BY <1>1 DEF TypeOK, vars, migrator, shop, process, traffic
<1> QED
  BY <1>1, Shapes, MigratorTypes, SeedTypes, ServerTypes, TrafficTypes, CrashTypes

\* The types of the process life, in every reachable state.
THEOREM LifeTyped == Spec => []TypeOK
BY TypesInit, TypesStep, PTL DEF Spec

-----------------------------------------------------------------------------
(* The seed.                                                               *)

\* What a seed transaction has written, by where it is: exactly the rows that are
\* missing, and their images unless it is aborted.
SeedWrites(p) ==
  /\ pc[p] \notin Writing => seeding[p] = NoSeed
  /\ pc[p] \in Writing => seeding[p].rows = Cabinets \ present
  /\ pc[p] = "images" => ~seeding[p].aborted
  /\ pc[p] = "seedCommit" /\ ~seeding[p].aborted => seeding[p].images = seeding[p].rows

\* Two seeds never hold rows at once: the second waits for the first one's keys.
SeedsApart ==
  \A p, q \in Processes : p # q => seeding[p].rows = {} \/ seeding[q].rows = {}

SeedInv == (\A p \in Processes : SeedWrites(p)) /\ SeedsApart /\ SeedIsWhole

\* The seed's invariant holds before any process starts.
LEMMA SeedInit == Init => SeedInv /\ SeedKeepsSales
BY LifeAssumption DEF Init, SeedInv, SeedWrites, SeedsApart, SeedIsWhole, SeedKeepsSales,
   Starters, Writing, NoSeed

\* A step that leaves the rows and the seeds alone, and moves one process between
\* labels that are not the seed's, keeps the seed's invariant.
LEMMA SeedAside ==
  ASSUME TypeOK, SeedInv, UNCHANGED <<present, pictured, seeding>>,
         \A p \in Processes : pc'[p] = pc[p] \/ (pc[p] \notin Writing /\ pc'[p] \notin Writing)
  PROVE  SeedInv'
BY DEF SeedInv, SeedWrites, SeedsApart, SeedIsWhole, Writing

\* Every step of a seed keeps it.
LEMMA SeedKeepsSeedInv ==
  ASSUME TypeOK, SeedInv, NEW p \in Processes, Seed(p)
  PROVE  SeedInv'
<1>1. CASE SeedCabinets(p)
  <2>1. /\ pc[p] = "seed" /\ pc' = [pc EXCEPT ![p] = "images"]
        /\ seeding[p] = NoSeed
        /\ seeding' = [seeding EXCEPT ![p].rows = Cabinets \ present]
        /\ \A q \in Processes \ {p} : seeding[q].rows = {}
        /\ UNCHANGED <<present, pictured>>
    BY <1>1 DEF SeedCabinets, Goto, Inserted, shop, SeedInv, SeedWrites, Writing
  <2>2. pc'[p] = "images" /\ seeding'[p].rows = Cabinets \ present /\ ~seeding'[p].aborted
    BY <2>1 DEF TypeOK, Starters, NoSeed
  <2>3. \A q \in Processes \ {p} : pc'[q] = pc[q] /\ seeding'[q] = seeding[q]
    BY <2>1 DEF TypeOK, Starters
  <2> QED
    BY <2>1, <2>2, <2>3 DEF SeedInv, SeedWrites, SeedsApart, SeedIsWhole, Writing
<1>2. CASE SeedImages(p)
  <2>1. /\ pc[p] = "images" /\ pc' = [pc EXCEPT ![p] = "seedCommit"]
        /\ seeding[p].rows = Cabinets \ present
        /\ seeding' = [seeding EXCEPT ![p].images = Cabinets \ present]
        /\ UNCHANGED <<present, pictured>>
    BY <1>2 DEF SeedImages, Goto, shop, SeedInv, SeedWrites, SeedIsWhole, Writing
  <2>2. /\ pc'[p] = "seedCommit" /\ seeding'[p].rows = Cabinets \ present
        /\ seeding'[p].images = Cabinets \ present
    BY <2>1 DEF TypeOK, Starters
  <2>3. \A q \in Processes \ {p} : pc'[q] = pc[q] /\ seeding'[q] = seeding[q]
    BY <2>1 DEF TypeOK, Starters
  <2> QED
    <3>1. \A q \in Processes : SeedWrites(q)'
      BY <2>1, <2>2, <2>3 DEF SeedInv, SeedWrites, Writing
    <3>2. \A q \in Processes : seeding'[q].rows = seeding[q].rows
      BY <2>1, <2>2, <2>3
    <3>3. SeedsApart' /\ SeedIsWhole'
      BY <2>1, <3>2 DEF SeedInv, SeedsApart, SeedIsWhole
    <3> QED
      BY <3>1, <3>3 DEF SeedInv
<1>3. CASE SeedImagesFails(p)
  <2>1. /\ pc[p] = "images" /\ pc' = [pc EXCEPT ![p] = "seedCommit"]
        /\ seeding[p].rows = Cabinets \ present
        /\ seeding' = [seeding EXCEPT ![p].aborted = TRUE]
        /\ UNCHANGED <<present, pictured>>
    BY <1>3 DEF SeedImagesFails, Goto, shop, SeedInv, SeedWrites, Writing
  <2>2. /\ pc'[p] = "seedCommit" /\ seeding'[p].rows = Cabinets \ present
        /\ seeding'[p].aborted
    BY <2>1 DEF TypeOK, Starters
  <2>3. \A q \in Processes \ {p} : pc'[q] = pc[q] /\ seeding'[q] = seeding[q]
    BY <2>1 DEF TypeOK, Starters
  <2> QED
    BY <2>1, <2>2, <2>3 DEF SeedInv, SeedWrites, SeedsApart, SeedIsWhole, Writing
<1>4. CASE SeedCommit(p) \/ SeedFails(p)
  <2>1. pc' = [pc EXCEPT ![p] = "listen"] /\ seeding' = [seeding EXCEPT ![p] = NoSeed]
    BY <1>4 DEF SeedCommit, SeedFails, Goto
  <2>2. pc'[p] = "listen" /\ seeding'[p] = NoSeed
    BY <2>1 DEF TypeOK, Starters
  <2>3. \A q \in Processes \ {p} : pc'[q] = pc[q] /\ seeding'[q] = seeding[q]
    BY <2>1 DEF TypeOK, Starters
  <2>4. SeedIsWhole' /\ \A q \in Processes \ {p} : pc[q] \in Writing =>
                          seeding[q].rows = Cabinets \ present'
    <3>1. CASE SeedCommit(p) /\ ~seeding[p].aborted
      <4>1. /\ pc[p] = "seedCommit"
            /\ present' = present \cup seeding[p].rows
            /\ pictured' = pictured \cup seeding[p].images
        BY <3>1 DEF SeedCommit, Goto
      <4>2. seeding[p].rows = Cabinets \ present /\ seeding[p].images = seeding[p].rows
        BY <3>1, <4>1 DEF SeedInv, SeedWrites, Writing
      <4> QED
        BY <4>1, <4>2 DEF SeedInv, SeedWrites, SeedsApart, SeedIsWhole
    <3>2. CASE ~(SeedCommit(p) /\ ~seeding[p].aborted)
      BY <1>4, <3>2 DEF SeedCommit, SeedFails, shop, SeedInv, SeedWrites, SeedIsWhole
    <3> QED
      BY <3>1, <3>2
  <2> QED
    BY <2>2, <2>3, <2>4 DEF SeedInv, SeedWrites, SeedsApart, Writing, NoSeed
<1> QED
  BY <1>1, <1>2, <1>3, <1>4 DEF Seed

\* Every step keeps it.
LEMMA SeedStep == TypeOK /\ SeedInv /\ [Next]_vars => SeedInv'
<1> SUFFICES ASSUME TypeOK, SeedInv, [Next]_vars PROVE SeedInv'
  OBVIOUS
<1>1. ASSUME NEW m \in Starters, MigratorStep(m) PROVE SeedInv'
  <2>1. \A p \in Processes : pc'[p] = pc[p] \/ (pc[p] \notin Writing /\ pc'[p] \notin Writing)
    BY <1>1, MigratorFrame DEF TypeOK, Starters, Starting, Writing
  <2> QED
    BY <1>1, <2>1, MigratorFrame, SeedAside DEF shop
<1>2. ASSUME NEW m \in Starters, Crash(m) PROVE SeedInv'
  <2>1. pc' = [pc EXCEPT ![m] = "down"] /\ UNCHANGED <<present, pictured>>
    BY <1>2, CrashFrame DEF shop
  <2>2. \A p \in Processes : /\ p = m => pc'[p] = "down" /\ seeding'[p] = NoSeed
                             /\ p # m => pc'[p] = pc[p] /\ seeding'[p] = seeding[p]
    BY <1>2, <2>1 DEF TypeOK, Starters, Crash
  <2> QED
    BY <2>1, <2>2 DEF SeedInv, SeedWrites, SeedsApart, SeedIsWhole, Writing, NoSeed
<1>3. ASSUME NEW p \in Processes, ServerStep(p) PROVE SeedInv'
  <2>1. \A q \in Processes : pc'[q] = pc[q] \/ (pc[q] \notin Writing /\ pc'[q] \notin Writing)
    BY <1>3, ServerFrame DEF TypeOK, Starters, Serving, Writing
  <2> QED
    BY <1>3, <2>1, ServerFrame, SeedAside DEF shop
<1>4. CASE TrafficStep \/ UNCHANGED vars
  <2>1. UNCHANGED <<pc, present, pictured, seeding>>
    BY <1>4, TrafficFrame DEF vars, shop
  <2> QED
    BY <2>1, SeedAside
<1> QED
  BY <1>1, <1>2, <1>3, <1>4, Shapes, SeedKeepsSeedInv

\* The units of every cabinet add up after every step.
LEMMA SalesStep == TypeOK /\ SeedInv /\ SeedKeepsSales /\ [Next]_vars => SeedKeepsSales'
<1> SUFFICES ASSUME TypeOK, SeedInv, SeedKeepsSales, [Next]_vars PROVE SeedKeepsSales'
  OBVIOUS
<1>1. ASSUME NEW p \in Processes, SeedCommit(p), ~seeding[p].aborted PROVE SeedKeepsSales'
  <2>1. /\ left' = [c \in Cabinets |-> IF c \in seeding[p].rows THEN Seeded[c] ELSE left[c]]
        /\ present' = present \cup seeding[p].rows
        /\ sold' = sold
    BY <1>1 DEF SeedCommit
  <2>2. seeding[p].rows = Cabinets \ present
    BY <1>1 DEF SeedCommit, Goto, SeedInv, SeedWrites, Writing
  <2>3. ASSUME NEW c \in Cabinets PROVE c \in present' /\ left'[c] + sold'[c] = Seeded[c]
    <3>1. CASE c \in present
      BY <2>1, <2>2, <3>1 DEF SeedKeepsSales
    <3>2. CASE c \notin present
      <4>1. left[c] + sold[c] = 0 /\ left[c] \in Nat /\ sold[c] \in Nat
        BY <3>2 DEF SeedKeepsSales, TypeOK
      <4>2. left'[c] = Seeded[c] /\ sold'[c] = 0 /\ Seeded[c] \in Nat
        BY <2>1, <2>2, <3>2, <4>1, LifeAssumption
      <4> QED
        BY <2>1, <2>2, <3>2, <4>2
    <3> QED
      BY <3>1, <3>2
  <2> QED
    BY <2>3 DEF SeedKeepsSales
<1>2. ASSUME NEW k \in Calls, Sell(k) PROVE SeedKeepsSales'
  <2>1. PICK d \in present : /\ left' = [left EXCEPT ![d] = @ - 1]
                             /\ sold' = [sold EXCEPT ![d] = @ + 1]
    BY <1>2 DEF Sell
  <2>2. present' = present
    BY <1>2 DEF Sell
  <2>3. \A c \in Cabinets : left'[c] + sold'[c] = left[c] + sold[c]
    BY <2>1 DEF TypeOK
  <2> QED
    BY <2>2, <2>3 DEF SeedKeepsSales
<1>3. CASE UNCHANGED <<left, present, sold>>
  BY <1>3 DEF SeedKeepsSales
<1>4. ASSUME NEW p \in Processes, Seed(p) PROVE SeedKeepsSales'
  <2>1. CASE SeedCommit(p) /\ ~seeding[p].aborted
    BY <1>1, <2>1
  <2>2. CASE ~(SeedCommit(p) /\ ~seeding[p].aborted)
    <3>1. UNCHANGED <<left, present, sold>>
      BY <1>4, <2>2 DEF Seed, SeedCabinets, SeedImages, SeedImagesFails, SeedCommit, SeedFails, shop
    <3> QED
      BY <1>3, <3>1
  <2> QED
    BY <2>1, <2>2
<1>5. CASE TrafficStep
  <2>1. CASE ~ \E k \in Calls : Sell(k)
    <3>1. UNCHANGED <<left, present, sold>>
      BY <1>5, <2>1 DEF TrafficStep, Accept, Watch, Answer, Unwatch, shop
    <3> QED
      BY <1>3, <3>1
  <2> QED
    BY <1>2, <2>1
<1>6. ASSUME NEW m \in Starters, MigratorStep(m) \/ Crash(m) PROVE SeedKeepsSales'
  BY <1>3, <1>6, MigratorFrame, CrashFrame DEF shop
<1>7. ASSUME NEW p \in Processes, ServerStep(p) PROVE SeedKeepsSales'
  BY <1>3, <1>7, ServerFrame DEF shop
<1>8. CASE UNCHANGED vars
  BY <1>3, <1>8 DEF vars, shop
<1> QED
  BY <1>4, <1>5, <1>6, <1>7, <1>8, Shapes

\* No cabinet of the seed is on sale without its images, though the error of the
\* images' INSERT is dropped (main.go:182-184).
THEOREM SeedIsWholeAlways == Spec => []SeedIsWhole
<1>1. SeedInv => SeedIsWhole
  BY DEF SeedInv
<1> QED
  BY <1>1, SeedInit, SeedStep, LifeTyped, PTL DEF Spec

\* The seed, run at every start beside processes that sell, never puts a sold unit
\* back (main.go:153-166).
THEOREM SeedKeepsSalesAlways == Spec => []SeedKeepsSales
BY SeedInit, SeedStep, SalesStep, LifeTyped, PTL DEF Spec

-----------------------------------------------------------------------------
(* The calls.                                                              *)

Open(k) == call[k] \in {"running", "sold"}

\* A call under way is at a process that main has not drained yet.
CallsUp ==
  \A k \in Calls : Open(k) => at[k] \in Processes /\ pc[at[k]] \in {"serving", "deaf", "draining"}

\* From pgxpool.New to the deferred Close a process has its pool.
Pooled == {"seed", "images", "seedCommit", "listen", "serving", "deaf", "draining", "drained"}
PoolOpen == \A p \in Processes : pc[p] \in Pooled => p \in pools

CallsInv == CallsUp /\ PoolOpen /\ NoCallIsDropped

\* There is no call at first, and no pool.
LEMMA CallsInit == Init => CallsInv
BY DEF Init, CallsInv, CallsUp, PoolOpen, NoCallIsDropped, Open, Pooled, Starters

\* A step that leaves calls and pools alone keeps the invariant if it moves no process
\* with calls under way, and none into the labels that have a pool.
LEMMA CallsAside ==
  ASSUME CallsInv, UNCHANGED <<call, at, pools>>,
         \A p \in Processes : \/ pc'[p] = pc[p]
                              \/ /\ pc[p] \notin {"serving", "deaf", "draining"}
                                 /\ pc'[p] \in Pooled => pc[p] \in Pooled
  PROVE  CallsInv'
BY DEF CallsInv, CallsUp, PoolOpen, NoCallIsDropped, Open

\* main keeps it: it opens the pool before it serves, and closes it when
\* GracefulStop has seen the last call off.
LEMMA ServerKeepsCalls ==
  ASSUME TypeOK, CallsInv, NEW p \in Processes, ServerStep(p)
  PROVE  CallsInv'
<1>1. ASSUME NEW from, NEW to, Goto(p, from, to)
      PROVE  /\ pc[p] = from /\ pc'[p] = to
             /\ \A q \in Processes \ {p} : pc'[q] = pc[q]
  BY <1>1 DEF Goto, TypeOK, Starters
<1>2. ASSUME UNCHANGED <<call, at>>,
             \A q \in Processes \ {p} : pc'[q] = pc[q] /\ (q \in pools => q \in pools'),
             pc'[p] \in Pooled => p \in pools',
             OpenCalls(p) # {} => pc'[p] \in {"serving", "deaf", "draining"}
      PROVE  CallsInv'
  BY <1>2 DEF CallsInv, CallsUp, PoolOpen, NoCallIsDropped, Open, OpenCalls
<1>3. p \in Processes /\ (OpenCalls(p) # {} => pc[p] \in {"serving", "deaf", "draining"})
  BY DEF CallsInv, CallsUp, Open, OpenCalls
<1>4. pc[p] \in Pooled => p \in pools
  BY DEF CallsInv, PoolOpen
<1>5. CASE OpenPool(p)
  BY <1>1, <1>2, <1>3, <1>5 DEF OpenPool, traffic
<1>6. CASE OpenPoolFails(p) \/ ListenFails(p)
  <2>1. (Goto(p, "pool", "down") \/ Goto(p, "listen", "down")) /\ pools' = pools \ {p} /\ UNCHANGED traffic
    BY <1>6 DEF OpenPoolFails, ListenFails, Quit
  <2> QED
    BY <1>1, <1>2, <1>3, <2>1 DEF traffic, Pooled
<1>7. CASE Listen(p) \/ ServeFails(p)
  <2>1. pc[p] \in Pooled /\ pc'[p] \in {"serving", "deaf"} /\ UNCHANGED <<pools, call, at>>
    BY <1>1, <1>7 DEF Listen, ServeFails, process, traffic, Pooled
  <2>2. \A q \in Processes \ {p} : pc'[q] = pc[q]
    BY <1>1, <1>7 DEF Listen, ServeFails
  <2> QED
    BY <1>2, <1>4, <2>1, <2>2
<1>8. CASE Signal(p)
  BY <1>8, CallsAside DEF Signal, traffic
<1>9. CASE Drain(p)
  <2>1. pc'[p] = "draining" /\ pc[p] \in Pooled /\ \A q \in Processes \ {p} : pc'[q] = pc[q]
    BY <1>9 DEF Drain, TypeOK, Starters, Pooled
  <2> QED
    BY <1>2, <1>4, <1>9, <2>1 DEF Drain, traffic
<1>10. CASE Drained(p)
  <2>1. pc[p] \in Pooled /\ OpenCalls(p) = {} /\ UNCHANGED <<pools, call, at>>
    BY <1>1, <1>10 DEF Drained, process, traffic, Pooled
  <2>2. \A q \in Processes \ {p} : pc'[q] = pc[q]
    BY <1>1, <1>10 DEF Drained
  <2> QED
    BY <1>2, <1>4, <2>1, <2>2
<1>11. CASE ClosePool(p)
  <2>1. pc[p] = "drained" /\ pc'[p] = "returning" /\ \A q \in Processes \ {p} : pc'[q] = pc[q]
    BY <1>1, <1>11 DEF ClosePool
  <2> QED
    BY <1>2, <1>3, <1>11, <2>1 DEF ClosePool, traffic, Pooled
<1>12. CASE Return(p)
  <2>1. pc[p] = "returning" /\ pc'[p] = "down" /\ \A q \in Processes \ {p} : pc'[q] = pc[q]
    BY <1>1, <1>12 DEF Return
  <2>2. OpenCalls(p) = {}
    BY <1>3, <2>1
  <2>3. call' = call
    BY <1>12, <2>2 DEF Return, TypeOK
  <2> QED
    BY <1>2, <1>12, <2>1, <2>2, <2>3 DEF Return, process, Pooled
<1> QED
  BY <1>5, <1>6, <1>7, <1>8, <1>9, <1>10, <1>11, <1>12 DEF ServerStep, Stop

\* Clients and handlers keep it: a handler finds the pool open.
LEMMA TrafficKeepsCalls ==
  ASSUME TypeOK, CallsInv, TrafficStep
  PROVE  CallsInv'
<1>1. UNCHANGED <<pc, pools>>
  BY TrafficFrame DEF process
<1>2. PoolOpen'
  BY <1>1 DEF CallsInv, PoolOpen
<1>3. ASSUME NEW k \in Calls, Open(k) PROVE at[k] \in pools
  BY <1>3 DEF CallsInv, CallsUp, PoolOpen, Pooled
<1>4. CallsUp'
  <2> SUFFICES ASSUME NEW k \in Calls, Open(k)'
               PROVE  (at[k] \in Processes /\ pc[at[k]] \in {"serving", "deaf", "draining"})'
    BY DEF CallsUp
  <2>1. CASE \E p \in Processes : Accept(p, k)
    BY <1>1, <2>1 DEF Accept, TypeOK
  <2>2. CASE ~ \E p \in Processes : Accept(p, k)
    <3>1. Open(k) /\ at'[k] = at[k]
      BY <2>2 DEF TrafficStep, Accept, Watch, Sell, Answer, Outcome, Unwatch, Open, TypeOK
    <3> QED
      BY <1>1, <3>1 DEF CallsInv, CallsUp
  <2> QED
    BY <2>1, <2>2
<1>5. NoCallIsDropped'
  <2>1. ASSUME NEW k \in Calls, Answer(k) PROVE Outcome(k) = "answered"
    BY <1>3, <2>1 DEF Answer, Outcome, Open
  <2>2. \A k \in Calls : call'[k] \in {call[k], "running", "sold", "answered"}
    BY <2>1 DEF TrafficStep, Accept, Watch, Sell, Answer, Unwatch, TypeOK
  <2> QED
    BY <2>2 DEF CallsInv, NoCallIsDropped
<1> QED
  BY <1>2, <1>4, <1>5 DEF CallsInv

\* Every step keeps it.
LEMMA CallsStep == TypeOK /\ CallsInv /\ [Next]_vars => CallsInv'
<1> SUFFICES ASSUME TypeOK, CallsInv, [Next]_vars PROVE CallsInv'
  OBVIOUS
<1>1. ASSUME NEW m \in Starters, MigratorStep(m) PROVE CallsInv'
  <2>1. UNCHANGED <<call, at, pools>>
    BY <1>1, MigratorFrame DEF process, traffic
  <2>2. \A p \in Processes : pc'[p] = pc[p] \/ (pc[p] \in {"down"} \cup Starting /\ pc'[p] \notin Pooled)
    BY <1>1, MigratorFrame DEF TypeOK, Starters, Starting, Pooled
  <2> QED
    BY <2>1, <2>2, CallsAside DEF Starting
<1>2. ASSUME NEW p \in Processes, Seed(p) PROVE CallsInv'
  <2>1. UNCHANGED <<call, at, pools>>
    BY <1>2, SeedFrame DEF process, traffic
  <2>2. \A q \in Processes : pc'[q] = pc[q] \/ pc[q] \in {"seed", "images", "seedCommit"}
    BY <1>2, SeedFrame DEF TypeOK, Starters
  <2> QED
    BY <2>1, <2>2, CallsAside DEF Pooled
<1>3. ASSUME NEW m \in Starters, Crash(m) PROVE CallsInv'
  <2>1. /\ pc' = [pc EXCEPT ![m] = "down"] /\ at' = at /\ pools' = pools \ {m}
        /\ call' = [k \in Calls |-> IF k \in OpenCalls(m) THEN "cut" ELSE call[k]]
    BY <1>3 DEF Crash
  <2>2. CallsUp'
    <3> SUFFICES ASSUME NEW k \in Calls, Open(k)'
                 PROVE  (at[k] \in Processes /\ pc[at[k]] \in {"serving", "deaf", "draining"})'
      BY DEF CallsUp
    <3>1. k \notin OpenCalls(m) /\ Open(k)
      BY <2>1 DEF Open
    <3>2. at[k] \in Processes /\ pc[at[k]] \in {"serving", "deaf", "draining"} /\ at[k] # m
      BY <3>1 DEF CallsInv, CallsUp, OpenCalls, Open
    <3> QED
      BY <2>1, <3>2 DEF TypeOK, Starters
  <2>3. PoolOpen'
    BY <2>1 DEF CallsInv, PoolOpen, Pooled, TypeOK, Starters
  <2>4. NoCallIsDropped'
    BY <2>1 DEF CallsInv, NoCallIsDropped
  <2> QED
    BY <2>2, <2>3, <2>4 DEF CallsInv
<1>4. CASE UNCHANGED vars
  BY <1>4, CallsAside DEF vars, process, traffic
<1> QED
  BY <1>1, <1>2, <1>3, <1>4, ServerKeepsCalls, TrafficKeepsCalls, Shapes

\* The stop closes nothing under a call: one that was accepted, by a server that serves
\* or one whose Serve has failed, has its pool until it is answered, and is answered
\* unless its process crashes (main.go:80,140).
THEOREM NoCallIsDroppedAlways == Spec => []NoCallIsDropped
<1>1. CallsInv => NoCallIsDropped
  BY DEF CallsInv
<1> QED
  BY <1>1, CallsInit, CallsStep, LifeTyped, PTL DEF Spec

-----------------------------------------------------------------------------
(* The migrations.                                                         *)

\* The advisory lock is held by whoever reads or writes the version table.
LockInv ==
  /\ \A m \in Starters : pc[m] \in Migrating <=> lock[SearchPath(m)] = m
  /\ \A m \in Starters, s \in Paths : lock[s] = m => s = SearchPath(m)

\* What a version table says of the tables.
RecordInv ==
  /\ \A s \in Paths : ~dirty[s] => version[s] <= tables
  /\ \A m \in Starters : pc[m] = "clean" => version[SearchPath(m)] <= tables
  /\ \A m \in Starters : pc[m] \in {"migration", "clean"} => version[SearchPath(m)] > 0

\* No crash so far, and no migrator of the other search path has begun.
Calm == faults = 0 /\ version["public"] = 0

\* Then the catalog's version table is in step with the tables, but for the one
\* migration its holder runs, and nobody was refused for what it found there.
InStep ==
  /\ lock["catalog"] = Nobody => tables = version["catalog"] /\ ~dirty["catalog"]
  /\ \A p \in Processes :
       /\ pc[p] = "version" => tables = version["catalog"] /\ ~dirty["catalog"]
       /\ pc[p] = "migration" => tables = version["catalog"] - 1
       /\ pc[p] = "clean" => tables = version["catalog"]
       /\ refused[p] \notin {"dirty", "exists"}

MigrationInv == LockInv /\ RecordInv /\ ServesOnTables /\ (Calm => InStep)

\* An empty database is in step with its empty version tables.
LEMMA MigrationInit == Init => MigrationInv
BY LifeAssumption DEF Init, MigrationInv, LockInv, RecordInv, ServesOnTables, Calm, InStep,
   Starters, SearchPath, Paths, Migrating, Launching, Serving

\* A step that moves one process outside RunMigrations, and leaves the version
\* tables alone, keeps the invariant if a process that is launched comes from one.
LEMMA MigrationAside ==
  ASSUME TypeOK, MigrationInv, UNCHANGED <<refused, migrator, faults>>,
         NEW m \in Starters, NEW to \in {"down"} \cup Launching \cup Serving,
         pc' = [pc EXCEPT ![m] = to], pc[m] \in Launching \cup Serving, m \in Processes
  PROVE  MigrationInv'
<1>1. /\ pc'[m] = to /\ pc[m] \notin Migrating /\ to \notin Migrating
      /\ \A n \in Starters \ {m} : pc'[n] = pc[n]
  BY DEF TypeOK, Launching, Serving, Migrating
<1>2. LockInv'
  BY <1>1 DEF MigrationInv, LockInv, migrator
<1>3. RecordInv'
  BY <1>1 DEF MigrationInv, RecordInv, migrator, Migrating
<1>4. ServesOnTables'
  BY <1>1 DEF MigrationInv, ServesOnTables, migrator, Starters
<1>5. (Calm => InStep)'
  BY <1>1 DEF MigrationInv, Calm, InStep, migrator, Migrating, Starters
<1> QED
  BY <1>2, <1>3, <1>4, <1>5 DEF MigrationInv

\* A migrator, or main, gives up: a failed Up, or a crash.
LEMMA MigrationGivenUp ==
  ASSUME TypeOK, MigrationInv, NEW m \in Starters,
         pc' = [pc EXCEPT ![m] = "down"],
         lock' = [s \in Paths |-> IF lock[s] = m THEN Nobody ELSE lock[s]],
         UNCHANGED <<version, dirty, tables>>,
         Calm' => /\ Calm /\ (m \in Processes => pc[m] \notin Migrating)
                  /\ \A p \in Processes : refused'[p] \notin {"dirty", "exists"}
  PROVE  MigrationInv'
<1>1. pc'[m] = "down" /\ \A n \in Starters \ {m} : pc'[n] = pc[n]
  BY DEF TypeOK
<1>2. LockInv'
  <2>1. lock'[SearchPath(m)] # m
    BY LifeAssumption DEF SearchPath, Paths
  <2>2. \A n \in Starters \ {m} : lock'[SearchPath(n)] = n <=> lock[SearchPath(n)] = n
    BY LifeAssumption DEF SearchPath, Paths
  <2>3. \A n \in Starters, s \in Paths : lock'[s] = n => lock[s] = n
    BY LifeAssumption
  <2> QED
    BY <1>1, <2>1, <2>2, <2>3 DEF MigrationInv, LockInv, Migrating
<1>3. RecordInv'
  BY <1>1 DEF MigrationInv, RecordInv
<1>4. ServesOnTables'
  BY <1>1 DEF MigrationInv, ServesOnTables, Starters, Launching, Serving
<1>5. (Calm => InStep)'
  <2> SUFFICES ASSUME Calm' PROVE InStep'
    OBVIOUS
  <2>1. lock["catalog"] # m
    BY DEF MigrationInv, LockInv, Paths, SearchPath, Starters
  <2>2. lock'["catalog"] = lock["catalog"]
    BY <2>1 DEF Paths
  <2> QED
    BY <1>1, <2>2 DEF MigrationInv, InStep, Starters
<1> QED
  BY <1>2, <1>3, <1>4, <1>5 DEF MigrationInv

\* The holder of a lock is alone with its version table.
LEMMA Alone ==
  ASSUME MigrationInv, NEW m \in Starters, pc[m] \in Migrating
  PROVE  \A n \in Starters \ {m} : pc[n] \in Migrating => SearchPath(n) # SearchPath(m)
BY DEF MigrationInv, LockInv

\* A tool is at the other table, and has recorded a migration there when it runs one.
LEMMA ToolsApart ==
  ASSUME TypeOK, MigrationInv
  PROVE  /\ \A p \in Processes : SearchPath(p) = "catalog"
         /\ \A m \in Starters : m \notin Processes => SearchPath(m) = "public"
         /\ Calm => \A m \in Starters : pc[m] \in {"migration", "clean"} => m \in Processes
         /\ \A m \in Starters : SearchPath(m) \in Paths
BY LifeAssumption DEF SearchPath, Starters, Paths, MigrationInv, RecordInv, Calm

\* RunMigrations takes the lock of its table, which is free.
LEMMA TakeLockStep ==
  ASSUME TypeOK, MigrationInv, NEW m \in Starters, Start(m) \/ TakeLock(m)
  PROVE  MigrationInv'
<1>1. /\ \A n \in Starters \ {m} : pc'[n] = pc[n]
      /\ UNCHANGED <<version, dirty, tables, faults>>
      /\ pc[m] \notin Migrating
      /\ pc'[m] \notin {"migration", "clean"} \cup Launching \cup Serving
      /\ \A p \in Processes : refused'[p] = refused[p] \/ refused'[p] = "no"
  BY DEF Start, TakeLock, Goto, TypeOK, migrator, Migrating, Launching, Serving, Starters
<1>2. LockInv'
  <2>1. CASE Start(m)
    BY <1>1, <2>1 DEF Start, Goto, TypeOK, MigrationInv, LockInv, Migrating, migrator
  <2>2. CASE TakeLock(m)
    <3>1. /\ pc'[m] = "version" /\ lock[SearchPath(m)] = Nobody
          /\ lock' = [lock EXCEPT ![SearchPath(m)] = m]
      BY <2>2 DEF TakeLock, Goto, TypeOK
    <3>2. \A s \in Paths : lock'[s] = IF s = SearchPath(m) THEN m ELSE lock[s]
      BY <3>1 DEF TypeOK
    <3> QED
      BY <1>1, <3>1, <3>2, ToolsApart, LifeAssumption DEF MigrationInv, LockInv, Migrating
  <2> QED
    BY <2>1, <2>2
<1>3. RecordInv'
  BY <1>1 DEF MigrationInv, RecordInv
<1>4. ServesOnTables'
  BY <1>1 DEF MigrationInv, ServesOnTables, Starters
<1>5. (Calm => InStep)'
  <2> SUFFICES ASSUME Calm PROVE InStep'
    BY <1>1 DEF Calm
  <2>1. InStep
    BY DEF MigrationInv
  <2>2. CASE Start(m)
    BY <1>1, <2>1, <2>2 DEF Start, Goto, InStep, TypeOK, Starters, migrator
  <2>3. CASE TakeLock(m)
    <3>1. /\ pc'[m] = "version" /\ lock[SearchPath(m)] = Nobody
          /\ lock' = [lock EXCEPT ![SearchPath(m)] = m]
      BY <2>3 DEF TakeLock, Goto, TypeOK
    <3>2. m \in Processes => tables = version["catalog"] /\ ~dirty["catalog"]
      BY <2>1, <3>1, ToolsApart DEF InStep
    <3>3. lock'["catalog"] = Nobody => lock["catalog"] = Nobody
      BY <3>1, LifeAssumption DEF TypeOK, Paths
    <3> QED
      BY <1>1, <2>1, <3>1, <3>2, <3>3 DEF InStep, Starters
  <2> QED
    BY <2>2, <2>3
<1> QED
  BY <1>2, <1>3, <1>4, <1>5 DEF MigrationInv

\* A failed Up finds nothing, on a calm day, that would make it fail.
LEMMA RefusedStep ==
  ASSUME TypeOK, MigrationInv, NEW m \in Starters,
         LockTimeout(m) \/ FoundDirty(m) \/ MigrateFails(m)
  PROVE  MigrationInv'
<1>1. PICK why \in {"timeout", "dirty", "exists"} :
        /\ Exit(m, why)
        /\ why = "timeout" => pc[m] = "lock"
        /\ why = "dirty" => pc[m] = "version" /\ dirty[SearchPath(m)]
        /\ why = "exists" => pc[m] = "migration" /\ tables >= version[SearchPath(m)]
  BY DEF LockTimeout, FoundDirty, MigrateFails
<1>2. ASSUME Calm PROVE m \in Processes => why = "timeout"
  BY <1>1, <1>2, ToolsApart DEF MigrationInv, InStep, TypeOK, Paths
<1>3. Calm' => Calm
  BY <1>1 DEF Exit, Calm
<1>4. \A p \in Processes : refused'[p] = IF p = m THEN why ELSE refused[p]
  BY <1>1 DEF Exit, TypeOK, Starters
<1>5. Calm => \A p \in Processes : refused'[p] \notin {"dirty", "exists"}
  BY <1>2, <1>4 DEF MigrationInv, InStep
<1>6. Calm => (m \in Processes => pc[m] \notin Migrating)
  BY <1>1, <1>2 DEF Migrating
<1> QED
  BY <1>1, <1>3, <1>5, <1>6, MigrationGivenUp DEF Exit

\* The migration is announced: the table runs ahead of the tables, and is dirty.
LEMMA AnnounceStep ==
  ASSUME TypeOK, MigrationInv, NEW m \in Starters, Announce(m)
  PROVE  MigrationInv'
<1> DEFINE s == SearchPath(m)
<1>1. /\ s \in Paths /\ pc[m] = "version" /\ pc'[m] = "migration"
      /\ \A n \in Starters \ {m} : pc'[n] = pc[n]
      /\ ~dirty[s] /\ version[s] < Latest
      /\ version' = [version EXCEPT ![s] = version[s] + 1]
      /\ dirty' = [dirty EXCEPT ![s] = TRUE]
      /\ UNCHANGED <<refused, lock, tables, faults>>
  BY ToolsApart DEF Announce, Goto, TypeOK
<1>2. \A r \in Paths : /\ version[r] \in Nat
                       /\ version'[r] = IF r = s THEN version[r] + 1 ELSE version[r]
                       /\ r = s => dirty'[r]
                       /\ r # s => (dirty'[r] <=> dirty[r])
  BY <1>1 DEF TypeOK
<1> HIDE DEF s
<1>3. LockInv'
  BY <1>1 DEF MigrationInv, LockInv, Migrating
<1>4. RecordInv'
  <2>1. \A r \in Paths : ~dirty'[r] => version'[r] <= tables'
    BY <1>1, <1>2 DEF MigrationInv, RecordInv
  <2>2. \A n \in Starters \ {m} : pc[n] \in Migrating => SearchPath(n) \in Paths /\ SearchPath(n) # s
    BY <1>1, Alone, ToolsApart DEF s, Migrating
  <2>3. \A n \in Starters \ {m} :
          /\ pc'[n] = "clean" => version'[SearchPath(n)] <= tables'
          /\ pc'[n] \in {"migration", "clean"} => version'[SearchPath(n)] > 0
    BY <1>1, <1>2, <2>2 DEF MigrationInv, RecordInv, Migrating
  <2>4. version'[SearchPath(m)] > 0
    BY <1>1, <1>2 DEF s
  <2> QED
    BY <1>1, <2>1, <2>3, <2>4 DEF RecordInv
<1>5. ServesOnTables'
  BY <1>1 DEF MigrationInv, ServesOnTables, Starters, Launching, Serving
<1>6. (Calm => InStep)'
  <2> SUFFICES ASSUME Calm' PROVE InStep'
    OBVIOUS
  <2>1. Calm /\ s = "catalog" /\ InStep /\ m \in Processes
    BY <1>1, <1>2, ToolsApart DEF Calm, Paths, MigrationInv, s
  <2>2. tables' = version'["catalog"] - 1 /\ version'["catalog"] # tables'
    BY <1>1, <1>2, <2>1 DEF InStep, TypeOK, Paths
  <2>3. lock'["catalog"] = m
    BY <1>1, <2>1 DEF MigrationInv, LockInv, Migrating, s
  <2>4. \A p \in Processes \ {m} : pc'[p] \notin Migrating
    BY <1>1, <2>1, Alone, ToolsApart DEF s, Migrating, Starters
  <2>5. lock'["catalog"] # Nobody
    BY <2>3, LifeAssumption
  <2> QED
    BY <1>1, <2>1, <2>2, <2>4, <2>5 DEF InStep, Migrating
<1> QED
  BY <1>3, <1>4, <1>5, <1>6 DEF MigrationInv

\* The file runs: the tables catch up with the table that announced it, and no
\* other version table says less than it did.
LEMMA MigrateStep ==
  ASSUME TypeOK, MigrationInv, NEW m \in Starters, Migrate(m)
  PROVE  MigrationInv'
<1>1. /\ pc[m] = "migration" /\ pc'[m] = "clean"
      /\ \A n \in Starters \ {m} : pc'[n] = pc[n]
      /\ tables < version[SearchPath(m)] /\ tables' = version[SearchPath(m)]
      /\ UNCHANGED <<refused, version, dirty, lock, faults>>
  BY DEF Migrate, Goto, TypeOK
<1>2. /\ tables \in Nat /\ tables' \in Nat /\ tables < tables' /\ tables' <= Latest
      /\ \A r \in Paths : version[r] \in Nat
  BY <1>1, ToolsApart, LifeAssumption DEF TypeOK
<1>3. LockInv'
  BY <1>1 DEF MigrationInv, LockInv, Migrating
<1>4. RecordInv'
  BY <1>1, <1>2, ToolsApart DEF MigrationInv, RecordInv
<1>5. ServesOnTables'
  <2>1. \A p \in Processes : pc'[p] \notin Launching \cup Serving
    BY <1>1, <1>2, LifeAssumption DEF MigrationInv, ServesOnTables, Starters, Launching, Serving
  <2> QED
    BY <2>1 DEF ServesOnTables
<1>6. (Calm => InStep)'
  <2> SUFFICES ASSUME Calm PROVE InStep'
    BY <1>1 DEF Calm
  <2>1. InStep /\ m \in Processes /\ SearchPath(m) = "catalog"
    BY <1>1, ToolsApart DEF MigrationInv
  <2>2. lock["catalog"] = m
    BY <1>1, <2>1 DEF MigrationInv, LockInv, Migrating
  <2>3. \A p \in Processes \ {m} : pc'[p] \notin Migrating
    BY <1>1, <2>1, Alone, ToolsApart DEF Migrating, Starters
  <2> QED
    BY <1>1, <2>1, <2>2, <2>3, LifeAssumption DEF InStep, Migrating
<1> QED
  BY <1>3, <1>4, <1>5, <1>6 DEF MigrationInv

\* The table is clean again, in step with the tables.
LEMMA CleanStep ==
  ASSUME TypeOK, MigrationInv, NEW m \in Starters, Clean(m)
  PROVE  MigrationInv'
<1>1. /\ pc[m] = "clean" /\ pc'[m] = "version"
      /\ \A n \in Starters \ {m} : pc'[n] = pc[n]
      /\ dirty' = [dirty EXCEPT ![SearchPath(m)] = FALSE]
      /\ UNCHANGED <<refused, version, lock, tables, faults>>
  BY DEF Clean, Goto, TypeOK
<1>2. \A r \in Paths : /\ r = SearchPath(m) => ~dirty'[r]
                       /\ r # SearchPath(m) => (dirty'[r] <=> dirty[r])
  BY <1>1, ToolsApart DEF TypeOK
<1>3. LockInv'
  BY <1>1 DEF MigrationInv, LockInv, Migrating
<1>4. RecordInv'
  BY <1>1, <1>2 DEF MigrationInv, RecordInv
<1>5. ServesOnTables'
  BY <1>1 DEF MigrationInv, ServesOnTables, Starters, Launching, Serving
<1>6. (Calm => InStep)'
  <2> SUFFICES ASSUME Calm PROVE InStep'
    BY <1>1 DEF Calm
  <2>1. InStep /\ m \in Processes /\ SearchPath(m) = "catalog"
    BY <1>1, ToolsApart DEF MigrationInv
  <2>2. lock["catalog"] = m
    BY <1>1, <2>1 DEF MigrationInv, LockInv, Migrating
  <2>3. \A p \in Processes \ {m} : pc'[p] \notin Migrating
    BY <1>1, <2>1, Alone, ToolsApart DEF Migrating, Starters
  <2>4. tables' = version'["catalog"] /\ ~dirty'["catalog"]
    BY <1>1, <1>2, <2>1 DEF InStep, Paths
  <2> QED
    BY <1>1, <2>1, <2>2, <2>3, <2>4, LifeAssumption DEF InStep, Migrating
<1> QED
  BY <1>3, <1>4, <1>5, <1>6 DEF MigrationInv

\* Up returns: a clean table at the latest version means that all tables exist.
LEMMA MigratedStep ==
  ASSUME TypeOK, MigrationInv, NEW m \in Starters, Migrated(m)
  PROVE  MigrationInv'
<1>1. /\ pc[m] = "version" /\ pc'[m] \in {"down", "pool"}
      /\ \A n \in Starters \ {m} : pc'[n] = pc[n]
      /\ ~dirty[SearchPath(m)] /\ version[SearchPath(m)] = Latest
      /\ lock' = [lock EXCEPT ![SearchPath(m)] = Nobody]
      /\ UNCHANGED <<refused, version, dirty, tables, faults>>
  BY DEF Migrated, Goto, TypeOK
<1>2. \A r \in Paths : lock'[r] = IF r = SearchPath(m) THEN Nobody ELSE lock[r]
  BY <1>1 DEF TypeOK
<1>3. tables = Latest
  BY <1>1, ToolsApart, LifeAssumption DEF MigrationInv, RecordInv, TypeOK
<1>4. LockInv'
  <2>1. \A n \in Starters \ {m} : pc[n] \in Migrating => SearchPath(n) # SearchPath(m)
    BY <1>1, Alone DEF Migrating
  <2> QED
    BY <1>1, <1>2, <2>1, ToolsApart, LifeAssumption DEF MigrationInv, LockInv, Migrating
<1>5. RecordInv'
  BY <1>1 DEF MigrationInv, RecordInv
<1>6. ServesOnTables'
  BY <1>1, <1>3 DEF ServesOnTables
<1>7. (Calm => InStep)'
  <2> SUFFICES ASSUME Calm PROVE InStep'
    BY <1>1 DEF Calm
  <2>1. InStep
    BY DEF MigrationInv
  <2>2. CASE m \in Processes
    <3>1. tables = version["catalog"] /\ ~dirty["catalog"]
      BY <1>1, <2>1, <2>2 DEF InStep
    <3> QED
      BY <1>1, <2>1, <3>1 DEF InStep, Starters
  <2>3. CASE m \notin Processes
    <3>1. lock'["catalog"] = lock["catalog"]
      BY <1>2, <2>3, ToolsApart DEF Paths
    <3> QED
      BY <1>1, <2>1, <2>3, <3>1 DEF InStep, Starters
  <2> QED
    BY <2>2, <2>3
<1> QED
  BY <1>4, <1>5, <1>6, <1>7 DEF MigrationInv

\* Every step keeps the invariant.
LEMMA MigrationStep == TypeOK /\ MigrationInv /\ [Next]_vars => MigrationInv'
<1> SUFFICES ASSUME TypeOK, MigrationInv, [Next]_vars PROVE MigrationInv'
  OBVIOUS
<1>1. ASSUME NEW m \in Starters, MigratorStep(m) PROVE MigrationInv'
  BY <1>1, TakeLockStep, RefusedStep, AnnounceStep, MigrateStep, CleanStep, MigratedStep
  DEF MigratorStep, RunMigrations
<1>2. ASSUME NEW m \in Starters, Crash(m) PROVE MigrationInv'
  <2>1. ~Calm'
    BY <1>2, CrashFrame DEF Calm
  <2> QED
    BY <1>2, <2>1, MigrationGivenUp DEF Crash
<1>3. ASSUME NEW p \in Processes, Seed(p) PROVE MigrationInv'
  BY <1>3, SeedFrame, MigrationAside DEF Starters, Launching
<1>4. ASSUME NEW p \in Processes, ServerStep(p) PROVE MigrationInv'
  BY <1>4, ServerFrame, MigrationAside DEF Starters, Launching
<1>5. CASE TrafficStep \/ UNCHANGED vars
  <2>1. UNCHANGED <<pc, refused, version, dirty, lock, tables, faults>>
    BY <1>5, TrafficFrame DEF vars, migrator
  <2> QED
    BY <2>1 DEF MigrationInv, LockInv, RecordInv, ServesOnTables, Calm, InStep
<1> QED
  BY <1>1, <1>2, <1>3, <1>4, <1>5, Shapes

\* Whoever seeds or serves does so on the whole schema, whatever crashed before
\* (main.go:70-73).
THEOREM ServesOnTablesAlways == Spec => []ServesOnTables
<1>1. MigrationInv => ServesOnTables
  BY DEF MigrationInv
<1> QED
  BY <1>1, MigrationInit, MigrationStep, LifeTyped, PTL DEF Spec

\* Without a crash and without a migrator of the other search path, no start finds the
\* version dirty or the tables there because another start is at it (migrate.go:25).
\* That it may give up waiting for the lock is in the model, and not excluded here.
THEOREM StartsDoNotCollideAlways == Spec => []StartsDoNotCollide
<1>1. TypeOK /\ MigrationInv => StartsDoNotCollide
  <2> SUFFICES ASSUME TypeOK, MigrationInv, NEW p \in Processes,
                      refused[p] \in {"dirty", "exists"}
               PROVE  faults > 0 \/ version["public"] > 0
    BY DEF StartsDoNotCollide
  <2>1. ~Calm
    BY DEF MigrationInv, InStep
  <2>2. faults \in Nat /\ version["public"] \in Nat
    BY DEF TypeOK, Paths
  <2> QED
    BY <2>1, <2>2 DEF Calm
<1> QED
  BY <1>1, MigrationInit, MigrationStep, LifeTyped, PTL DEF Spec
=============================================================================
