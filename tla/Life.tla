-------------------------------- MODULE Life --------------------------------
(***************************************************************************)
(* The life of the catalog's processes on one database: each start runs    *)
(* the migrations and the seed, serves calls and ends in a graceful stop   *)
(* or a crash.  Other processes, and the migrate container of the compose  *)
(* file, do the same beside it.                                            *)
(***************************************************************************)
EXTENDS Integers, FiniteSets

CONSTANTS
  Processes,  \* catalog processes
  Tools,      \* runs of the migrate container
  Cabinets,   \* the cabinets of the seed
  Seeded,     \* the units the seed gives each
  Calls,      \* RPCs, each of which may sell a unit
  Watches,    \* streams that stay open until the client leaves (health, reflection)
  Latest,     \* the number of migrations (2 in the code)
  Nobody,     \* no process
  MaxFaults   \* bound on crashes

Starters == Processes \cup Tools

ASSUME LifeAssumption ==
  /\ Processes \cap Tools = {}
  /\ Nobody \notin Starters
  /\ Seeded \in [Cabinets -> Nat]
  /\ Latest \in Nat
  /\ MaxFaults \in Nat

VARIABLES
  pc,       \* where each process, or tool, is in main
  refused,  \* why its last RunMigrations failed
  version,  \* schema_migrations.version, one table per search path
  dirty,    \* schema_migrations.dirty
  lock,     \* the holder of the migrator's advisory lock
  tables,   \* the migrations whose tables exist
  left,     \* cabinets.quantity, of the rows there are
  present,  \* the rows of cabinets
  pictured, \* the cabinets whose images are stored
  seeding,  \* what the seed transaction of each process has written
  sold,     \* the units sold of each cabinet
  pools,    \* the processes whose connection pool is open
  signalled, \* the processes with a signal in their quit channel
  call,     \* the state of each call
  at,       \* the process it was sent to
  watch,    \* the process each stream is open at
  faults    \* crashes so far

migrator == <<version, dirty, lock, tables>>
shop     == <<left, present, pictured, sold>>
traffic  == <<call, at, watch>>
process  == <<pools, signalled>>
vars     == <<pc, refused, migrator, shop, seeding, process, traffic, faults>>

NoSeed == [rows |-> {}, images |-> {}, aborted |-> FALSE]

\* The compose file gives the tool no search_path: it keeps its own version table.
SearchPath(m) == IF m \in Tools THEN "public" ELSE "catalog"
Paths == {"public", "catalog"}

Init ==
  /\ pc = [m \in Starters |-> "down"]
  /\ refused = [m \in Starters |-> "no"]
  /\ version = [s \in Paths |-> 0]
  /\ dirty = [s \in Paths |-> FALSE]
  /\ lock = [s \in Paths |-> Nobody]
  /\ tables = 0
  /\ left = [c \in Cabinets |-> 0]
  /\ present = {} /\ pictured = {}
  /\ seeding = [p \in Processes |-> NoSeed]
  /\ sold = [c \in Cabinets |-> 0]
  /\ pools = {} /\ signalled = {}
  /\ call = [k \in Calls |-> "none"]
  /\ at = [k \in Calls |-> Nobody]
  /\ watch = [w \in Watches |-> Nobody]
  /\ faults = 0

Goto(m, from, to) == pc[m] = from /\ pc' = [pc EXCEPT ![m] = to]

-----------------------------------------------------------------------------
(* RunMigrations: golang-migrate's Up under its advisory lock.             *)

Start(m) ==
  /\ Goto(m, "down", "lock")
  /\ refused' = [refused EXCEPT ![m] = "no"]
  /\ UNCHANGED <<migrator, shop, seeding, process, traffic, faults>>

\* Mutant: Up runs without its lock.
LockNothing(m) ==
  /\ Goto(m, "lock", "version")
  /\ UNCHANGED <<refused, migrator, shop, seeding, process, traffic, faults>>

TakeLock(m) ==
  /\ Goto(m, "lock", "version")
  /\ lock[SearchPath(m)] = Nobody
  /\ lock' = [lock EXCEPT ![SearchPath(m)] = m]
  /\ UNCHANGED <<refused, version, dirty, tables, shop, seeding, process, traffic, faults>>

\* Mutant: the error of Up is dropped like ErrNoChange.
GoOn(m, why) ==
  /\ pc' = [pc EXCEPT ![m] = "pool"]
  /\ refused' = [refused EXCEPT ![m] = why]
  /\ lock' = [s \in Paths |-> IF lock[s] = m THEN Nobody ELSE lock[s]]
  /\ UNCHANGED <<version, dirty, tables, shop, seeding, process, traffic, faults>>

\* Up fails, main exits with status 1 and its session gives up the lock.
Exit(m, why) ==
  /\ pc' = [pc EXCEPT ![m] = "down"]
  /\ refused' = [refused EXCEPT ![m] = why]
  /\ lock' = [s \in Paths |-> IF lock[s] = m THEN Nobody ELSE lock[s]]
  /\ UNCHANGED <<version, dirty, tables, shop, seeding, process, traffic, faults>>

LockTimeout(m) ==
  /\ pc[m] = "lock" /\ lock[SearchPath(m)] # Nobody
  /\ Exit(m, "timeout")

FoundDirty(m) ==
  /\ pc[m] = "version" /\ dirty[SearchPath(m)]
  /\ Exit(m, "dirty")

\* The next migration is announced as dirty before it runs.
Announce(m) ==
  LET s == SearchPath(m)
  IN  /\ Goto(m, "version", "migration")
      /\ ~dirty[s] /\ version[s] < Latest
      /\ version' = [version EXCEPT ![s] = @ + 1]
      /\ dirty' = [dirty EXCEPT ![s] = TRUE]
      /\ UNCHANGED <<refused, lock, tables, shop, seeding, process, traffic, faults>>

\* The file is one implicit transaction of CREATE statements.
Migrate(m) ==
  /\ Goto(m, "migration", "clean")
  /\ tables < version[SearchPath(m)]
  /\ tables' = version[SearchPath(m)]
  /\ UNCHANGED <<refused, version, dirty, lock, shop, seeding, process, traffic, faults>>

\* The tables are there already.
MigrateFails(m) ==
  /\ pc[m] = "migration" /\ tables >= version[SearchPath(m)]
  /\ Exit(m, "exists")

Clean(m) ==
  /\ Goto(m, "clean", "version")
  /\ dirty' = [dirty EXCEPT ![SearchPath(m)] = FALSE]
  /\ UNCHANGED <<refused, version, lock, tables, shop, seeding, process, traffic, faults>>

\* Nothing (more) to do: nil or ErrNoChange.  The tool ends here.
Migrated(m) ==
  LET s == SearchPath(m)
  IN  /\ Goto(m, "version", IF m \in Tools THEN "down" ELSE "pool")
      /\ ~dirty[s] /\ version[s] = Latest
      /\ lock' = [lock EXCEPT ![s] = Nobody]
      /\ UNCHANGED <<refused, version, dirty, tables, shop, seeding, process, traffic, faults>>

RunMigrations(m) ==
  \/ TakeLock(m) \/ LockTimeout(m) \/ FoundDirty(m) \/ Announce(m)
  \/ Migrate(m) \/ MigrateFails(m) \/ Clean(m) \/ Migrated(m)

-----------------------------------------------------------------------------
(* seedCabinets, one transaction.                                          *)

\* Mutant: ON CONFLICT (id) DO UPDATE.
InsertOrReset(p) == Cabinets

\* ON CONFLICT (id) DO NOTHING.
Inserted(p) == Cabinets \ present

\* Rows another seed has not committed yet are waited for.
SeedCabinets(p) ==
  /\ Goto(p, "seed", "images")
  /\ \A q \in Processes \ {p} : seeding[q].rows = {}
  /\ seeding' = [seeding EXCEPT ![p].rows = Inserted(p)]
  /\ UNCHANGED <<refused, migrator, shop, process, traffic, faults>>

SeedImages(p) ==
  /\ Goto(p, "images", "seedCommit")
  /\ seeding' = [seeding EXCEPT ![p].images = Cabinets \ pictured]
  /\ UNCHANGED <<refused, migrator, shop, process, traffic, faults>>

\* Mutant: the failed INSERT leaves the transaction usable.
SeedImagesSkipped(p) ==
  /\ Goto(p, "images", "seedCommit")
  /\ UNCHANGED <<refused, migrator, shop, seeding, process, traffic, faults>>

\* The error of the image INSERT is dropped; the transaction is aborted.
SeedImagesFails(p) ==
  /\ Goto(p, "images", "seedCommit")
  /\ seeding' = [seeding EXCEPT ![p].aborted = TRUE]
  /\ UNCHANGED <<refused, migrator, shop, process, traffic, faults>>

\* COMMIT of an aborted transaction rolls it back.
SeedCommit(p) ==
  /\ Goto(p, "seedCommit", "listen")
  /\ IF seeding[p].aborted THEN UNCHANGED <<left, present, pictured>> ELSE
       /\ left' = [c \in Cabinets |->
                     IF c \in seeding[p].rows THEN Seeded[c] ELSE left[c]]
       /\ present' = present \cup seeding[p].rows
       /\ pictured' = pictured \cup seeding[p].images
  /\ seeding' = [seeding EXCEPT ![p] = NoSeed]
  /\ UNCHANGED <<refused, migrator, sold, process, traffic, faults>>

\* BEGIN, the first INSERT or the COMMIT fails, or the 10 s of ctx are over: a
\* warning at most, and the service starts without what the seed would have added.
SeedFails(p) ==
  /\ pc[p] \in {"seed", "seedCommit"}
  /\ pc' = [pc EXCEPT ![p] = "listen"]
  /\ seeding' = [seeding EXCEPT ![p] = NoSeed]
  /\ UNCHANGED <<refused, migrator, shop, process, traffic, faults>>

Seed(p) ==
  \/ SeedCabinets(p) \/ SeedImages(p) \/ SeedImagesFails(p) \/ SeedCommit(p)
  \/ SeedFails(p)

-----------------------------------------------------------------------------
(* The connection pool and the gRPC server.                                *)

Serving == {"serving", "deaf", "draining", "drained", "returning"}
Up(p) == pc[p] \in Serving
OpenCalls(p) == {k \in Calls : call[k] \in {"running", "sold"} /\ at[k] = p}

OpenPool(p) ==
  /\ Goto(p, "pool", "seed")
  /\ pools' = pools \cup {p}
  /\ UNCHANGED <<refused, migrator, shop, seeding, signalled, traffic, faults>>

\* os.Exit runs no deferred call, but the process takes its pool with it.
Quit(p, from) ==
  /\ Goto(p, from, "down")
  /\ pools' = pools \ {p}
  /\ UNCHANGED <<refused, migrator, shop, seeding, signalled, traffic, faults>>

OpenPoolFails(p) == Quit(p, "pool")
ListenFails(p) == Quit(p, "listen")

Listen(p) ==
  /\ Goto(p, "listen", "serving")
  /\ UNCHANGED <<refused, migrator, shop, seeding, process, traffic, faults>>

\* Serve returns an error: it is logged, and the process waits for its signal.
ServeFails(p) ==
  /\ Goto(p, "serving", "deaf")
  /\ UNCHANGED <<refused, migrator, shop, seeding, process, traffic, faults>>

\* The connections there are bring calls even when nobody listens for new ones.
Accept(p, k) ==
  /\ pc[p] \in {"serving", "deaf"} /\ call[k] = "none"
  /\ call' = [call EXCEPT ![k] = "running"]
  /\ at' = [at EXCEPT ![k] = p]
  /\ UNCHANGED <<pc, refused, migrator, shop, seeding, process, watch, faults>>

\* Mutant: a unit is sold whether there is one or not.
SellAnyway(k) ==
  /\ call[k] = "running" /\ Up(at[k])
  /\ \E c \in present :
       /\ left' = [left EXCEPT ![c] = @ - 1]
       /\ sold' = [sold EXCEPT ![c] = @ + 1]
  /\ call' = [call EXCEPT ![k] = "sold"]
  /\ UNCHANGED <<pc, refused, migrator, present, pictured, seeding, process, at, watch,
                 faults>>

\* The transaction of the call commits (Checkout has its steps).
Sell(k) ==
  /\ call[k] = "running" /\ Up(at[k]) /\ at[k] \in pools
  /\ \E c \in present :
       /\ left[c] > 0
       /\ left' = [left EXCEPT ![c] = @ - 1]
       /\ sold' = [sold EXCEPT ![c] = @ + 1]
  /\ call' = [call EXCEPT ![k] = "sold"]
  /\ UNCHANGED <<pc, refused, migrator, present, pictured, seeding, process, at, watch,
                 faults>>

\* What a handler tells its client: without a pool it can only fail.
Outcome(k) ==
  IF call[k] = "running" /\ at[k] \notin pools THEN "denied" ELSE "answered"

\* Mutant: a call that is refused never ends.
AnswerSold(k) ==
  /\ call[k] = "sold" /\ Up(at[k])
  /\ call' = [call EXCEPT ![k] = "answered"]
  /\ UNCHANGED <<pc, refused, migrator, shop, seeding, process, at, watch, faults>>

\* The handler returns, with what it sold or with an error.
Answer(k) ==
  /\ call[k] \in {"running", "sold"} /\ Up(at[k])
  /\ call' = [call EXCEPT ![k] = Outcome(k)]
  /\ UNCHANGED <<pc, refused, migrator, shop, seeding, process, at, watch, faults>>

Watch(p, w) ==
  /\ pc[p] \in {"serving", "deaf"} /\ watch[w] = Nobody
  /\ watch' = [watch EXCEPT ![w] = p]
  /\ UNCHANGED <<pc, refused, migrator, shop, seeding, process, call, at, faults>>

Unwatch(w) ==
  /\ watch[w] # Nobody
  /\ watch' = [watch EXCEPT ![w] = Nobody]
  /\ UNCHANGED <<pc, refused, migrator, shop, seeding, process, call, at, faults>>

-----------------------------------------------------------------------------
(* The end.                                                                *)

\* SIGINT or SIGTERM: it waits in the channel of signal.Notify.
Signal(p) ==
  /\ pc[p] \in {"serving", "deaf"} /\ p \notin signalled
  /\ signalled' = signalled \cup {p}
  /\ UNCHANGED <<pc, refused, migrator, shop, seeding, pools, traffic, faults>>

\* Mutant: the pool is closed beside workerCancel, before GracefulStop.
DrainPoolToo(p) ==
  /\ pc[p] \in {"serving", "deaf"} /\ p \in signalled
  /\ pc' = [pc EXCEPT ![p] = "draining"]
  /\ signalled' = signalled \ {p}
  /\ pools' = pools \ {p}
  /\ UNCHANGED <<refused, migrator, shop, seeding, traffic, faults>>

\* main takes it and calls GracefulStop, which takes no new calls.
Drain(p) ==
  /\ pc[p] \in {"serving", "deaf"} /\ p \in signalled
  /\ pc' = [pc EXCEPT ![p] = "draining"]
  /\ signalled' = signalled \ {p}
  /\ UNCHANGED <<refused, migrator, shop, seeding, pools, traffic, faults>>

\* GracefulStop returns when no call and no stream is open.
Drained(p) ==
  /\ Goto(p, "draining", "drained")
  /\ OpenCalls(p) = {}
  /\ \A w \in Watches : watch[w] # p
  /\ UNCHANGED <<refused, migrator, shop, seeding, process, traffic, faults>>

\* The deferred pool.Close.
ClosePool(p) ==
  /\ Goto(p, "drained", "returning")
  /\ pools' = pools \ {p}
  /\ UNCHANGED <<refused, migrator, shop, seeding, signalled, traffic, faults>>

\* main returns, whatever goroutines it has.
Return(p) ==
  /\ Goto(p, "returning", "down")
  /\ call' = [k \in Calls |-> IF k \in OpenCalls(p) THEN "lost" ELSE call[k]]
  /\ watch' = [w \in Watches |-> IF watch[w] = p THEN Nobody ELSE watch[w]]
  /\ UNCHANGED <<refused, migrator, shop, seeding, process, at, faults>>

Stop(p) == Drain(p) \/ Drained(p) \/ ClosePool(p) \/ Return(p)

\* SIGKILL, a panic, the machine; a SIGTERM before signal.Notify does the same.
Crash(m) ==
  /\ pc[m] # "down"
  /\ faults < MaxFaults /\ faults' = faults + 1
  /\ pc' = [pc EXCEPT ![m] = "down"]
  /\ lock' = [s \in Paths |-> IF lock[s] = m THEN Nobody ELSE lock[s]]
  /\ seeding' = [p \in Processes |-> IF p = m THEN NoSeed ELSE seeding[p]]
  /\ pools' = pools \ {m} /\ signalled' = signalled \ {m}
  /\ call' = [k \in Calls |-> IF k \in OpenCalls(m) THEN "cut" ELSE call[k]]
  /\ watch' = [w \in Watches |-> IF watch[w] = m THEN Nobody ELSE watch[w]]
  /\ UNCHANGED <<refused, version, dirty, tables, shop, at>>

-----------------------------------------------------------------------------

Serve(p) ==
  \/ OpenPool(p) \/ OpenPoolFails(p) \/ Listen(p) \/ ListenFails(p) \/ ServeFails(p)
  \/ Signal(p) \/ Stop(p)
  \/ \E k \in Calls : Accept(p, k)
  \/ \E w \in Watches : Watch(p, w)

Next ==
  \/ \E m \in Starters : Start(m) \/ RunMigrations(m) \/ Crash(m)
  \/ \E p \in Processes : Seed(p) \/ Serve(p)
  \/ \E k \in Calls : Sell(k) \/ Answer(k)
  \/ \E w \in Watches : Unwatch(w)

Spec == Init /\ [][Next]_vars

\* Calls are scheduled until they answer, and main goes on when it can: it takes its
\* signal, returns from GracefulStop, closes the pool and returns.
\* Nobody is bound to send a signal, to leave a stream or to start the service.
FairSpec ==
  /\ Spec
  /\ \A k \in Calls : WF_vars(Answer(k))
  /\ \A p \in Processes : WF_vars(Stop(p))
-----------------------------------------------------------------------------
(* Properties.                                                             *)

Starting == {"lock", "version", "migration", "clean"}
Launching == {"pool", "seed", "images", "seedCommit", "listen"}

TypeOK ==
  /\ pc \in [Starters -> {"down"} \cup Starting \cup Launching \cup Serving]
  /\ refused \in [Starters -> {"no", "timeout", "dirty", "exists"}]
  /\ version \in [Paths -> 0..Latest]
  /\ dirty \in [Paths -> BOOLEAN]
  /\ lock \in [Paths -> Starters \cup {Nobody}]
  /\ tables \in 0..Latest
  /\ left \in [Cabinets -> Nat]
  /\ present \subseteq Cabinets /\ pictured \subseteq Cabinets
  /\ seeding \in [Processes -> [rows : SUBSET Cabinets, images : SUBSET Cabinets,
                                aborted : BOOLEAN]]
  /\ sold \in [Cabinets -> Nat]
  /\ pools \subseteq Processes /\ signalled \subseteq Processes
  /\ call \in [Calls -> {"none", "running", "sold", "answered", "denied", "lost", "cut"}]
  /\ at \in [Calls -> Processes \cup {Nobody}]
  /\ watch \in [Watches -> Processes \cup {Nobody}]
  /\ faults \in Nat

\* The seed runs at every start, on tables that have sold units since, beside other
\* processes that sell: it never puts a sold unit back (main.go:153-166).
SeedKeepsSales ==
  \A c \in Cabinets :
    left[c] + sold[c] = IF c \in present THEN Seeded[c] ELSE 0

\* The image INSERT's error is dropped and COMMIT follows (main.go:182-184): still no
\* cabinet of the seed is ever on sale without its images.
SeedIsWhole == present = pictured

\* Processes that start together on an empty database wait for each other's
\* migrations (migrate.go:25): without a crash, and with no migrator of another search
\* path, none of them finds half of one.  It may give up waiting for the lock.
StartsDoNotCollide ==
  \A p \in Processes :
    refused[p] \in {"dirty", "exists"} => faults > 0 \/ version["public"] > 0

\* Whoever seeds or serves does so on the whole schema (main.go:70-73).
ServesOnTables ==
  \A p \in Processes : pc[p] \in Launching \cup Serving => tables = Latest

\* The stop drains the server before the deferred pool.Close and the end of main
\* (main.go:80,140): unless its process crashes, no call that was accepted finds the
\* pool closed under it or is lost with the process, whether Serve still runs or not.
NoCallIsDropped == \A k \in Calls : call[k] \notin {"denied", "lost"}

\* A signal leads to the end of the process, also when Serve has failed
\* (main.go:126,134), unless a client keeps a stream open for ever: there is no
\* deadline on GracefulStop, and the health server is not shut down first.
StopEnds ==
  \A p \in Processes :
    p \in signalled \/ pc[p] = "draining"
      ~> pc[p] = "down" \/ \E w \in Watches : watch[w] = p
=============================================================================
