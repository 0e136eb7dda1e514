----------------------------- MODULE EngineLocks -----------------------------
(***************************************************************************)
(* The locks of src/engine.rs.  The tenant map is a DashMap: shards, each  *)
(* behind a read-write lock of its own, and in them for each tenant an Arc *)
(* of its trie behind another read-write lock.  index lets go of the shard *)
(* before it touches the trie; delete and the queries keep the shard while *)
(* they wait for the trie, and stats while it walks a shard's tries.  What *)
(* comes after the trie, the submit of a write, needs no lock (Engine).    *)
(*                                                                         *)
(* DashMap's lock lets readers in while a writer waits.  parking_lot's     *)
(* does not: a writer takes the writer's place first, which stops new      *)
(* readers, and then waits for the readers inside to leave.                *)
(***************************************************************************)
EXTENDS Naturals, Sequences, FiniteSets

CONSTANTS Threads,  (* the threads that run calls                           *)
          Tenants,
          Terms,
          NShards,  (* the number of shards                                 *)
          ShardOf,  (* the shard each tenant hashes to                      *)
          Calls,    (* what each thread may call: [kind, tenant, term]      *)
          None      (* no thread, no call                                   *)

ASSUME LocksAssumption ==
  /\ NShards \in Nat \ {0}
  /\ ShardOf \in [Tenants -> 1..NShards]
  /\ Calls \in [Threads -> SUBSET [kind : {"index", "delete", "query", "stats"},
                                   tenant : Tenants, term : Terms]]
  /\ None \notin Threads /\ \A th \in Threads : None \notin Calls[th]

VARIABLES
  shardReaders,  (* for each shard the threads with a read guard on it      *)
  shardWriter,   (* for each shard the thread with the write guard          *)
  tenants,       (* the map: for each tenant the number of its trie, or 0   *)
  tries,         (* every trie ever made, in or out of the map: its terms,  *)
                 (* the threads with a read guard, and the one in the       *)
                 (* writer's place                                          *)
  pc, call,      (* for each thread how far its call is, and the call       *)
  arc,           (* for each thread the trie it holds an Arc of or is at    *)
  shard, todo,   (* for stats the shard it is in, and the tenants left in it*)
  seen,          (* for stats the tenants it has listed                     *)
  present,       (* history: the terms the last finished change left in     *)
  owed           (* history: for each reader what it may not miss           *)

lockVars == <<shardReaders, shardWriter>>
readerVars == <<shard, todo, seen, owed>>
vars == <<lockVars, tenants, tries, pc, call, arc, readerVars, present>>

Steps == {"idle", "get", "entry", "vacant", "write", "drain", "iterate", "read", "search"}

ShardOn(th) == ShardOf[call[th].tenant]
Goto(th, step) == pc' = [pc EXCEPT ![th] = step]
Known == {t \in Tenants : tenants[t] # 0}

TakeShard(s, th) == shardReaders' = [shardReaders EXCEPT ![s] = @ \cup {th}]
LeaveShards(th) == shardReaders' = [s \in 1..NShards |-> shardReaders[s] \ {th}]

Init ==
  /\ shardReaders = [s \in 1..NShards |-> {}]
  /\ shardWriter = [s \in 1..NShards |-> None]
  /\ tenants = [t \in Tenants |-> 0]
  /\ tries = <<>>
  /\ pc = [th \in Threads |-> "idle"] /\ call = [th \in Threads |-> None]
  /\ arc = [th \in Threads |-> 0]
  /\ shard = [th \in Threads |-> 0] /\ todo = [th \in Threads |-> {}]
  /\ seen = [th \in Threads |-> {}] /\ owed = [th \in Threads |-> {}]
  /\ present = [t \in Tenants |-> {}]

(* A reader may not miss what is there when it starts, except for what is  *)
(* deleted later.                                                          *)
Start(th, c) ==
  /\ pc[th] = "idle"
  /\ call' = [call EXCEPT ![th] = c]
  /\ Goto(th, IF c.kind = "stats" THEN "iterate" ELSE "get")
  /\ owed' = [owed EXCEPT ![th] = CASE c.kind = "query" -> present[c.tenant]
                                    [] c.kind = "stats" -> Known
                                    [] OTHER -> {}]
  /\ UNCHANGED <<lockVars, tenants, tries, arc, shard, todo, seen, present>>

Done(th) ==
  /\ Goto(th, "idle")
  /\ call' = [call EXCEPT ![th] = None]
  /\ arc' = [arc EXCEPT ![th] = 0]

----------------------------------------------------------------------------
(* The tenant map.                                                         *)

(* DashMap::get on a known tenant.  index clones the Arc and lets go of    *)
(* the shard; delete and query keep the guard.                             *)
Get(th) ==
  LET t == call[th].tenant
  IN  /\ pc[th] = "get"
      /\ shardWriter[ShardOn(th)] = None
      /\ tenants[t] # 0
      /\ arc' = [arc EXCEPT ![th] = tenants[t]]
      /\ IF call[th].kind = "index" THEN UNCHANGED shardReaders
                                    ELSE TakeShard(ShardOn(th), th)
      /\ Goto(th, IF call[th].kind = "query" THEN "read" ELSE "write")
      /\ UNCHANGED <<shardWriter, tenants, tries, call, readerVars, present>>

(* On an unknown one query finds nothing and delete answers NotFound.      *)
GetNothing(th) ==
  /\ pc[th] = "get"
  /\ shardWriter[ShardOn(th)] = None
  /\ tenants[call[th].tenant] = 0
  /\ IF call[th].kind = "index"
     THEN Goto(th, "entry") /\ UNCHANGED <<call, arc>>
     ELSE Done(th)
  /\ UNCHANGED <<lockVars, tenants, tries, readerVars, present>>

(* tenant_or_create looks again, with the shard to itself.                 *)
Entry(th) ==
  /\ pc[th] = "entry"
  /\ shardWriter[ShardOn(th)] = None
  /\ shardReaders[ShardOn(th)] = {}
  /\ shardWriter' = [shardWriter EXCEPT ![ShardOn(th)] = th]
  /\ Goto(th, "vacant")
  /\ UNCHANGED <<shardReaders, tenants, tries, call, arc, readerVars, present>>

NewTrie == [terms |-> {}, readers |-> {}, writer |-> None]

OrInsert_Overwrites(th) ==
  LET t == call[th].tenant
  IN  /\ pc[th] = "vacant"
      /\ tries' = Append(tries, NewTrie)
      /\ tenants' = [tenants EXCEPT ![t] = Len(tries')]
      /\ arc' = [arc EXCEPT ![th] = tenants'[t]]
      /\ shardWriter' = [shardWriter EXCEPT ![ShardOn(th)] = None]
      /\ Goto(th, "write")
      /\ UNCHANGED <<shardReaders, call, readerVars, present>>

(* or_insert_with: whoever came first has made the trie.                   *)
OrInsert(th) ==
  LET t == call[th].tenant
  IN  /\ pc[th] = "vacant"
      /\ IF tenants[t] = 0
         THEN /\ tries' = Append(tries, NewTrie)
              /\ tenants' = [tenants EXCEPT ![t] = Len(tries')]
         ELSE UNCHANGED <<tries, tenants>>
      /\ arc' = [arc EXCEPT ![th] = tenants'[t]]
      /\ shardWriter' = [shardWriter EXCEPT ![ShardOn(th)] = None]
      /\ Goto(th, "write")
      /\ UNCHANGED <<shardReaders, call, readerVars, present>>

----------------------------------------------------------------------------
(* A trie's lock.                                                          *)

(* RwLock::write, first half: take the writer's place.                     *)
Announce(th) ==
  /\ pc[th] = "write"
  /\ tries[arc[th]].writer = None
  /\ tries' = [tries EXCEPT ![arc[th]].writer = th]
  /\ Goto(th, "drain")
  /\ UNCHANGED <<lockVars, tenants, call, arc, readerVars, present>>

Change_DropsEmptyTenant(th) ==
  LET t == call[th].tenant
      left == tries[arc[th]].terms \ {call[th].term}
  IN  /\ pc[th] = "drain"
      /\ tries[arc[th]].readers = {}
      /\ call[th].kind = "delete" /\ left = {}
      /\ tries' = [tries EXCEPT ![arc[th]].terms = left, ![arc[th]].writer = None]
      /\ present' = [present EXCEPT ![t] = @ \ {call[th].term}]
      /\ Goto(th, "entry")
      /\ UNCHANGED <<lockVars, tenants, call, arc, readerVars>>

(* insert or remove, as far as which terms are stored.                     *)
After(c, terms) ==
  IF c.kind = "index" THEN terms \cup {c.term} ELSE terms \ {c.term}

(* Second half: the readers are out.  insert or remove, and let go of the  *)
(* trie, and after a delete of the shard.                                  *)
Change(th) ==
  LET c == call[th]
  IN  /\ pc[th] = "drain"
      /\ tries[arc[th]].readers = {}
      /\ tries' = [tries EXCEPT ![arc[th]] = [terms |-> After(c, @.terms),
                                             readers |-> {},
                                             writer |-> None]]
      /\ present' = [present EXCEPT ![c.tenant] = After(c, @)]
      /\ owed' = IF c.kind = "index" THEN owed
                 ELSE [r \in Threads |->
                         IF call[r] # None /\ call[r].tenant = c.tenant
                         THEN owed[r] \ {c.term}
                         ELSE owed[r]]
      /\ LeaveShards(th)
      /\ Done(th)
      /\ UNCHANGED <<shardWriter, tenants, shard, todo, seen>>

Read_Recursive(th) ==
  /\ pc[th] = "read"
  /\ tries' = [tries EXCEPT ![arc[th]].readers = @ \cup {th}]
  /\ Goto(th, "search")
  /\ UNCHANGED <<lockVars, tenants, call, arc, readerVars, present>>

(* RwLock::read: nobody is in the writer's place.                          *)
Read(th) ==
  /\ pc[th] = "read"
  /\ tries[arc[th]].writer = None
  /\ tries' = [tries EXCEPT ![arc[th]].readers = @ \cup {th}]
  /\ Goto(th, "search")
  /\ UNCHANGED <<lockVars, tenants, call, arc, readerVars, present>>

Search_KeepsReadGuard(th) ==
  /\ pc[th] = "search"
  /\ call[th].kind = "query"
  /\ LeaveShards(th)
  /\ Done(th)
  /\ UNCHANGED <<shardWriter, tenants, tries, readerVars, present>>

(* A query has searched: it lets go of the trie and of the shard.          *)
Search(th) ==
  /\ pc[th] = "search"
  /\ call[th].kind = "query"
  /\ tries' = [tries EXCEPT ![arc[th]].readers = @ \ {th}]
  /\ LeaveShards(th)
  /\ Done(th)
  /\ UNCHANGED <<shardWriter, tenants, readerVars, present>>

----------------------------------------------------------------------------
(* stats: DashMap's iterator, shard after shard.  It has the guard of the  *)
(* next shard before it lets go of the last one's.                         *)

NextShard(th) ==
  /\ pc[th] = "iterate" /\ todo[th] = {} /\ shard[th] < NShards
  /\ shardWriter[shard[th] + 1] = None
  /\ shard' = [shard EXCEPT ![th] = @ + 1]
  /\ todo' = [todo EXCEPT ![th] = {t \in Known : ShardOf[t] = shard[th] + 1}]
  /\ shardReaders' = [s \in 1..NShards |-> IF s = shard[th] + 1
                                           THEN shardReaders[s] \cup {th}
                                           ELSE shardReaders[s] \ {th}]
  /\ UNCHANGED <<shardWriter, tenants, tries, pc, call, arc, seen, owed, present>>

NextTenant_SkipsBusy(th, t) ==
  /\ pc[th] = "iterate" /\ t \in todo[th]
  /\ tries[tenants[t]].writer # None
  /\ todo' = [todo EXCEPT ![th] = @ \ {t}]
  /\ UNCHANGED <<lockVars, tenants, tries, pc, call, arc, shard, seen, owed, present>>

(* A tenant of the shard, in the order of the HashMap.                     *)
NextTenant(th, t) ==
  /\ pc[th] = "iterate" /\ t \in todo[th]
  /\ todo' = [todo EXCEPT ![th] = @ \ {t}]
  /\ seen' = [seen EXCEPT ![th] = @ \cup {t}]
  /\ arc' = [arc EXCEPT ![th] = tenants[t]]
  /\ Goto(th, "read")
  /\ UNCHANGED <<lockVars, tenants, tries, call, shard, owed, present>>

(* Its trie's shape is read; the iterator goes on.                         *)
Counted(th) ==
  /\ pc[th] = "search"
  /\ call[th].kind = "stats"
  /\ tries' = [tries EXCEPT ![arc[th]].readers = @ \ {th}]
  /\ arc' = [arc EXCEPT ![th] = 0]
  /\ Goto(th, "iterate")
  /\ UNCHANGED <<lockVars, tenants, call, readerVars, present>>

Listed(th) ==
  /\ pc[th] = "iterate" /\ todo[th] = {} /\ shard[th] = NShards
  /\ LeaveShards(th)
  /\ shard' = [shard EXCEPT ![th] = 0]
  /\ seen' = [seen EXCEPT ![th] = {}]
  /\ Done(th)
  /\ UNCHANGED <<shardWriter, tenants, tries, todo, owed, present>>

----------------------------------------------------------------------------

Step(th) ==
  \/ Get(th) \/ GetNothing(th) \/ Entry(th) \/ OrInsert(th)
  \/ Announce(th) \/ Change(th) \/ Read(th) \/ Search(th)
  \/ NextShard(th) \/ (\E t \in Tenants : NextTenant(th, t)) \/ Counted(th) \/ Listed(th)

Next == \E th \in Threads : Step(th) \/ \E c \in Calls[th] : Start(th, c)

Spec == Init /\ [][Next]_vars

(* The scheduler runs every thread.  A lock that is free again and again   *)
(* is got in the end (parking_lot calls itself eventually fair).  DashMap's*)
(* writer has no such promise: readers may keep a shard from entry for ever*)
Fairness == \A th \in Threads :
  WF_vars(Step(th)) /\ SF_vars(Announce(th)) /\ SF_vars(Read(th))

FairSpec == Spec /\ Fairness

----------------------------------------------------------------------------
(* Safety.                                                                 *)

HoldsShard(th, s) ==
  /\ call[th] # None
  /\ CASE call[th].kind = "delete" -> pc[th] \in {"write", "drain"} /\ ShardOn(th) = s
       [] call[th].kind = "query" -> pc[th] \in {"read", "search"} /\ ShardOn(th) = s
       [] call[th].kind = "stats" -> shard[th] = s
       [] OTHER -> FALSE

(* Types, and who holds what: a guard is held from where the code takes it *)
(* to where it is dropped, and nobody is with the writer of a shard.       *)
LocksTypeOK ==
  /\ pc \in [Threads -> Steps]
  /\ tenants \in [Tenants -> 0..Len(tries)] /\ arc \in [Threads -> 0..Len(tries)]
  /\ \A th \in Threads :
       /\ IF pc[th] = "idle" THEN call[th] = None ELSE call[th] \in Calls[th]
       /\ arc[th] # 0 <=> pc[th] \in {"write", "drain", "read", "search"}
       /\ shard[th] \in 0..NShards /\ todo[th] \cup seen[th] \subseteq Tenants
  /\ \A s \in 1..NShards :
       /\ shardReaders[s] = {th \in Threads : HoldsShard(th, s)}
       /\ \A th \in Threads :
            shardWriter[s] = th <=> pc[th] = "vacant" /\ ShardOn(th) = s
       /\ shardWriter[s] # None => shardReaders[s] = {}
  /\ \A i \in 1..Len(tries) :
       /\ tries[i].terms \subseteq Terms
       /\ tries[i].readers = {th \in Threads : pc[th] = "search" /\ arc[th] = i}
       /\ \A th \in Threads :
            tries[i].writer = th <=> pc[th] = "drain" /\ arc[th] = i

(* Two first writes of a tenant end up with the same trie, and nobody is   *)
(* left with one that is out of the map (tenant_or_create).                *)
OneTriePerTenant ==
  \A th \in Threads :
    arc[th] # 0 /\ call[th].kind # "stats" => arc[th] = tenants[call[th].tenant]

(* A term is visible to reads immediately (Engine::index): a query finds   *)
(* every term whose index returned before it began, unless it was deleted  *)
(* since, also when the first write of its tenant races another one.       *)
QueriesSeeWrites ==
  \A th \in Threads :
    /\ pc[th] = "search" /\ call[th].kind = "query" => owed[th] \subseteq tries[arc[th]].terms
    /\ pc[th] = "get" /\ tenants[call[th].tenant] = 0 => owed[th] = {}

(* stats lists every tenant that was there when it began, though others    *)
(* are added to the map while it walks the shards (Engine::stats).         *)
StatsListsTenants ==
  [][\A th \in Threads :
       pc[th] = "iterate" /\ pc'[th] = "idle" => owed[th] \subseteq seen[th]]_vars

(* Whom a thread waits for: none of its steps can happen before each of    *)
(* these has gone on.                                                      *)
WaitsFor(th) ==
  (CASE pc[th] = "get" -> {shardWriter[ShardOn(th)]}
     [] pc[th] = "entry" -> {shardWriter[ShardOn(th)]} \cup shardReaders[ShardOn(th)]
     [] pc[th] \in {"write", "read"} -> {tries[arc[th]].writer}
     [] pc[th] = "drain" -> tries[arc[th]].readers
     [] pc[th] = "iterate" /\ todo[th] = {} /\ shard[th] < NShards -> {shardWriter[shard[th] + 1]}
     [] OTHER -> {}) \ {None}

(* Nobody waits for himself, for somebody who waits for him, and so on,    *)
(* over shards and tries: the locks are only ever taken shard first.       *)
NoCircularWait ==
  \A S \in (SUBSET Threads) \ {{}} : \E th \in S : WaitsFor(th) \cap S = {}

----------------------------------------------------------------------------
(* Liveness, under FairSpec.                                               *)

(* Every call on a tenant that exists, and every query and stats, returns, *)
(* whatever other calls there are: readers do not starve a writer of a     *)
(* trie, nor writers a reader.                                             *)
CallsReturn ==
  \A th \in Threads : pc[th] \notin {"idle", "entry"} ~> pc[th] \in {"idle", "entry"}
=============================================================================
