------------------------- MODULE EngineLocksProofs -------------------------
(***************************************************************************)
(* Proofs about EngineLocks for any number of threads, tenants, terms and  *)
(* shards, and any tenants in a shard: who holds which lock, that nobody   *)
(* waits in a circle, that a tenant has one trie, and that reads miss      *)
(* nothing that was there when they began.                                 *)
(***************************************************************************)
EXTENDS EngineLocks, SequenceTheorems, TLAPS

Trie == [terms : SUBSET Terms, readers : SUBSET Threads, writer : Threads \cup {None}]

AllCalls == UNION {Calls[th] : th \in Threads}

(* What every variable may be.                                             *)
Domains ==
  /\ shardReaders \in [1..NShards -> SUBSET Threads]
  /\ shardWriter \in [1..NShards -> Threads \cup {None}]
  /\ tries \in Seq(Trie)
  /\ tenants \in [Tenants -> 0..Len(tries)] /\ arc \in [Threads -> 0..Len(tries)]
  /\ pc \in [Threads -> Steps]
  /\ call \in [Threads -> AllCalls \cup {None}]
  /\ shard \in [Threads -> 0..NShards]
  /\ todo \in [Threads -> SUBSET Tenants] /\ seen \in [Threads -> SUBSET Tenants]
  /\ owed \in [Threads -> SUBSET (Tenants \cup Terms)]
  /\ present \in [Tenants -> SUBSET Terms]

(* The kinds of call that come to a step.                                  *)
KindsAt == [step \in Steps |->
  CASE step = "get" -> {"index", "delete", "query"}
    [] step \in {"entry", "vacant"} -> {"index"}
    [] step \in {"write", "drain"} -> {"index", "delete"}
    [] step \in {"read", "search"} -> {"query", "stats"}
    [] step = "iterate" -> {"stats"}
    [] OTHER -> {}]

AtStep ==
  \A th \in Threads :
    /\ pc[th] = "idle" => call[th] = None
    /\ pc[th] # "idle" => call[th] \in Calls[th] /\ call[th].kind \in KindsAt[pc[th]]
    /\ arc[th] # 0 <=> pc[th] \in {"write", "drain", "read", "search"}

ShardGuards ==
  \A s \in 1..NShards :
    /\ shardReaders[s] = {th \in Threads : HoldsShard(th, s)}
    /\ \A th \in Threads : shardWriter[s] = th <=> pc[th] = "vacant" /\ ShardOn(th) = s
    /\ shardWriter[s] # None => shardReaders[s] = {}

TrieGuards ==
  \A i \in 1..Len(tries) :
    /\ tries[i].readers = {th \in Threads : pc[th] = "search" /\ arc[th] = i}
    /\ \A th \in Threads : tries[i].writer = th <=> pc[th] = "drain" /\ arc[th] = i

(* Where a walk of stats is, and that only stats walks: what it owes is    *)
(* listed, or still to come in this shard or a later one.                  *)
Walk(th) ==
  IF pc[th] # "idle" /\ call[th].kind = "stats"
  THEN /\ \A t \in todo[th] : tenants[t] # 0
       /\ \A t \in owed[th] : t \in Tenants /\ tenants[t] # 0
       /\ \A t \in owed[th] :
            ShardOf[t] <= shard[th] => t \in seen[th] \cup todo[th]
  ELSE shard[th] = 0 /\ todo[th] = {} /\ seen[th] = {}

Walks == \A th \in Threads : Walk(th)

(* No trie has two tenants.                                                *)
TriesApart ==
  \A t, u \in Tenants : tenants[t] = tenants[u] /\ tenants[t] # 0 => t = u

(* What answered calls have left is what the tenant's trie holds, and a    *)
(* query owes no more than that.                                           *)
Visible ==
  /\ \A t \in Tenants :
       present[t] = IF tenants[t] = 0 THEN {} ELSE tries[tenants[t]].terms
  /\ \A th \in Threads :
       /\ pc[th] # "idle" /\ call[th].kind = "query" => owed[th] \subseteq present[call[th].tenant]
       /\ pc[th] # "idle" /\ call[th].kind \in {"index", "delete"} => owed[th] = {}

IInv ==
  Domains /\ AtStep /\ ShardGuards /\ TrieGuards /\ Walks
    /\ OneTriePerTenant /\ TriesApart /\ Visible

----------------------------------------------------------------------------
(* What the steps do to the tries.                                         *)

(* Trie i gets these terms, readers and writer, and the others stay.       *)
Becomes(i, terms, readers, writer) ==
  /\ tries' \in Seq(Trie) /\ Len(tries') = Len(tries)
  /\ tries'[i].terms = terms /\ tries'[i].readers = readers /\ tries'[i].writer = writer
  /\ \A j \in 1..Len(tries) : j # i => tries'[j] = tries[j]

LEMMA TrieUpdate ==
  ASSUME tries \in Seq(Trie), NEW i \in 1..Len(tries),
         NEW terms \in SUBSET Terms, NEW readers \in SUBSET Threads,
         NEW writer \in Threads \cup {None},
         tries' = [tries EXCEPT ![i] = [terms |-> terms, readers |-> readers, writer |-> writer]]
  PROVE  Becomes(i, terms, readers, writer)
<1> DEFINE r == [terms |-> terms, readers |-> readers, writer |-> writer]
<1>1. r \in Trie /\ r.terms = terms /\ r.readers = readers /\ r.writer = writer
  BY DEF Trie
<1> HIDE DEF r
<1>2. /\ tries' \in Seq(Trie) /\ Len(tries') = Len(tries)
      /\ \A j \in 1..Len(tries) : tries'[j] = IF j = i THEN r ELSE tries[j]
  BY <1>1, ExceptSeq DEF r
<1> QED
  BY <1>1, <1>2 DEF Becomes

LEMMA TrieRecord ==
  ASSUME NEW r \in Trie, NEW readers, NEW writer
  PROVE  /\ [r EXCEPT !.writer = writer]
              = [terms |-> r.terms, readers |-> r.readers, writer |-> writer]
         /\ [r EXCEPT !.readers = readers]
              = [terms |-> r.terms, readers |-> readers, writer |-> r.writer]
<1>2. [r EXCEPT !.writer = writer]
        = [terms |-> r.terms, readers |-> r.readers, writer |-> writer]
  BY DEF Trie
<1>3. [r EXCEPT !.readers = readers]
        = [terms |-> r.terms, readers |-> readers, writer |-> r.writer]
  BY DEF Trie
<1> QED
  BY <1>2, <1>3

(* A thread at a trie is at one that exists.                               *)
LEMMA AtTrie ==
  ASSUME Domains, AtStep, NEW th \in Threads,
         pc[th] \in {"write", "drain", "read", "search"}
  PROVE  /\ arc[th] \in 1..Len(tries)
         /\ tries[arc[th]] \in Trie
         /\ call[th] \in Calls[th] /\ call[th].term \in Terms /\ call[th].tenant \in Tenants
<1>1. arc[th] \in 1..Len(tries) /\ call[th] \in Calls[th]
  BY DEF Domains, AtStep
<1>2. Calls[th] \subseteq [kind : {"index", "delete", "query", "stats"},
                           tenant : Tenants, term : Terms]
  BY LocksAssumption
<1> QED
  BY <1>1, <1>2 DEF Domains

LEMMA TrieEffects ==
  ASSUME Domains, AtStep, NEW th \in Threads
  PROVE  LET i == arc[th] IN
         /\ Announce(th) => Becomes(i, tries[i].terms, tries[i].readers, th)
         /\ Change(th) => Becomes(i, After(call[th], tries[i].terms), {}, None)
         /\ Read(th) => Becomes(i, tries[i].terms, tries[i].readers \cup {th}, tries[i].writer)
         /\ Search(th) \/ Counted(th) =>
              Becomes(i, tries[i].terms, tries[i].readers \ {th}, tries[i].writer)
<1> DEFINE i == arc[th]
<1>0. tries \in Seq(Trie)
  BY DEF Domains
<1>1. ASSUME Announce(th) PROVE Becomes(i, tries[i].terms, tries[i].readers, th)
  <2>1. i \in 1..Len(tries) /\ tries[i] \in Trie
    BY <1>1, AtTrie DEF Announce
  <2>2. tries' = [tries EXCEPT ![i] = [terms |-> tries[i].terms, readers |-> tries[i].readers, writer |-> th]]
    BY <1>1, <2>1, TrieRecord DEF Announce
  <2> QED
    BY <1>0, <2>1, <2>2, TrieUpdate DEF Trie
<1>2. ASSUME Change(th) PROVE Becomes(i, After(call[th], tries[i].terms), {}, None)
  <2>1. i \in 1..Len(tries) /\ tries[i] \in Trie /\ call[th].term \in Terms
    BY <1>2, AtTrie DEF Change
  <2>2. After(call[th], tries[i].terms) \in SUBSET Terms
    BY <2>1 DEF After, Trie
  <2> QED
    BY <1>0, <1>2, <2>1, <2>2, TrieUpdate DEF Change, Trie
<1>3. ASSUME Read(th)
      PROVE  Becomes(i, tries[i].terms, tries[i].readers \cup {th}, tries[i].writer)
  <2>1. i \in 1..Len(tries) /\ tries[i] \in Trie
    BY <1>3, AtTrie DEF Read
  <2>2. tries' = [tries EXCEPT ![i] = [terms |-> tries[i].terms,
                                       readers |-> tries[i].readers \cup {th},
                                       writer |-> tries[i].writer]]
    BY <1>3, <2>1, TrieRecord DEF Read
  <2> QED
    BY <1>0, <2>1, <2>2, TrieUpdate DEF Trie
<1>4. ASSUME Search(th) \/ Counted(th)
      PROVE  Becomes(i, tries[i].terms, tries[i].readers \ {th}, tries[i].writer)
  <2>1. i \in 1..Len(tries) /\ tries[i] \in Trie
    BY <1>4, AtTrie DEF Search, Counted
  <2>2. tries' = [tries EXCEPT ![i] = [terms |-> tries[i].terms,
                                       readers |-> tries[i].readers \ {th},
                                       writer |-> tries[i].writer]]
    BY <1>4, <2>1, TrieRecord DEF Search, Counted
  <2> QED
    BY <1>0, <2>1, <2>2, TrieUpdate DEF Trie
<1> QED
  BY <1>1, <1>2, <1>3, <1>4

(* A first write's trie comes behind the others, and is empty.             *)
LEMMA TrieMade ==
  ASSUME Domains, NEW th \in Threads, OrInsert(th), tenants[call[th].tenant] = 0,
         call[th].tenant \in Tenants
  PROVE  /\ tries' \in Seq(Trie) /\ Len(tries') = Len(tries) + 1
         /\ \A i \in 1..Len(tries) : tries'[i] = tries[i]
         /\ tries'[Len(tries) + 1] = NewTrie
         /\ tenants' = [tenants EXCEPT ![call[th].tenant] = Len(tries) + 1]
         /\ arc' = [arc EXCEPT ![th] = Len(tries) + 1]
<1>1. NewTrie \in Trie
  BY DEF NewTrie, Trie
<1>2. tries' = Append(tries, NewTrie) /\ tries \in Seq(Trie)
  BY DEF OrInsert, Domains
<1>3. /\ tries' \in Seq(Trie) /\ Len(tries') = Len(tries) + 1
      /\ \A i \in 1..Len(tries) : tries'[i] = tries[i]
      /\ tries'[Len(tries) + 1] = NewTrie
  BY <1>1, <1>2, AppendProperties
<1> QED
  BY <1>3 DEF OrInsert, Domains

----------------------------------------------------------------------------
(* Types.                                                                  *)

LEMMA CallType ==
  ASSUME AtStep, NEW th \in Threads, pc[th] # "idle"
  PROVE  /\ call[th] \in Calls[th] /\ call[th] # None
         /\ call[th].kind \in {"index", "delete", "query", "stats"}
         /\ call[th].term \in Terms /\ call[th].tenant \in Tenants
         /\ ShardOn(th) \in 1..NShards
<1>1. call[th] \in Calls[th]
  BY DEF AtStep
<1>2. Calls[th] \subseteq [kind : {"index", "delete", "query", "stats"},
                           tenant : Tenants, term : Terms]
  BY LocksAssumption
<1> QED
  BY <1>1, <1>2, LocksAssumption DEF ShardOn

(* Which calls a thread's step belongs to.                                 *)
LEMMA KindOfStep ==
  ASSUME Domains, AtStep, Walks, NEW th \in Threads
  PROVE  /\ pc[th] = "get" => call[th].kind \in {"index", "delete", "query"} /\ shard[th] = 0
         /\ pc[th] \in {"entry", "vacant"} => call[th].kind = "index" /\ shard[th] = 0
         /\ pc[th] \in {"write", "drain"} =>
              call[th].kind \in {"index", "delete"} /\ shard[th] = 0
         /\ pc[th] \in {"read", "search"} => call[th].kind \in {"query", "stats"}
         /\ pc[th] \in {"read", "search"} /\ call[th].kind = "query" => shard[th] = 0
         /\ pc[th] = "iterate" => call[th].kind = "stats"
         /\ pc[th] = "idle" => call[th] = None /\ shard[th] = 0
BY DEF Domains, AtStep, KindsAt, Steps, Walks, Walk

LEMMA DomainsInit ==
  Init => Domains
<1> SUFFICES ASSUME Init PROVE Domains
  OBVIOUS
<1>1. tries \in Seq(Trie) /\ Len(tries) = 0
  BY DEF Init
<1>2. NShards \in Nat \ {0}
  BY LocksAssumption
<1> QED
  BY <1>1, <1>2 DEF Init, Domains, Steps

(* The end of a call, and of every guard on a shard.                       *)
LEMMA DoneType ==
  ASSUME Domains, NEW th \in Threads
  PROVE  /\ Done(th) => /\ pc' \in [Threads -> Steps]
                        /\ call' \in [Threads -> AllCalls \cup {None}]
                        /\ arc' \in [Threads -> 0..Len(tries)]
         /\ LeaveShards(th) => shardReaders' \in [1..NShards -> SUBSET Threads]
<1>1. ASSUME Done(th)
      PROVE  /\ pc' \in [Threads -> Steps]
             /\ call' \in [Threads -> AllCalls \cup {None}]
             /\ arc' \in [Threads -> 0..Len(tries)]
  <2>1. pc' = [pc EXCEPT ![th] = "idle"] /\ arc' = [arc EXCEPT ![th] = 0]
    BY <1>1 DEF Done, Goto
  <2>2. 0 \in 0..Len(tries)
    BY DEF Domains
  <2> QED
    BY <1>1, <2>1, <2>2 DEF Done, Domains, Steps
<1>2. ASSUME LeaveShards(th) PROVE shardReaders' \in [1..NShards -> SUBSET Threads]
  BY <1>2 DEF LeaveShards, Domains
<1> QED
  BY <1>1, <1>2

LEMMA DomainsStep ==
  ASSUME Domains, AtStep, Walks, NEW th \in Threads,
         Step(th) \/ \E c \in Calls[th] : Start(th, c)
  PROVE  Domains'
<1> USE LocksAssumption
<1>1. ASSUME NEW c \in Calls[th], Start(th, c) PROVE Domains'
  <2>1. call' \in [Threads -> AllCalls \cup {None}]
    BY <1>1 DEF Start, Domains, AllCalls
  <2>2. pc' \in [Threads -> Steps]
    BY <1>1 DEF Start, Domains, Steps, Goto
  <2>3. c.tenant \in Tenants
    OBVIOUS
  <2>4. present[c.tenant] \in SUBSET (Tenants \cup Terms) /\ Known \in SUBSET (Tenants \cup Terms)
    BY <2>3 DEF Domains, Known
  <2>5. owed' \in [Threads -> SUBSET (Tenants \cup Terms)]
    BY <1>1, <2>4 DEF Start, Domains
  <2> QED
    BY <1>1, <2>1, <2>2, <2>5 DEF Start, Domains, lockVars
<1>2. CASE Get(th)
  <2>1. call[th].tenant \in Tenants /\ ShardOn(th) \in 1..NShards
    BY <1>2, CallType DEF Get
  <2> QED
    <3>1. shardReaders' \in [1..NShards -> SUBSET Threads]
      <4>1. CASE call[th].kind = "index"
        BY <1>2, <4>1 DEF Get, Domains
      <4>2. CASE call[th].kind # "index"
        <5>1. shardReaders' = [shardReaders EXCEPT ![ShardOn(th)] = @ \cup {th}]
          BY <1>2, <4>2 DEF Get, TakeShard
        <5> QED
          BY <2>1, <5>1 DEF Domains
      <4> QED
        BY <4>1, <4>2
    <3>2. pc' \in [Threads -> Steps] /\ arc' \in [Threads -> 0..Len(tries)]
      BY <1>2, <2>1 DEF Get, Domains, Steps, Goto
    <3> QED
      BY <1>2, <3>1, <3>2 DEF Get, Domains, readerVars
<1>3. CASE GetNothing(th)
  <2>1. CASE call[th].kind = "index"
    BY <1>3, <2>1 DEF GetNothing, Domains, Steps, Goto, lockVars, readerVars
  <2>2. CASE call[th].kind # "index"
    BY <1>3, <2>2, DoneType DEF GetNothing, Domains, lockVars, readerVars
  <2> QED
    BY <2>1, <2>2
<1>4. CASE Entry(th)
  BY <1>4 DEF Entry, Domains, Steps, Goto, readerVars
<1>5. CASE OrInsert(th)
  <2>1. call[th].tenant \in Tenants /\ ShardOn(th) \in 1..NShards
    BY <1>5, CallType DEF OrInsert
  <2>2. CASE tenants[call[th].tenant] = 0
    <3>1. Len(tries) \in Nat
      BY DEF Domains
    <3> QED
      <4>1. /\ tries' \in Seq(Trie) /\ Len(tries') = Len(tries) + 1
            /\ tenants' = [tenants EXCEPT ![call[th].tenant] = Len(tries) + 1]
            /\ arc' = [arc EXCEPT ![th] = Len(tries) + 1]
        BY <1>5, <2>1, <2>2, TrieMade
      <4>2. tenants' \in [Tenants -> 0..Len(tries')] /\ arc' \in [Threads -> 0..Len(tries')]
        <5>1. Len(tries) + 1 \in 0..Len(tries') /\ 0..Len(tries) \subseteq 0..Len(tries')
          BY <3>1, <4>1
        <5>2. tenants \in [Tenants -> 0..Len(tries')] /\ arc \in [Threads -> 0..Len(tries')]
          BY <5>1 DEF Domains
        <5> QED
          BY <4>1, <5>1, <5>2
      <4>3. pc' \in [Threads -> Steps] /\ shardWriter' \in [1..NShards -> Threads \cup {None}]
        BY <1>5, <2>1 DEF OrInsert, Domains, Steps, Goto
      <4> QED
        BY <1>5, <4>1, <4>2, <4>3 DEF OrInsert, Domains, readerVars
  <2>3. CASE tenants[call[th].tenant] # 0
    BY <1>5, <2>1, <2>3 DEF OrInsert, Domains, Steps, Goto, readerVars
  <2> QED
    BY <2>2, <2>3
<1>6. CASE Announce(th)
  BY <1>6, TrieEffects DEF Announce, Domains, Steps, Goto, readerVars, lockVars, Becomes
<1>7. CASE Change(th)
  <2>1. tries' \in Seq(Trie) /\ Len(tries') = Len(tries)
    BY <1>7, TrieEffects DEF Becomes
  <2>2. call[th].tenant \in Tenants /\ call[th].term \in Terms
    BY <1>7, CallType DEF Change
  <2>3. present' \in [Tenants -> SUBSET Terms]
    BY <1>7, <2>2 DEF Change, Domains, After
  <2>4. owed' \in [Threads -> SUBSET (Tenants \cup Terms)]
    BY <1>7 DEF Change, Domains
  <2> QED
    BY <1>7, <2>1, <2>3, <2>4, DoneType DEF Change, Domains
<1>8. CASE Read(th)
  BY <1>8, TrieEffects DEF Read, Domains, Steps, Goto, readerVars, lockVars, Becomes
<1>9. CASE Search(th)
  BY <1>9, TrieEffects, DoneType DEF Search, Domains, readerVars, Becomes
<1>10. CASE NextShard(th)
  BY <1>10 DEF NextShard, Domains, Known
<1>11. ASSUME NEW t \in Tenants, NextTenant(th, t) PROVE Domains'
  BY <1>11 DEF NextTenant, Domains, Steps, Goto, lockVars
<1>12. CASE Counted(th)
  <2>1. tries' \in Seq(Trie) /\ Len(tries') = Len(tries)
    BY <1>12, TrieEffects DEF Becomes
  <2>2. arc' \in [Threads -> 0..Len(tries)]
    BY <1>12 DEF Counted, Domains
  <2> QED
    BY <1>12, <2>1, <2>2 DEF Counted, Domains, Steps, Goto, readerVars, lockVars
<1>13. CASE Listed(th)
  <2>1. 0 \in 0..NShards
    OBVIOUS
  <2> QED
    BY <1>13, <2>1, DoneType DEF Listed, Domains
<1> QED
  BY <1>1, <1>2, <1>3, <1>4, <1>5, <1>6, <1>7, <1>8, <1>9, <1>10, <1>11, <1>12, <1>13 DEF Step

LEMMA AtStepStep ==
  ASSUME Domains, AtStep, Walks, NEW th \in Threads,
         Step(th) \/ \E c \in Calls[th] : Start(th, c)
  PROVE  AtStep'
<1> USE LocksAssumption DEF Domains, AtStep, KindsAt, Steps
<1>1. ASSUME NEW c \in Calls[th], Start(th, c) PROVE AtStep'
  BY <1>1 DEF Start, Goto
<1>2. CASE Get(th)
  <2>1. call[th].tenant \in Tenants
    BY <1>2, CallType DEF Get
  <2> QED
    BY <1>2, <2>1 DEF Get, Goto
<1>3. CASE GetNothing(th)
  <2>1. CASE call[th].kind = "index"
    BY <1>3, <2>1 DEF GetNothing, Goto
  <2>2. CASE call[th].kind # "index"
    <3>1. /\ pc' = [pc EXCEPT ![th] = "idle"] /\ call' = [call EXCEPT ![th] = None]
          /\ arc' = [arc EXCEPT ![th] = 0]
      BY <1>3, <2>2 DEF GetNothing, Goto, Done
    <3> QED
      BY <3>1
  <2> QED
    BY <2>1, <2>2
<1>4. CASE Entry(th)
  BY <1>4 DEF Entry, Goto
<1>5. CASE OrInsert(th)
  <2>1. call[th].tenant \in Tenants
    BY <1>5, CallType DEF OrInsert
  <2>2. CASE tenants[call[th].tenant] = 0
    BY <1>5, <2>1, <2>2, TrieMade DEF OrInsert, Goto
  <2>3. CASE tenants[call[th].tenant] # 0
    BY <1>5, <2>1, <2>3 DEF OrInsert, Goto
  <2> QED
    BY <2>2, <2>3
<1>6. CASE Announce(th)
  BY <1>6 DEF Announce, Goto
<1>7. CASE Change(th)
  BY <1>7 DEF Change, Goto, Done
<1>8. CASE Read(th)
  BY <1>8 DEF Read, Goto
<1>9. CASE Search(th)
  BY <1>9 DEF Search, Goto, Done
<1>10. CASE NextShard(th)
  BY <1>10 DEF NextShard
<1>11. ASSUME NEW t \in Tenants, NextTenant(th, t) PROVE AtStep'
  <2>1. tenants[t] # 0
    BY <1>11 DEF NextTenant, Walks, Walk
  <2> QED
    BY <1>11, <2>1 DEF NextTenant, Goto
<1>12. CASE Counted(th)
  BY <1>12 DEF Counted, Goto
<1>13. CASE Listed(th)
  BY <1>13 DEF Listed, Goto, Done
<1> QED
  BY <1>1, <1>2, <1>3, <1>4, <1>5, <1>6, <1>7, <1>8, <1>9, <1>10, <1>11, <1>12, <1>13 DEF Step

----------------------------------------------------------------------------
(* Who holds what.                                                         *)

(* A step of one thread moves no other.                                    *)
LEMMA OthersStay ==
  ASSUME Domains, NEW th \in Threads,
         Step(th) \/ \E c \in Calls[th] : Start(th, c),
         NEW r \in Threads, r # th
  PROVE  /\ pc'[r] = pc[r] /\ call'[r] = call[r] /\ arc'[r] = arc[r]
         /\ shard'[r] = shard[r] /\ todo'[r] = todo[r] /\ seen'[r] = seen[r]
<1> USE DEF Domains, Goto, Done, readerVars
<1>1. CASE \E c \in Calls[th] : Start(th, c)
  BY <1>1 DEF Start
<1>2. CASE Get(th) \/ Entry(th) \/ OrInsert(th)
  BY <1>2 DEF Get, Entry, OrInsert
<1>3. CASE GetNothing(th)
  BY <1>3 DEF GetNothing
<1>4. CASE Announce(th) \/ Change(th)
  BY <1>4 DEF Announce, Change
<1>5. CASE Read(th) \/ Search(th)
  BY <1>5 DEF Read, Search
<1>6. CASE NextShard(th) \/ \E t \in Tenants : NextTenant(th, t)
  BY <1>6 DEF NextShard, NextTenant
<1>7. CASE Counted(th) \/ Listed(th)
  BY <1>7 DEF Counted, Listed
<1> QED
  BY <1>1, <1>2, <1>3, <1>4, <1>5, <1>6, <1>7 DEF Step

(* Shards are held rightly after a step if they are by the thread that     *)
(* made it, and the others' guards are left alone.                         *)
LEMMA ShardFrame ==
  ASSUME Domains, ShardGuards, Domains', NEW th \in Threads,
         \A r \in Threads : r # th => pc'[r] = pc[r] /\ call'[r] = call[r] /\ shard'[r] = shard[r],
         \A s \in 1..NShards :
           /\ shardReaders'[s] \ {th} = shardReaders[s] \ {th}
           /\ th \in shardReaders'[s] <=> HoldsShard(th, s)'
           /\ \A r \in Threads : r # th => (shardWriter'[s] = r <=> shardWriter[s] = r)
           /\ shardWriter'[s] = th <=> pc'[th] = "vacant" /\ ShardOn(th)' = s
           /\ shardWriter'[s] # None => shardReaders'[s] = {}
  PROVE  ShardGuards'
<1> SUFFICES ASSUME NEW s \in 1..NShards
             PROVE  /\ shardReaders'[s] = {r \in Threads : HoldsShard(r, s)'}
                    /\ \A r \in Threads : shardWriter'[s] = r <=> pc'[r] = "vacant" /\ ShardOn(r)' = s
  BY DEF ShardGuards
<1>1. ASSUME NEW r \in Threads, r # th
      PROVE  (HoldsShard(r, s)' <=> HoldsShard(r, s)) /\ ShardOn(r)' = ShardOn(r)
  BY <1>1 DEF HoldsShard, ShardOn
<1>2. shardReaders[s] = {r \in Threads : HoldsShard(r, s)}
  BY DEF ShardGuards
<1>3. shardReaders'[s] \subseteq Threads
  BY DEF Domains
<1>4. ASSUME NEW r \in Threads PROVE r \in shardReaders'[s] <=> HoldsShard(r, s)'
  <2>1. CASE r = th
    BY <2>1
  <2>2. CASE r # th
    BY <1>1, <1>2, <2>2
  <2> QED
    BY <2>1, <2>2
<1>5. ASSUME NEW r \in Threads
      PROVE  shardWriter'[s] = r <=> pc'[r] = "vacant" /\ ShardOn(r)' = s
  <2>1. CASE r = th
    BY <2>1
  <2>2. CASE r # th
    <3>1. shardWriter[s] = r <=> pc[r] = "vacant" /\ ShardOn(r) = s
      BY DEF ShardGuards
    <3> QED
      BY <1>1, <2>2, <3>1
  <2> QED
    BY <2>1, <2>2
<1> QED
  BY <1>3, <1>4, <1>5

----------------------------------------------------------------------------
(* Walks of stats.                                                         *)

(* A tenant keeps its trie, and no step adds to what others owe.           *)
LEMMA TenantsStay ==
  ASSUME Domains, AtStep, NEW th \in Threads,
         Step(th) \/ \E c \in Calls[th] : Start(th, c)
  PROVE  /\ \A t \in Tenants : tenants[t] # 0 => tenants'[t] = tenants[t]
         /\ \A r \in Threads : r # th => owed'[r] \subseteq owed[r]
<1> USE DEF readerVars, Domains
<1>1. CASE \E c \in Calls[th] : Start(th, c)
  BY <1>1 DEF Start
<1>2. CASE Get(th) \/ GetNothing(th) \/ Entry(th)
  BY <1>2 DEF Get, GetNothing, Entry
<1>3. CASE OrInsert(th)
  <2>1. call[th].tenant \in Tenants
    BY <1>3, CallType DEF OrInsert
  <2> QED
    BY <1>3, <2>1 DEF OrInsert
<1>4. CASE Announce(th)
  BY <1>4 DEF Announce
<1>8. CASE Change(th)
  <2>1. tenants' = tenants
    BY <1>8 DEF Change
  <2>2. \A r \in Threads : owed'[r] \subseteq owed[r]
    BY <1>8 DEF Change
  <2> QED
    BY <2>1, <2>2
<1>5. CASE Read(th) \/ Search(th)
  BY <1>5 DEF Read, Search
<1>6. CASE NextShard(th) \/ \E t \in Tenants : NextTenant(th, t)
  BY <1>6 DEF NextShard, NextTenant
<1>7. CASE Counted(th) \/ Listed(th)
  BY <1>7 DEF Counted, Listed
<1> QED
  BY <1>1, <1>2, <1>3, <1>4, <1>5, <1>6, <1>7, <1>8 DEF Step

LEMMA WalksStep ==
  ASSUME Domains, AtStep, Walks, NEW th \in Threads,
         Step(th) \/ \E c \in Calls[th] : Start(th, c)
  PROVE  Walks'
<1>1. ASSUME NEW r \in Threads, r # th PROVE Walk(r)'
  <2>1. /\ pc'[r] = pc[r] /\ call'[r] = call[r]
        /\ shard'[r] = shard[r] /\ todo'[r] = todo[r] /\ seen'[r] = seen[r]
    BY <1>1, OthersStay
  <2>2. /\ \A t \in Tenants : tenants[t] # 0 => tenants'[t] # 0
        /\ owed'[r] \subseteq owed[r]
    BY <1>1, TenantsStay
  <2>3. Walk(r) /\ todo[r] \subseteq Tenants
    BY DEF Walks, Domains
  <2> QED
    BY <2>1, <2>2, <2>3 DEF Walk
<1>2. Walk(th)'
  <2>0. Walk(th)
    BY DEF Walks
  <2> USE DEF readerVars, Goto, Done, Domains, Walk
  <2>1. ASSUME NEW c \in Calls[th], Start(th, c) PROVE Walk(th)'
    <3>1. pc[th] = "idle" /\ shard[th] = 0 /\ todo[th] = {}
      BY <2>0, <2>1 DEF Start
    <3>2. /\ pc'[th] # "idle" /\ call'[th] = c
          /\ shard'[th] = 0 /\ todo'[th] = todo[th] /\ seen'[th] = seen[th]
          /\ tenants' = tenants
      BY <2>1, <3>1 DEF Start
    <3>3. CASE c.kind = "stats"
      <4>1. owed'[th] = Known
        BY <2>1, <3>3 DEF Start
      <4>2. \A t \in Known : t \in Tenants /\ tenants[t] # 0 /\ ~(ShardOf[t] <= 0)
        BY LocksAssumption DEF Known
      <4> QED
        BY <3>1, <3>2, <3>3, <4>1, <4>2
    <3>4. CASE c.kind # "stats"
      BY <2>0, <3>1, <3>2, <3>4
    <3> QED
      BY <3>3, <3>4
  <2>2. CASE Get(th) \/ Entry(th)
    BY <2>0, <2>2 DEF Get, Entry, AtStep, KindsAt, Steps
  <2>3. CASE GetNothing(th)
    <3>1. pc[th] # "idle" /\ call[th].kind # "stats"
      BY <2>3 DEF GetNothing, AtStep, KindsAt, Steps
    <3>2. /\ shard' = shard /\ todo' = todo /\ seen' = seen
          /\ call'[th] = call[th] \/ pc'[th] = "idle"
      BY <2>3 DEF GetNothing
    <3> QED
      BY <2>0, <3>1, <3>2
  <2>4. CASE OrInsert(th)
    BY <2>0, <2>4 DEF OrInsert, AtStep, KindsAt, Steps
  <2>5. CASE Announce(th) \/ Change(th)
    <3>1. pc[th] # "idle" /\ call[th].kind # "stats"
      BY <2>5 DEF Announce, Change, AtStep, KindsAt, Steps
    <3>2. /\ shard' = shard /\ todo' = todo /\ seen' = seen
          /\ call'[th] = call[th] \/ pc'[th] = "idle"
      BY <2>5 DEF Announce, Change
    <3> QED
      BY <2>0, <3>1, <3>2
  <2>6. CASE Read(th)
    BY <2>0, <2>6 DEF Read
  <2>7. CASE Search(th)
    BY <2>0, <2>7 DEF Search
  <2>8. CASE NextShard(th)
    <3>1. /\ pc' = pc /\ call' = call /\ tenants' = tenants /\ owed' = owed /\ seen' = seen
          /\ shard'[th] = shard[th] + 1 /\ todo[th] = {}
          /\ todo'[th] = {t \in Known : ShardOf[t] = shard[th] + 1}
      BY <2>8 DEF NextShard
    <3>2. pc[th] # "idle" /\ call[th].kind = "stats"
      BY <2>8 DEF NextShard, AtStep, KindsAt, Steps
    <3>3. \A t \in Tenants : ShardOf[t] \in Nat
      BY LocksAssumption
    <3> QED
      BY <2>0, <3>1, <3>2, <3>3 DEF Known
  <2>9. ASSUME NEW t \in Tenants, NextTenant(th, t) PROVE Walk(th)'
    BY <2>0, <2>9 DEF NextTenant
  <2>10. CASE Counted(th)
    BY <2>0, <2>10 DEF Counted
  <2>11. CASE Listed(th)
    BY <2>0, <2>11 DEF Listed
  <2> QED
    BY <2>1, <2>2, <2>3, <2>4, <2>5, <2>6, <2>7, <2>8, <2>9, <2>10, <2>11 DEF Step
<1> QED
  BY <1>1, <1>2 DEF Walks

----------------------------------------------------------------------------
(* Shards.                                                                 *)

(* A thread that may hold the shard of its call does so from its second    *)
(* step on, and stats holds the shard it is in.                            *)
Held(th, s) ==
  \/ pc[th] \in {"write", "drain"} /\ call[th].kind = "delete" /\ ShardOn(th) = s
  \/ pc[th] \in {"read", "search"} /\ call[th].kind = "query" /\ ShardOn(th) = s
  \/ shard[th] = s

LEMMA HoldsAfter ==
  ASSUME AtStep', Walks', NEW th \in Threads, NEW s \in 1..NShards
  PROVE  HoldsShard(th, s)' <=> Held(th, s)'
<1>1. CASE pc'[th] = "idle"
  <2>1. call'[th] = None /\ shard'[th] = 0
    BY <1>1 DEF AtStep, Walks, Walk
  <2> QED
    BY <1>1, <2>1 DEF HoldsShard, Held
<1>2. CASE pc'[th] # "idle"
  <2>1. call'[th] \in Calls[th] /\ call'[th] # None /\ call'[th].kind \in KindsAt[pc'[th]]
    BY <1>2, LocksAssumption DEF AtStep
  <2>2. call'[th].kind # "stats" => shard'[th] = 0
    BY <1>2 DEF Walks, Walk
  <2>3. call'[th].kind = "stats" => (HoldsShard(th, s)' <=> shard'[th] = s)
    BY <2>1 DEF HoldsShard
  <2>4. call'[th].kind = "stats" => call'[th].kind \notin {"delete", "query"}
    OBVIOUS
  <2>5. call'[th].kind # "stats" => (HoldsShard(th, s)' <=> Held(th, s)')
    BY <2>1, <2>2 DEF HoldsShard, Held
  <2> QED
    BY <2>3, <2>4, <2>5 DEF Held
<1> QED
  BY <1>1, <1>2

LEMMA HoldsBefore ==
  ASSUME AtStep, Walks, ShardGuards, NEW th \in Threads, NEW s \in 1..NShards
  PROVE  th \in shardReaders[s] <=> Held(th, s)
<1>0. th \in shardReaders[s] <=> HoldsShard(th, s)
  BY DEF ShardGuards
<1>1. CASE pc[th] = "idle"
  <2>1. call[th] = None /\ shard[th] = 0
    BY <1>1 DEF AtStep, Walks, Walk
  <2> QED
    BY <1>0, <1>1, <2>1 DEF HoldsShard, Held
<1>2. CASE pc[th] # "idle"
  <2>1. call[th] \in Calls[th] /\ call[th] # None
    BY <1>2, LocksAssumption DEF AtStep
  <2>2. call[th].kind # "stats" => shard[th] = 0
    BY <1>2 DEF Walks, Walk
  <2>3. call[th].kind = "stats" => (HoldsShard(th, s) <=> shard[th] = s)
    BY <2>1 DEF HoldsShard
  <2>4. call[th].kind = "stats" => call[th].kind \notin {"delete", "query"}
    OBVIOUS
  <2>5. call[th].kind # "stats" => (HoldsShard(th, s) <=> Held(th, s))
    BY <2>1, <2>2 DEF HoldsShard, Held
  <2> QED
    BY <1>0, <2>3, <2>4, <2>5 DEF Held
<1> QED
  BY <1>1, <1>2

LEMMA ShardGuardsStep ==
  ASSUME Domains, AtStep, Walks, ShardGuards, Domains', AtStep', Walks', NEW th \in Threads,
         Step(th) \/ \E c \in Calls[th] : Start(th, c)
  PROVE  ShardGuards'
<1> DEFINE Readers(s) == /\ shardReaders'[s] \ {th} = shardReaders[s] \ {th}
                         /\ th \in shardReaders'[s] <=> Held(th, s)'
           Writer(s) ==
             /\ \A r \in Threads : r # th => (shardWriter'[s] = r <=> shardWriter[s] = r)
             /\ shardWriter'[s] = th <=> pc'[th] = "vacant" /\ ShardOn(th)' = s
             /\ shardWriter'[s] # None => shardReaders'[s] = {}
<1> SUFFICES ASSUME NEW s \in 1..NShards PROVE Readers(s) /\ Writer(s)
  <2>1. \A r \in Threads : r # th =>
          pc'[r] = pc[r] /\ call'[r] = call[r] /\ shard'[r] = shard[r]
    BY OthersStay
  <2>2. \A u \in 1..NShards : HoldsShard(th, u)' <=> Held(th, u)'
    BY HoldsAfter
  <2> QED
    BY <2>1, <2>2, ShardFrame
<1>0. /\ th \in shardReaders[s] <=> Held(th, s)
      /\ \A r \in Threads : shardWriter[s] = r <=> pc[r] = "vacant" /\ ShardOn(r) = s
      /\ shardWriter[s] # None => shardReaders[s] = {}
      /\ None \notin Threads
  BY HoldsBefore, LocksAssumption DEF ShardGuards
<1> USE KindOfStep DEF Domains, Goto, Held, ShardOn
<1>1. ASSUME NEW c \in Calls[th], Start(th, c) PROVE Readers(s) /\ Writer(s)
  BY <1>0, <1>1 DEF Start, lockVars
<1>2. CASE Get(th)
  <2>1. /\ pc'[th] = IF call[th].kind = "query" THEN "read" ELSE "write"
        /\ call' = call /\ shard' = shard /\ shardWriter' = shardWriter
    BY <1>2 DEF Get, readerVars
  <2>2. CASE call[th].kind = "index"
    BY <1>0, <1>2, <2>1, <2>2 DEF Get
  <2>3. CASE call[th].kind # "index"
    <3>1. shardReaders'[s] = IF s = ShardOn(th) THEN shardReaders[s] \cup {th} ELSE shardReaders[s]
      BY <1>2, <2>3 DEF Get, TakeShard
    <3>2. Held(th, s)' <=> s = ShardOn(th)
      BY <1>2, <2>1, <2>3 DEF Get
    <3>3. ~Held(th, s)
      BY <1>2 DEF Get
    <3>4. s = ShardOn(th) => shardWriter[s] = None
      BY <1>2 DEF Get
    <3>5. Readers(s)
      BY <1>0, <3>1, <3>2, <3>3
    <3>6. Writer(s)
      BY <1>0, <1>2, <2>1, <3>1, <3>4 DEF Get
    <3> QED
      BY <3>5, <3>6
  <2> QED
    BY <2>2, <2>3
<1>3. CASE GetNothing(th)
  BY <1>0, <1>3 DEF GetNothing, Done, lockVars, readerVars
<1>4. CASE Entry(th)
  BY <1>0, <1>4 DEF Entry, readerVars
<1>5. CASE OrInsert(th)
  <2>1. /\ pc'[th] = "write" /\ pc[th] = "vacant" /\ call' = call /\ shard' = shard
        /\ shardReaders' = shardReaders
        /\ shardWriter' = [shardWriter EXCEPT ![ShardOn(th)] = None]
    BY <1>5 DEF OrInsert, readerVars
  <2>2. call[th].kind = "index" /\ shard[th] = 0
    BY <2>1
  <2>3. shardWriter'[s] = IF s = ShardOn(th) THEN None ELSE shardWriter[s]
    BY <2>1
  <2>4. Readers(s)
    BY <1>0, <2>1, <2>2
  <2>5. Writer(s)
    BY <1>0, <2>1, <2>3
  <2> QED
    BY <2>4, <2>5
<1>6. CASE Announce(th)
  BY <1>0, <1>6 DEF Announce, lockVars, readerVars
<1>7. CASE Change(th)
  <2>1. ~Held(th, s)'
    BY <1>7 DEF Change, Done
  <2>2. shardReaders'[s] = shardReaders[s] \ {th}
    BY <1>7 DEF Change, LeaveShards
  <2>3. pc[th] # "vacant" /\ pc'[th] # "vacant" /\ shardWriter' = shardWriter
    BY <1>7 DEF Change, Done
  <2> QED
    BY <1>0, <2>1, <2>2, <2>3
<1>8. CASE Read(th)
  BY <1>0, <1>8 DEF Read, lockVars, readerVars
<1>9. CASE Search(th)
  <2>1. ~Held(th, s)'
    BY <1>9 DEF Search, Done, readerVars
  <2>2. shardReaders'[s] = shardReaders[s] \ {th}
    BY <1>9 DEF Search, LeaveShards
  <2>3. pc[th] # "vacant" /\ pc'[th] # "vacant" /\ shardWriter' = shardWriter
    BY <1>9 DEF Search, Done
  <2> QED
    BY <1>0, <2>1, <2>2, <2>3
<1>10. CASE NextShard(th)
  BY <1>0, <1>10 DEF NextShard
<1>11. ASSUME NEW t \in Tenants, NextTenant(th, t) PROVE Readers(s) /\ Writer(s)
  <2>1. /\ pc[th] = "iterate" /\ pc'[th] = "read" /\ call' = call /\ shard' = shard
        /\ shardReaders' = shardReaders /\ shardWriter' = shardWriter
    BY <1>11 DEF NextTenant, lockVars
  <2>2. call[th].kind = "stats"
    BY <2>1
  <2> QED
    BY <1>0, <2>1, <2>2
<1>12. CASE Counted(th)
  BY <1>0, <1>12 DEF Counted, lockVars, readerVars
<1>13. CASE Listed(th)
  BY <1>0, <1>13 DEF Listed, LeaveShards, Done
<1> QED
  BY <1>1, <1>2, <1>3, <1>4, <1>5, <1>6, <1>7, <1>8, <1>9, <1>10, <1>11, <1>12, <1>13 DEF Step

----------------------------------------------------------------------------
(* Tries.                                                                  *)

(* At trie i the guards of th are right after a step that moved th only.   *)
TrieFits(i, th) ==
  /\ tries'[i].readers \ {th} = tries[i].readers \ {th}
  /\ th \in tries'[i].readers <=> pc'[th] = "search" /\ arc'[th] = i
  /\ \A r \in Threads : r # th => (tries'[i].writer = r <=> tries[i].writer = r)
  /\ tries'[i].writer = th <=> pc'[th] = "drain" /\ arc'[th] = i

LEMMA TrieFrame ==
  ASSUME Domains, TrieGuards, Domains', NEW th \in Threads, NEW i \in 1..Len(tries),
         \A r \in Threads : r # th => pc'[r] = pc[r] /\ arc'[r] = arc[r],
         i \in 1..Len(tries'), TrieFits(i, th)
  PROVE  /\ tries'[i].readers = {r \in Threads : pc'[r] = "search" /\ arc'[r] = i}
         /\ \A r \in Threads : tries'[i].writer = r <=> pc'[r] = "drain" /\ arc'[r] = i
<1>1. /\ tries[i].readers = {r \in Threads : pc[r] = "search" /\ arc[r] = i}
      /\ \A r \in Threads : tries[i].writer = r <=> pc[r] = "drain" /\ arc[r] = i
  BY DEF TrieGuards
<1>2. tries'[i].readers \subseteq Threads
  <2>1. tries'[i] \in Trie
    BY DEF Domains
  <2> QED
    BY <2>1 DEF Trie
<1>3. ASSUME NEW r \in Threads
      PROVE  /\ r \in tries'[i].readers <=> pc'[r] = "search" /\ arc'[r] = i
             /\ tries'[i].writer = r <=> pc'[r] = "drain" /\ arc'[r] = i
  <2>1. CASE r = th
    BY <2>1 DEF TrieFits
  <2>2. CASE r # th
    BY <1>1, <2>2 DEF TrieFits
  <2> QED
    BY <2>1, <2>2
<1> QED
  BY <1>2, <1>3

LEMMA TrieGuardsStep ==
  ASSUME Domains, AtStep, Walks, TrieGuards, Domains', AtStep', NEW th \in Threads,
         Step(th) \/ \E c \in Calls[th] : Start(th, c)
  PROVE  TrieGuards'
<1> USE DEF Goto
<1>0. \A r \in Threads : r # th => pc'[r] = pc[r] /\ arc'[r] = arc[r]
  BY OthersStay
<1>a. \A i \in 1..Len(tries) :
        /\ tries[i] \in Trie
        /\ th \in tries[i].readers <=> pc[th] = "search" /\ arc[th] = i
        /\ tries[i].writer = th <=> pc[th] = "drain" /\ arc[th] = i
  BY DEF TrieGuards, Domains
<1>b. None \notin Threads
  BY LocksAssumption
<1> DEFINE Fits == /\ Len(tries') = Len(tries)
                   /\ \A i \in 1..Len(tries) : TrieFits(i, th)
<1>c. ASSUME Fits PROVE TrieGuards'
  BY <1>0, <1>c, TrieFrame DEF TrieGuards
<1> HIDE DEF Fits
<1>d. ASSUME tries' = tries, pc[th] \notin {"search", "drain"}, pc'[th] \notin {"search", "drain"}
      PROVE  Fits
  BY <1>a, <1>d DEF Fits, TrieFits
<1>e. ASSUME NEW terms, NEW readers, NEW writer, Becomes(arc[th], terms, readers, writer),
             arc[th] \in 1..Len(tries), TrieFits(arc[th], th),
             pc'[th] \in {"search", "drain"} => arc'[th] = arc[th]
      PROVE  Fits
  <2>1. ASSUME NEW i \in 1..Len(tries), i # arc[th] PROVE TrieFits(i, th)
    BY <1>a, <1>e, <2>1 DEF TrieFits, Becomes
  <2> QED
    BY <1>e, <2>1 DEF Fits, Becomes
<1>1. ASSUME NEW c \in Calls[th], Start(th, c) PROVE Fits
  BY <1>1, <1>d DEF Start, Domains
<1>2. CASE Get(th)
  <2>1. tries' = tries /\ pc[th] \notin {"search", "drain"} /\ pc'[th] \notin {"search", "drain"}
    BY <1>2 DEF Get, Domains
  <2> QED
    BY <1>c, <1>d, <2>1
<1>3. CASE GetNothing(th)
  <2>1. tries' = tries /\ pc[th] \notin {"search", "drain"} /\ pc'[th] \notin {"search", "drain"}
    BY <1>3 DEF GetNothing, Done, Domains
  <2> QED
    BY <1>c, <1>d, <2>1
<1>4. CASE Entry(th)
  <2>1. tries' = tries /\ pc[th] \notin {"search", "drain"} /\ pc'[th] \notin {"search", "drain"}
    BY <1>4 DEF Entry, Domains
  <2> QED
    BY <1>c, <1>d, <2>1
<1>5. ASSUME OrInsert(th) PROVE TrieGuards'
  <2>1. pc[th] = "vacant" /\ pc'[th] = "write"
    BY <1>5 DEF OrInsert, Domains
  <2>2. CASE tenants[call[th].tenant] # 0
    BY <1>5, <1>c, <1>d, <2>1, <2>2 DEF OrInsert
  <2>3. CASE tenants[call[th].tenant] = 0
    <3>1. call[th].tenant \in Tenants
      BY <1>5, CallType DEF OrInsert
    <3>2. /\ Len(tries') = Len(tries) + 1 /\ tries'[Len(tries) + 1] = NewTrie
          /\ \A i \in 1..Len(tries) : tries'[i] = tries[i]
          /\ Len(tries) \in Nat
      BY <1>5, <2>3, <3>1, TrieMade DEF Domains
    <3>3. \A i \in 1..Len(tries) : TrieFits(i, th)
      BY <1>a, <2>1, <3>2 DEF TrieFits
    <3>4. ASSUME NEW i \in 1..Len(tries')
          PROVE  /\ tries'[i].readers = {r \in Threads : pc'[r] = "search" /\ arc'[r] = i}
                 /\ \A r \in Threads : tries'[i].writer = r <=> pc'[r] = "drain" /\ arc'[r] = i
      <4>1. CASE i \in 1..Len(tries)
        BY <1>0, <3>3, <4>1, TrieFrame
      <4>2. CASE i = Len(tries) + 1
        <5>1. \A r \in Threads : pc'[r] \in {"search", "drain"} => arc'[r] # i
          <6>1. ASSUME NEW r \in Threads, r # th PROVE arc'[r] # i
            <7>1. arc[r] \in 0..Len(tries) /\ arc'[r] = arc[r]
              BY <1>0, <6>1 DEF Domains
            <7> QED
              BY <3>2, <4>2, <7>1
          <6> QED
            BY <2>1, <6>1
        <5> QED
          BY <1>b, <3>2, <4>2, <5>1 DEF NewTrie
      <4> QED
        BY <3>2, <4>1, <4>2
    <3> QED
      BY <3>4 DEF TrieGuards
  <2> QED
    BY <2>2, <2>3
<1>6. CASE Announce(th)
  <2>1. /\ pc[th] = "write" /\ pc'[th] = "drain" /\ arc'[th] = arc[th]
        /\ tries[arc[th]].writer = None
    BY <1>6 DEF Announce, Domains
  <2>2. Becomes(arc[th], tries[arc[th]].terms, tries[arc[th]].readers, th)
    BY <1>6, TrieEffects
  <2>3. arc[th] \in 1..Len(tries)
    BY <2>1, AtTrie
  <2>4. TrieFits(arc[th], th)
    BY <1>a, <1>b, <2>1, <2>2, <2>3 DEF TrieFits, Becomes
  <2> QED
    BY <1>c, <1>e, <2>1, <2>2, <2>3, <2>4
<1>7. CASE Change(th)
  <2>1. /\ pc[th] = "drain" /\ pc'[th] = "idle" /\ tries[arc[th]].readers = {}
    BY <1>7 DEF Change, Done, Domains
  <2>2. Becomes(arc[th], After(call[th], tries[arc[th]].terms), {}, None)
    BY <1>7, TrieEffects
  <2>3. arc[th] \in 1..Len(tries)
    BY <2>1, AtTrie
  <2> QED
    <3>1. TrieFits(arc[th], th)
      BY <1>a, <1>b, <2>1, <2>2, <2>3 DEF TrieFits, Becomes
    <3> QED
      BY <1>c, <1>e, <2>1, <2>2, <2>3, <3>1
<1>8. CASE Read(th)
  <2>1. /\ pc[th] = "read" /\ pc'[th] = "search" /\ arc'[th] = arc[th]
    BY <1>8 DEF Read, Domains
  <2>2. Becomes(arc[th], tries[arc[th]].terms, tries[arc[th]].readers \cup {th}, tries[arc[th]].writer)
    BY <1>8, TrieEffects
  <2>3. arc[th] \in 1..Len(tries)
    BY <2>1, AtTrie
  <2>4. TrieFits(arc[th], th)
    BY <1>a, <1>b, <2>1, <2>2, <2>3 DEF TrieFits, Becomes
  <2> QED
    BY <1>c, <1>e, <2>1, <2>2, <2>3, <2>4
<1>9. CASE Search(th) \/ Counted(th)
  <2>1. /\ pc[th] = "search" /\ pc'[th] \in {"idle", "iterate"}
    BY <1>9 DEF Search, Counted, Done, Domains
  <2>2. Becomes(arc[th], tries[arc[th]].terms, tries[arc[th]].readers \ {th}, tries[arc[th]].writer)
    BY <1>9, TrieEffects
  <2>3. arc[th] \in 1..Len(tries)
    BY <2>1, AtTrie
  <2>4. TrieFits(arc[th], th)
    BY <1>a, <1>b, <2>1, <2>2, <2>3 DEF TrieFits, Becomes
  <2> QED
    BY <1>c, <1>e, <2>1, <2>2, <2>3, <2>4
<1>10. CASE NextShard(th)
  <2>1. tries' = tries /\ pc[th] \notin {"search", "drain"} /\ pc'[th] \notin {"search", "drain"}
    BY <1>10 DEF NextShard
  <2> QED
    BY <1>c, <1>d, <2>1
<1>11. ASSUME NEW t \in Tenants, NextTenant(th, t) PROVE Fits
  BY <1>11, <1>d DEF NextTenant, Domains
<1>12. CASE Listed(th)
  <2>1. tries' = tries /\ pc[th] \notin {"search", "drain"} /\ pc'[th] \notin {"search", "drain"}
    BY <1>12 DEF Listed, Done, Domains
  <2> QED
    BY <1>c, <1>d, <2>1
<1> QED
  BY <1>c, <1>1, <1>2, <1>3, <1>4, <1>5, <1>6, <1>7, <1>8, <1>9, <1>10, <1>11, <1>12 DEF Step

----------------------------------------------------------------------------
(* Tenants and their tries.                                                *)

LEMMA OneTrieStep ==
  ASSUME Domains, AtStep, Walks, OneTriePerTenant, NEW th \in Threads,
         Step(th) \/ \E c \in Calls[th] : Start(th, c)
  PROVE  OneTriePerTenant'
<1>1. ASSUME NEW r \in Threads, r # th, arc'[r] # 0, call'[r].kind # "stats"
      PROVE  arc'[r] = tenants'[call'[r].tenant]
  <2>1. arc'[r] = arc[r] /\ call'[r] = call[r]
    BY <1>1, OthersStay
  <2>2. arc[r] = tenants[call[r].tenant] /\ call[r].tenant \in Tenants
    BY <1>1, <2>1, CallType DEF OneTriePerTenant, AtStep
  <2> QED
    BY <1>1, <2>1, <2>2, TenantsStay
<1>2. ASSUME arc'[th] # 0, call'[th].kind # "stats"
      PROVE  arc'[th] = tenants'[call'[th].tenant]
  <2> USE <1>2 DEF Goto, readerVars
  <2>a. ASSUME arc' = arc, call' = call, tenants' = tenants
        PROVE  arc'[th] = tenants'[call'[th].tenant]
    BY <2>a DEF OneTriePerTenant
  <2>b. ASSUME arc'[th] = 0 PROVE FALSE
    BY <2>b
  <2>1. ASSUME NEW c \in Calls[th], Start(th, c) PROVE FALSE
    BY <2>1 DEF Start, AtStep, Domains
  <2>2. CASE Get(th)
    BY <2>2 DEF Get, Domains
  <2>3. CASE GetNothing(th)
    BY <2>3, <2>b DEF GetNothing, Done, Domains, AtStep
  <2>4. CASE Entry(th)
    BY <2>4, <2>a DEF Entry
  <2>5. CASE OrInsert(th)
    BY <2>5 DEF OrInsert, Domains
  <2>6. CASE Announce(th) \/ Read(th)
    BY <2>6, <2>a DEF Announce, Read
  <2>7. CASE Change(th) \/ Search(th) \/ Listed(th)
    BY <2>7, <2>b DEF Change, Search, Listed, Done, Domains
  <2>8. CASE NextShard(th)
    BY <2>8, <2>a DEF NextShard
  <2>9. ASSUME NEW t \in Tenants, NextTenant(th, t) PROVE FALSE
    BY <2>9, KindOfStep DEF NextTenant
  <2>10. CASE Counted(th)
    BY <2>10, <2>b DEF Counted, Domains
  <2> QED
    BY <2>1, <2>2, <2>3, <2>4, <2>5, <2>6, <2>7, <2>8, <2>9, <2>10 DEF Step
<1> QED
  BY <1>1, <1>2 DEF OneTriePerTenant

(* Only a first write touches the map.                                     *)
LEMMA MapStays ==
  ASSUME NEW th \in Threads, Step(th) \/ \E c \in Calls[th] : Start(th, c)
  PROVE  \/ tenants' = tenants
         \/ OrInsert(th) /\ tenants[call[th].tenant] = 0
BY DEF Step, Start, Get, GetNothing, Entry, OrInsert, Announce, Change, Read, Search,
       NextShard, NextTenant, Counted, Listed

LEMMA TriesApartStep ==
  ASSUME Domains, AtStep, TriesApart, NEW th \in Threads,
         Step(th) \/ \E c \in Calls[th] : Start(th, c)
  PROVE  TriesApart'
<1>1. CASE tenants' = tenants
  BY <1>1 DEF TriesApart
<1>2. CASE OrInsert(th) /\ tenants[call[th].tenant] = 0
  <2>1. call[th].tenant \in Tenants
    BY <1>2, CallType DEF OrInsert
  <2>2. tenants' = [tenants EXCEPT ![call[th].tenant] = Len(tries) + 1] /\ Len(tries) \in Nat
    BY <1>2, <2>1, TrieMade DEF Domains
  <2>3. \A t \in Tenants : tenants[t] # Len(tries) + 1
    BY <2>2 DEF Domains
  <2> QED
    BY <2>1, <2>2, <2>3 DEF TriesApart, Domains
<1> QED
  BY <1>1, <1>2, MapStays

----------------------------------------------------------------------------
(* What reads may not miss.                                                *)

(* Where a step leaves the map and the terms of every trie as they were,   *)
(* what is present stays present.                                          *)
LEMMA PresentStep ==
  ASSUME Domains, AtStep, Walks, OneTriePerTenant, TriesApart, Visible, Domains',
         NEW th \in Threads, Step(th) \/ \E c \in Calls[th] : Start(th, c)
  PROVE  \A t \in Tenants :
           present'[t] = IF tenants'[t] = 0 THEN {} ELSE tries'[tenants'[t]].terms
<1> DEFINE Goal == \A t \in Tenants :
                     present'[t] = IF tenants'[t] = 0 THEN {} ELSE tries'[tenants'[t]].terms
<1> SUFFICES Goal
  OBVIOUS
<1> HIDE DEF Goal
<1>0. \A t \in Tenants :
        /\ present[t] = IF tenants[t] = 0 THEN {} ELSE tries[tenants[t]].terms
        /\ tenants[t] # 0 => tenants[t] \in 1..Len(tries)
  BY DEF Visible, Domains
<1>a. ASSUME present' = present, tenants' = tenants,
             \A i \in 1..Len(tries) : tries'[i].terms = tries[i].terms
      PROVE  Goal
  BY <1>0, <1>a DEF Goal
<1>b. ASSUME NEW readers, NEW writer, present' = present, tenants' = tenants,
             Becomes(arc[th], tries[arc[th]].terms, readers, writer)
      PROVE  Goal
  <2>1. \A i \in 1..Len(tries) : tries'[i].terms = tries[i].terms
    BY <1>b DEF Becomes
  <2> QED
    BY <1>a, <1>b, <2>1
<1>1. ASSUME NEW c \in Calls[th], Start(th, c) PROVE Goal
  BY <1>1, <1>a DEF Start
<1>2. CASE Get(th) \/ GetNothing(th) \/ Entry(th) \/ NextShard(th) \/ Listed(th)
  BY <1>2, <1>a DEF Get, GetNothing, Entry, NextShard, Listed
<1>3. CASE OrInsert(th)
  <2>1. call[th].tenant \in Tenants /\ present' = present
    BY <1>3, CallType DEF OrInsert
  <2>2. CASE tenants[call[th].tenant] # 0
    BY <1>3, <1>a, <2>2 DEF OrInsert
  <2>3. CASE tenants[call[th].tenant] = 0
    <3>1. /\ \A i \in 1..Len(tries) : tries'[i] = tries[i]
          /\ tries'[Len(tries) + 1] = NewTrie /\ Len(tries) \in Nat
          /\ tenants' = [tenants EXCEPT ![call[th].tenant] = Len(tries) + 1]
      BY <1>3, <2>1, <2>3, TrieMade DEF Domains
    <3>2. \A t \in Tenants : tenants'[t] =
            IF t = call[th].tenant THEN Len(tries) + 1 ELSE tenants[t]
      BY <3>1 DEF Domains
    <3> QED
      <4>1. ASSUME NEW t \in Tenants
            PROVE  present'[t] = IF tenants'[t] = 0 THEN {} ELSE tries'[tenants'[t]].terms
        <5>1. CASE t = call[th].tenant
          <6>1. tenants'[t] = Len(tries) + 1 /\ tenants'[t] # 0 /\ present'[t] = {}
            BY <1>0, <2>1, <2>3, <3>1, <3>2, <5>1
          <6> QED
            BY <3>1, <6>1 DEF NewTrie
        <5>2. CASE t # call[th].tenant
          BY <1>0, <2>1, <3>1, <3>2, <5>2
        <5> QED
          BY <5>1, <5>2
      <4> QED
        BY <4>1 DEF Goal
  <2> QED
    BY <2>2, <2>3
<1>4. CASE Announce(th)
  BY <1>4, <1>b, TrieEffects DEF Announce
<1>5. CASE Change(th)
  <2> DEFINE u == call[th].tenant
             i == arc[th]
  <2>1. u \in Tenants /\ i \in 1..Len(tries) /\ i = tenants[u]
    BY <1>5, AtTrie, KindOfStep DEF Change, OneTriePerTenant
  <2>2. Becomes(i, After(call[th], tries[i].terms), {}, None)
    BY <1>5, TrieEffects
  <2>3. present' = [present EXCEPT ![u] = After(call[th], present[u])] /\ tenants' = tenants
    BY <1>5 DEF Change
  <2>4. present[u] = tries[i].terms
    BY <1>0, <2>1
  <2>5. \A t \in Tenants : t # u /\ tenants[t] # 0 => tenants[t] # i
    BY <2>1 DEF TriesApart
  <2>6. \A t \in Tenants : present'[t] =
          IF t = u THEN After(call[th], tries[i].terms) ELSE present[t]
    BY <2>1, <2>3, <2>4 DEF Domains
  <2> HIDE DEF u, i
  <2>7. ASSUME NEW t \in Tenants
        PROVE  present'[t] = IF tenants'[t] = 0 THEN {} ELSE tries'[tenants'[t]].terms
    <3>1. CASE t = u
      BY <2>1, <2>2, <2>3, <2>6, <3>1 DEF Becomes
    <3>2. CASE t # u
      BY <1>0, <2>2, <2>3, <2>5, <2>6, <3>2 DEF Becomes
    <3> QED
      BY <3>1, <3>2
  <2> QED
    BY <2>7 DEF Goal
<1>6. CASE Read(th)
  BY <1>6, <1>b, TrieEffects DEF Read
<1>7. CASE Search(th) \/ Counted(th)
  BY <1>7, <1>b, TrieEffects DEF Search, Counted
<1>8. ASSUME NEW t \in Tenants, NextTenant(th, t) PROVE Goal
  BY <1>8, <1>a DEF NextTenant
<1> QED
  BY <1>1, <1>2, <1>3, <1>4, <1>5, <1>6, <1>7, <1>8 DEF Step

LEMMA VisibleStep ==
  ASSUME Domains, AtStep, Walks, OneTriePerTenant, TriesApart, Visible, Domains', AtStep',
         NEW th \in Threads, Step(th) \/ \E c \in Calls[th] : Start(th, c)
  PROVE  Visible'
<1> DEFINE Owes(r) ==
      /\ pc[r] # "idle" /\ call[r].kind = "query" => owed[r] \subseteq present[call[r].tenant]
      /\ pc[r] # "idle" /\ call[r].kind \in {"index", "delete"} => owed[r] = {}
<1>0. \A r \in Threads : Owes(r)
  BY DEF Visible
<1>1. ASSUME NEW r \in Threads, r # th PROVE Owes(r)'
  <2>1. pc'[r] = pc[r] /\ call'[r] = call[r] /\ owed'[r] \subseteq owed[r] /\ Owes(r)
    BY <1>0, <1>1, OthersStay, TenantsStay
  <2>2. CASE present' = present
    BY <2>1, <2>2
  <2>3. CASE Change(th)
    <3> DEFINE u == call[th].tenant
    <3>1. u \in Tenants
      BY <2>3, CallType DEF Change
    <3>2. \A t \in Tenants : present'[t] = IF t = u THEN After(call[th], present[t]) ELSE present[t]
      BY <2>3, <3>1 DEF Change, Domains
    <3>3. ASSUME pc[r] # "idle", call[r].kind = "query"
          PROVE  owed'[r] \subseteq present'[call[r].tenant]
      <4>1. call[r].tenant \in Tenants /\ call[r] # None
        BY <3>3, CallType
      <4>2. CASE call[th].kind = "index"
        BY <2>1, <3>2, <3>3, <4>1, <4>2 DEF After
      <4>3. CASE call[th].kind # "index"
        <5>1. owed'[r] = IF call[r].tenant = u THEN owed[r] \ {call[th].term} ELSE owed[r]
          BY <2>3, <4>1, <4>3 DEF Change
        <5> QED
          BY <2>1, <3>2, <3>3, <4>1, <4>3, <5>1 DEF After
      <4> QED
        BY <4>2, <4>3
    <3> QED
      BY <2>1, <3>3
  <2>4. present' = present \/ Change(th)
    BY DEF Step, Start, Get, GetNothing, Entry, OrInsert, Announce, Read, Search,
           NextShard, NextTenant, Counted, Listed
  <2> QED
    BY <2>2, <2>3, <2>4
<1>2. Owes(th)'
  <2>1. ASSUME NEW c \in Calls[th], Start(th, c) PROVE Owes(th)'
    <3>1. call'[th] = c /\ present' = present
      BY <2>1 DEF Start, Domains
    <3>2. owed'[th] = CASE c.kind = "query" -> present[c.tenant]
                        [] c.kind = "stats" -> Known
                        [] OTHER -> {}
      BY <2>1 DEF Start, Domains
    <3> QED
      BY <3>1, <3>2
  <2>2. CASE Step(th)
    <3>1. pc[th] # "idle" /\ Owes(th)
      BY <1>0, <2>2 DEF Step, Get, GetNothing, Entry, OrInsert, Announce, Change, Read, Search,
           NextShard, NextTenant, Counted, Listed
    <3>2. \/ call'[th] = call[th] /\ owed'[th] = owed[th] /\ present' = present
          \/ pc'[th] = "idle"
      BY <2>2 DEF Step, Get, GetNothing, Entry, OrInsert, Announce, Change, Read, Search,
           NextShard, NextTenant, Counted, Listed, Done, Goto, Domains, readerVars
    <3> QED
      BY <3>1, <3>2
  <2> QED
    BY <2>1, <2>2
<1>3. \A t \in Tenants :
        present'[t] = IF tenants'[t] = 0 THEN {} ELSE tries'[tenants'[t]].terms
  BY PresentStep
<1> QED
  BY <1>1, <1>2, <1>3 DEF Visible

----------------------------------------------------------------------------
(* The invariant.                                                          *)

LEMMA InitInv ==
  Init => IInv
<1> SUFFICES ASSUME Init PROVE IInv
  OBVIOUS
<1>1. Domains
  BY DomainsInit
<1>2. AtStep /\ OneTriePerTenant
  BY DEF Init, AtStep, OneTriePerTenant
<1>3. ShardGuards
  BY LocksAssumption DEF Init, ShardGuards, HoldsShard
<1>4. TrieGuards
  BY DEF Init, TrieGuards
<1>5. Walks /\ TriesApart /\ Visible
  BY DEF Init, Walks, Walk, TriesApart, Visible
<1> QED
  BY <1>1, <1>2, <1>3, <1>4, <1>5 DEF IInv

LEMMA StepInv ==
  IInv /\ [Next]_vars => IInv'
<1> SUFFICES ASSUME IInv, [Next]_vars PROVE IInv'
  OBVIOUS
<1>1. ASSUME NEW th \in Threads, Step(th) \/ \E c \in Calls[th] : Start(th, c)
      PROVE  IInv'
  <2> USE <1>1 DEF IInv
  <2>1. Domains' /\ AtStep' /\ Walks'
    BY DomainsStep, AtStepStep, WalksStep
  <2>2. ShardGuards' /\ TrieGuards'
    BY <2>1, ShardGuardsStep, TrieGuardsStep
  <2>3. OneTriePerTenant' /\ TriesApart' /\ Visible'
    BY <2>1, OneTrieStep, TriesApartStep, VisibleStep
  <2> QED
    BY <2>1, <2>2, <2>3
<1>2. CASE UNCHANGED vars
  BY <1>2 DEF vars, lockVars, readerVars, IInv, Domains, AtStep, ShardGuards, HoldsShard, ShardOn,
              TrieGuards, Walks, Walk, OneTriePerTenant, TriesApart, Visible
<1> QED
  BY <1>1, <1>2 DEF Next

LEMMA Invariance ==
  Spec => []IInv
<1> QED
  BY InitInv, StepInv, PTL DEF Spec

----------------------------------------------------------------------------
(* The properties.                                                         *)

(* A guard is held from where a call takes it to where the code drops it,  *)
(* by nobody else and never beside a writer: the types of EngineLocks.     *)
THEOREM LocksCorrect ==
  Spec => []LocksTypeOK
<1>1. IInv => LocksTypeOK
  <2> SUFFICES ASSUME IInv PROVE LocksTypeOK
    OBVIOUS
  <2>1. /\ pc \in [Threads -> Steps]
        /\ tenants \in [Tenants -> 0..Len(tries)] /\ arc \in [Threads -> 0..Len(tries)]
    BY DEF IInv, Domains
  <2>2. \A th \in Threads :
          /\ IF pc[th] = "idle" THEN call[th] = None ELSE call[th] \in Calls[th]
          /\ arc[th] # 0 <=> pc[th] \in {"write", "drain", "read", "search"}
          /\ shard[th] \in 0..NShards /\ todo[th] \cup seen[th] \subseteq Tenants
    BY DEF IInv, Domains, AtStep
  <2>3. \A i \in 1..Len(tries) : tries[i].terms \subseteq Terms
    <3>1. \A i \in 1..Len(tries) : tries[i] \in Trie
      BY DEF IInv, Domains
    <3> QED
      BY <3>1 DEF Trie
  <2> QED
    BY <2>1, <2>2, <2>3 DEF IInv, ShardGuards, TrieGuards, LocksTypeOK
<1> QED
  BY <1>1, Invariance, PTL

(* Two first writes of a tenant agree on its trie (tenant_or_create).      *)
THEOREM FirstWritesAgree ==
  Spec => []OneTriePerTenant
<1>1. IInv => OneTriePerTenant
  BY DEF IInv
<1> QED
  BY <1>1, Invariance, PTL

(* A query finds what indexes left before it began, except what is deleted *)
(* since: "visible to reads immediately" (Engine::index).                  *)
THEOREM WritesAreVisible ==
  Spec => []QueriesSeeWrites
<1>1. IInv => QueriesSeeWrites
  <2> SUFFICES ASSUME IInv, NEW th \in Threads
               PROVE  /\ pc[th] = "search" /\ call[th].kind = "query" =>
                           owed[th] \subseteq tries[arc[th]].terms
                      /\ pc[th] = "get" /\ tenants[call[th].tenant] = 0 => owed[th] = {}
    BY DEF QueriesSeeWrites
  <2> USE DEF IInv
  <2>1. ASSUME pc[th] = "search", call[th].kind = "query"
        PROVE  owed[th] \subseteq tries[arc[th]].terms
    <3>1. arc[th] \in 1..Len(tries) /\ call[th].tenant \in Tenants
      BY <2>1, AtTrie
    <3>2. arc[th] = tenants[call[th].tenant] /\ arc[th] # 0
      BY <2>1, <3>1 DEF OneTriePerTenant
    <3> QED
      BY <2>1, <3>1, <3>2 DEF Visible
  <2>2. ASSUME pc[th] = "get", tenants[call[th].tenant] = 0
        PROVE  owed[th] = {}
    <3>1. call[th].tenant \in Tenants
      BY <2>2, CallType
    <3>2. present[call[th].tenant] = {}
      BY <2>2, <3>1 DEF Visible
    <3>3. call[th].kind \in {"index", "delete", "query"}
      BY <2>2, KindOfStep
    <3> QED
      BY <2>2, <3>2, <3>3 DEF Visible
  <2> QED
    BY <2>1, <2>2
<1> QED
  BY <1>1, Invariance, PTL

(* The order in which calls take their locks: a thread only ever waits for *)
(* threads of a higher rank.                                               *)
Rank(th) ==
  IF pc[th] \in {"get", "entry"} THEN 0
  ELSE IF pc[th] \in {"iterate", "write", "read"} THEN 1
  ELSE IF pc[th] = "drain" THEN 2 ELSE 3

LEMMA WaitsUpwards ==
  ASSUME IInv, NEW th \in Threads, NEW r \in WaitsFor(th) \cap Threads
  PROVE  Rank(th) < Rank(r)
<1> USE DEF IInv
<1>1. \A s \in 1..NShards : shardWriter[s] = r => Rank(r) = 3
  BY DEF ShardGuards, Rank
<1>2. \A s \in 1..NShards : r \in shardReaders[s] => Rank(r) >= 1
  <2> SUFFICES ASSUME NEW s \in 1..NShards, r \in shardReaders[s] PROVE Rank(r) >= 1
    OBVIOUS
  <2>1. Held(r, s)
    BY HoldsBefore
  <2>2. pc[r] \in Steps /\ pc[r] \notin {"get", "entry"}
    BY <2>1, KindOfStep DEF Held, Domains
  <2> QED
    BY <2>2 DEF Rank
<1>3. CASE pc[th] = "get"
  BY <1>1, <1>3, CallType DEF WaitsFor, Rank
<1>4. CASE pc[th] = "entry"
  BY <1>1, <1>2, <1>4, CallType DEF WaitsFor, Rank
<1>5. CASE pc[th] \in {"write", "read"}
  <2>1. tries[arc[th]].writer = r /\ arc[th] \in 1..Len(tries)
    BY <1>5, AtTrie DEF WaitsFor
  <2>2. pc[r] = "drain"
    BY <2>1 DEF TrieGuards
  <2> QED
    BY <1>5, <2>2 DEF Rank
<1>6. CASE pc[th] = "drain"
  <2>1. r \in tries[arc[th]].readers /\ arc[th] \in 1..Len(tries)
    BY <1>6, AtTrie DEF WaitsFor
  <2>2. pc[r] = "search"
    BY <2>1 DEF TrieGuards
  <2> QED
    BY <1>6, <2>2 DEF Rank
<1>7. CASE pc[th] = "iterate"
  <2>1. shard[th] + 1 \in 1..NShards /\ shardWriter[shard[th] + 1] = r
    BY <1>7, LocksAssumption DEF WaitsFor, Domains
  <2> QED
    BY <1>1, <1>7, <2>1 DEF Rank
<1>8. CASE pc[th] \in {"idle", "vacant", "search"}
  BY <1>8 DEF WaitsFor
<1> QED
  BY <1>3, <1>4, <1>5, <1>6, <1>7, <1>8 DEF Domains, Steps

(* No circle of calls waits for one another's shards and tries, however    *)
(* many threads, tenants and shards there are.                             *)
THEOREM LocksDoNotDeadlock ==
  Spec => []NoCircularWait
<1>1. IInv => NoCircularWait
  <2> SUFFICES ASSUME IInv, NEW S \in SUBSET Threads, S # {}
               PROVE  \E th \in S : WaitsFor(th) \cap S = {}
    BY DEF NoCircularWait
  <2>1. \A th \in S : Rank(th) \in 0..3
    BY DEF Rank
  <2>2. ASSUME NEW n \in 0..3, NEW th \in S, Rank(th) = n,
               \A r \in S : Rank(r) <= n
        PROVE  \E u \in S : WaitsFor(u) \cap S = {}
    <3>1. ASSUME NEW r \in WaitsFor(th) \cap S PROVE FALSE
      <4>1. Rank(th) < Rank(r)
        BY WaitsUpwards
      <4> QED
        BY <2>1, <2>2, <4>1
    <3> QED
      BY <3>1
  <2>3. \E n \in 0..3 : (\E th \in S : Rank(th) = n) /\ (\A r \in S : Rank(r) <= n)
    <3> DEFINE Top(n) == \E th \in S : Rank(th) = n
    <3>1. CASE Top(3)
      BY <2>1, <3>1
    <3>2. CASE ~Top(3) /\ Top(2)
      BY <2>1, <3>2
    <3>3. CASE ~Top(3) /\ ~Top(2) /\ Top(1)
      BY <2>1, <3>3
    <3>4. CASE ~Top(3) /\ ~Top(2) /\ ~Top(1)
      BY <2>1, <3>4
    <3> QED
      BY <3>1, <3>2, <3>3, <3>4
  <2> QED
    BY <2>2, <2>3
<1> QED
  BY <1>1, Invariance, PTL

(* stats misses no tenant that was there when it began (Engine::stats).    *)
THEOREM StatsIsComplete ==
  Spec => StatsListsTenants
<1> DEFINE Complete == \A th \in Threads :
             pc[th] = "iterate" /\ pc'[th] = "idle" => owed[th] \subseteq seen[th]
<1>1. IInv /\ [Next]_vars => [Complete]_vars
  <2> SUFFICES ASSUME IInv, Next, NEW th \in Threads, pc[th] = "iterate", pc'[th] = "idle"
               PROVE  owed[th] \subseteq seen[th]
    OBVIOUS
  <2> USE DEF IInv
  <2>1. Step(th)
    <3>1. PICK r \in Threads : Step(r) \/ \E c \in Calls[r] : Start(r, c)
      BY DEF Next
    <3>2. r = th
      BY <3>1, OthersStay
    <3>3. ASSUME NEW c \in Calls[r], Start(r, c) PROVE FALSE
      BY <3>2, <3>3 DEF Start
    <3> QED
      BY <3>1, <3>2, <3>3
  <2>2. todo[th] = {} /\ shard[th] = NShards
    BY <2>1 DEF Step, Get, GetNothing, Entry, OrInsert, Announce, Change, Read, Search,
                NextShard, NextTenant, Counted, Listed, Goto, Domains
  <2>3. Walk(th) /\ call[th].kind = "stats"
    BY KindOfStep DEF Walks
  <2>4. \A t \in owed[th] : ShardOf[t] \in 1..NShards
    BY <2>3, LocksAssumption DEF Walk
  <2> QED
    BY <2>2, <2>3, <2>4, LocksAssumption DEF Walk
<1> QED
  BY <1>1, Invariance, PTL DEF Spec, StatsListsTenants
=============================================================================
