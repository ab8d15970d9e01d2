------------------------ MODULE SourceHistory_proofs ------------------------
(***************************************************************************)
(* Proofs about SourceHistory, for every length of the ring and of the     *)
(* warm-up, any number of generated frames and of sources: the two GPUs    *)
(* never use a shared image or an output at once, and off Adreno every     *)
(* batch interpolates the two newest sources.                              *)
(*                                                                         *)
(* Newest is the newest source that was copied.  Copies execute in order,  *)
(* so the images follow from it (Images), and so do the copies and posts   *)
(* still queued (Queue).  A batch is tied to Newest from both sides: it    *)
(* waits for its own copy, or that copy is done (Fed), and no later copy   *)
(* is done (Behind), because every copy that is queued behind a batch      *)
(* waits for the batch of the source before its own (Held).  That this is  *)
(* so across presents needs Chained: while batches are left, the next copy *)
(* finds the release of the last one.                                      *)
(*                                                                         *)
(* EpochInv, for the epochs: off Adreno every batch is executed in its     *)
(* turn, so the slots hold the features of the last three sources (Turns), *)
(* and the warm-up counts the sources of an epoch (Warmed).  On Adreno,    *)
(* while the counters name the same image, the scene guard counts them     *)
(* (Guarded), and the first batch of the epoch seeds every slot (Seeded).  *)
(***************************************************************************)
EXTENDS SourceHistory, SequenceTheorems, TLAPS

IsSeq(q) == q \in Seq(OpsOf(q))

Newest    == IF slot[0] > slot[1] THEN slot[0] ELSE slot[1]
LastCopy  == IF pc = "idle" /\ life # "off" THEN frameIdx - 1 ELSE frameIdx
LastBatch == IF pc = "sent" THEN frameIdx ELSE frameIdx - 1

Cycles == [mode : {"none", "warmup", "history", "generate"}, gen : Nat,
           async : BOOLEAN, await : Int, onTimeout : {"throw", "stale"},
           exported : BOOLEAN]

Types ==
    /\ device \in Devices
    /\ life \in {"live", "stale", "off"}
    /\ pc \in {"idle", "copied", "sent"}
    /\ frameIdx \in Nat /\ fgIdx \in Nat
    /\ slot \in [0..1 -> Int]
    /\ release \in [Passes -> Int]
    /\ cycle \in Cycles
    /\ IsSeq(gameQ) /\ IsSeq(fgQ)
    /\ life # "live" => pc = "idle"
    /\ life = "off" => gameQ = <<>> /\ fgQ = <<>>

Ops ==
    /\ \A i \in DOMAIN gameQ : /\ gameQ[i].kind \in {"copy", "post", "fence"}
                               /\ gameQ[i].kind # "fence" => gameQ[i].n \in Nat
    /\ \A i \in DOMAIN fgQ : /\ fgQ[i].kind = "batch"
                             /\ fgQ[i].n \in Nat /\ fgQ[i].src \in Nat

\* The images hold the newest source and the one before.
Images ==
    /\ Newest >= -1 /\ Newest <= LastCopy
    /\ Newest >= 0 => slot[Newest % 2] = Newest
    /\ Newest >= 1 => slot[(Newest + 1) % 2] = Newest - 1

\* What is queued on the game's device, in the order of the sources.
Queue ==
    /\ \A i, j \in DOMAIN gameQ :
          i < j /\ gameQ[i].kind # "fence" /\ gameQ[j].kind # "fence"
             => /\ gameQ[i].n <= gameQ[j].n
                /\ gameQ[j].kind = "copy" => gameQ[i].n < gameQ[j].n
    /\ \A c \in Copies : Newest < c.n /\ c.n <= LastCopy
    /\ life # "off" => \A m \in Newest + 1 .. LastCopy : \E c \in Copies : c.n = m
    /\ \A p \in Posts : Newest <= p.n /\ p.n < frameIdx

\* The batches, in the order of the sources.
InOrder ==
    \A i, j \in DOMAIN fgQ : i < j => fgQ[i].src < fgQ[j].src /\ fgQ[i].n < fgQ[j].n

Fed ==
    \A b \in Batches : b.waits = {<<"copy", b.src>>} \/ b.src <= Newest

Behind ==
    \A b \in Batches :
        /\ Newest <= b.src /\ b.src <= LastBatch /\ b.n < fgIdx
        /\ pc = "sent" /\ b.src = frameIdx => b.n = fgIdx - 1
        /\ device = "generic" => b.n = b.src /\ (b.gen > 0 => b.src >= 1)

Held ==
    \A c \in Copies, b \in Batches :
        b.src < c.n => /\ <<"batch", c.n - 1>> \in c.waits
                       /\ \E a \in Batches : a.src = c.n - 1 /\ a.n = c.n - 1

\* A generated copy waits for the batch of its source.
Fetched ==
    \A p \in Posts, b \in Batches : b.src = p.n => <<"batch", b.n>> \in p.waits

Chained ==
    /\ device = "generic" /\ life = "live" /\ Batches # {} =>
          /\ pc = "idle" =>
                /\ frameIdx > 0 /\ release[(frameIdx - 1) % Ring] = frameIdx - 1
                /\ \E a \in Batches : a.src = frameIdx - 1
          /\ pc = "sent" => \E a \in Batches : a.src = frameIdx
    /\ device = "adreno" =>
          \A b \in Batches : (pc = "sent" \/ life = "stale") /\ b.src = LastCopy

\* The counters, and what the present under way has decided.
Lockstep ==
    device = "generic" /\ life = "live" =>
        fgIdx = IF pc = "sent" THEN frameIdx + 1 ELSE frameIdx

Decided ==
    /\ pc = "copied" => ~cycle.exported /\ cycle.await = None
    /\ pc = "copied" /\ device = "generic" =>
          /\ cycle.mode # "warmup"
          /\ frameIdx = 0 => cycle.mode # "generate"
    /\ pc = "idle" /\ device = "generic" /\ life = "live" /\ frameIdx = 0 => warmup > 0
    /\ pc = "sent" =>
          /\ fgIdx >= 1
          /\ \/ /\ device = "generic" /\ cycle.exported /\ cycle.await = None
                /\ release[Pass] = fgIdx - 1
             \/ ~cycle.exported /\ cycle.await = fgIdx - 1

Inv ==
    /\ Types /\ Ops /\ Images /\ Queue /\ InOrder /\ Fed /\ Behind /\ Held
    /\ Fetched /\ Chained /\ Lockstep /\ Decided

-----------------------------------------------------------------------------
(* Queues. *)

\* A queue to which one operation was appended.
LEMMA Appended ==
    ASSUME NEW q, IsSeq(q), NEW o, NEW r, r = Append(q, o)
    PROVE  /\ IsSeq(r) /\ OpsOf(r) = OpsOf(q) \cup {o}
           /\ Len(q) \in Nat /\ DOMAIN q = 1 .. Len(q)
           /\ DOMAIN r = 1 .. Len(q) + 1
           /\ \A i \in DOMAIN q : r[i] = q[i]
           /\ r[Len(q) + 1] = o
  <1> DEFINE T == OpsOf(q) \cup {o}
  <1>1. q \in Seq(T)
    BY SeqMonotonic DEF IsSeq
  <1>2. /\ Len(q) \in Nat /\ DOMAIN q = 1 .. Len(q)
        /\ r \in Seq(T) /\ Len(r) = Len(q) + 1
        /\ \A i \in 1 .. Len(q) : r[i] = q[i]
        /\ r[Len(q) + 1] = o
    BY <1>1, AppendProperties, LenProperties
  <1>3. DOMAIN r = 1 .. Len(q) + 1
    BY <1>2, LenProperties
  <1>4. OpsOf(r) = T
    BY <1>2, <1>3 DEF OpsOf
  <1> QED BY <1>2, <1>3, <1>4 DEF IsSeq

\* What is in it then.
LEMMA AppendedOps ==
    ASSUME NEW q, IsSeq(q), NEW o
    PROVE  OpsOf(Append(q, o)) = OpsOf(q) \cup {o}
  <1>1. PICK r : r = Append(q, o)
    OBVIOUS
  <1> QED BY <1>1, Appended

\* Two queues after each other.
LEMMA Joined ==
    ASSUME NEW q, IsSeq(q), NEW r, IsSeq(r), NEW s, s = q \o r
    PROVE  /\ IsSeq(s) /\ OpsOf(s) = OpsOf(q) \cup OpsOf(r)
           /\ Len(q) \in Nat /\ DOMAIN q = 1 .. Len(q)
           /\ Len(r) \in Nat /\ DOMAIN r = 1 .. Len(r)
           /\ DOMAIN s = 1 .. Len(q) + Len(r)
           /\ \A i \in DOMAIN s : s[i] = IF i <= Len(q) THEN q[i] ELSE r[i - Len(q)]
  <1> DEFINE T == OpsOf(q) \cup OpsOf(r)
  <1>1. q \in Seq(T) /\ r \in Seq(T)
    BY SeqMonotonic DEF IsSeq
  <1>2. /\ Len(q) \in Nat /\ DOMAIN q = 1 .. Len(q)
        /\ Len(r) \in Nat /\ DOMAIN r = 1 .. Len(r)
        /\ s \in Seq(T) /\ Len(s) = Len(q) + Len(r)
        /\ \A i \in 1 .. Len(q) + Len(r) : s[i] = IF i <= Len(q) THEN q[i] ELSE r[i - Len(q)]
    BY <1>1, ConcatProperties, LenProperties
  <1>3. DOMAIN s = 1 .. Len(q) + Len(r)
    BY <1>2, LenProperties
  <1>4. OpsOf(s) = T
    <2>1. ASSUME NEW i \in DOMAIN s PROVE s[i] \in T
      <3>1. CASE i <= Len(q)
        BY <1>2, <1>3, <2>1, <3>1 DEF OpsOf
      <3>2. CASE ~(i <= Len(q))
        <4>1. i - Len(q) \in DOMAIN r
          BY <1>2, <1>3, <2>1, <3>2
        <4> QED BY <1>2, <1>3, <2>1, <3>2, <4>1 DEF OpsOf
      <3> QED BY <3>1, <3>2
    <2>2. ASSUME NEW i \in DOMAIN q PROVE q[i] \in OpsOf(s)
      BY <1>2, <1>3, <2>2 DEF OpsOf
    <2>3. ASSUME NEW i \in DOMAIN r PROVE r[i] \in OpsOf(s)
      <3>1. i + Len(q) \in DOMAIN s /\ s[i + Len(q)] = r[i]
        BY <1>2, <1>3, <2>3
      <3> QED BY <3>1 DEF OpsOf
    <2>4. ASSUME NEW x \in OpsOf(s) PROVE x \in T
      <3>1. PICK i \in DOMAIN s : x = s[i]
        BY <2>4 DEF OpsOf
      <3> QED BY <2>1, <3>1
    <2>5. ASSUME NEW x \in T PROVE x \in OpsOf(s)
      <3>1. (\E i \in DOMAIN q : x = q[i]) \/ (\E i \in DOMAIN r : x = r[i])
        BY <2>5 DEF OpsOf
      <3> QED BY <2>2, <2>3, <3>1
    <2> QED BY <2>4, <2>5
  <1> QED BY <1>2, <1>3, <1>4 DEF IsSeq

\* A queue without its first operation.
LEMMA Popped ==
    ASSUME NEW q, IsSeq(q), q # <<>>, NEW r, r = Tail(q)
    PROVE  /\ IsSeq(r) /\ OpsOf(q) = OpsOf(r) \cup {Head(q)}
           /\ Len(q) \in Nat \ {0} /\ DOMAIN q = 1 .. Len(q)
           /\ DOMAIN r = 1 .. Len(q) - 1
           /\ \A i \in DOMAIN r : i + 1 \in DOMAIN q /\ r[i] = q[i + 1]
           /\ 1 \in DOMAIN q /\ Head(q) = q[1]
  <1>1. /\ Len(q) \in Nat \ {0} /\ DOMAIN q = 1 .. Len(q) /\ q \in Seq(OpsOf(q))
        /\ 1 \in DOMAIN q /\ Head(q) = q[1]
    BY LenProperties, EmptySeq DEF IsSeq
  <1>2. /\ r \in Seq(OpsOf(q)) /\ DOMAIN r = 1 .. Len(q) - 1
        /\ \A i \in DOMAIN r : i + 1 \in DOMAIN q /\ r[i] = q[i + 1]
    BY <1>1, HeadTailProperties, LenProperties
  <1>3. IsSeq(r)
    <2>1. r \in [1 .. Len(q) - 1 -> OpsOf(r)]
      BY <1>2, LenProperties DEF OpsOf
    <2>2. Len(q) - 1 \in Nat
      BY <1>1
    <2> QED BY <2>1, <2>2, SeqDef DEF IsSeq
  <1>4. OpsOf(q) = OpsOf(r) \cup {Head(q)}
    <2>1. \A i \in DOMAIN q : i = 1 \/ (i - 1 \in DOMAIN r /\ r[i - 1] = q[i])
      BY <1>1, <1>2
    <2>2. ASSUME NEW x \in OpsOf(q) PROVE x \in OpsOf(r) \cup {Head(q)}
      <3>1. PICK i \in DOMAIN q : x = q[i]
        BY <2>2 DEF OpsOf
      <3> QED BY <1>1, <2>1, <3>1 DEF OpsOf
    <2>3. ASSUME NEW x \in OpsOf(r) PROVE x \in OpsOf(q)
      <3>1. PICK i \in DOMAIN r : x = r[i]
        BY <2>3 DEF OpsOf
      <3> QED BY <1>2, <3>1 DEF OpsOf
    <2>4. Head(q) \in OpsOf(q)
      BY <1>1 DEF OpsOf
    <2> QED BY <2>2, <2>3, <2>4
  <1> QED BY <1>1, <1>2, <1>3, <1>4

\* A queue of one operation.
LEMMA Single == ASSUME NEW x PROVE IsSeq(<<x>>) /\ OpsOf(<<x>>) = {x}
  BY DEF IsSeq, OpsOf

\* A queue q to which two runs of operations were appended.
LEMMA Extended ==
    ASSUME NEW q, IsSeq(q), NEW r, IsSeq(r), NEW f, IsSeq(f), NEW s, s = q \o r \o f
    PROVE  /\ IsSeq(s) /\ OpsOf(s) = OpsOf(q) \cup OpsOf(r) \cup OpsOf(f)
           /\ \A i \in DOMAIN s :
                 \/ i \in DOMAIN q /\ s[i] = q[i]
                 \/ i \notin DOMAIN q /\ s[i] \in OpsOf(r) \cup OpsOf(f)
           /\ \A i \in DOMAIN s, j \in DOMAIN q : i < j => i \in DOMAIN q
  <1>1. PICK t : t = q \o r
    OBVIOUS
  <1>2. /\ IsSeq(t) /\ OpsOf(t) = OpsOf(q) \cup OpsOf(r)
        /\ Len(q) \in Nat /\ DOMAIN q = 1 .. Len(q)
        /\ Len(r) \in Nat /\ DOMAIN r = 1 .. Len(r)
        /\ DOMAIN t = 1 .. Len(q) + Len(r)
        /\ \A i \in DOMAIN t : t[i] = IF i <= Len(q) THEN q[i] ELSE r[i - Len(q)]
    <2>1. IsSeq(t) /\ OpsOf(t) = OpsOf(q) \cup OpsOf(r)
      BY <1>1, Joined
    <2>2. /\ Len(q) \in Nat /\ DOMAIN q = 1 .. Len(q)
          /\ Len(r) \in Nat /\ DOMAIN r = 1 .. Len(r)
          /\ DOMAIN t = 1 .. Len(q) + Len(r)
      BY <1>1, Joined
    <2>3. \A i \in DOMAIN t : t[i] = IF i <= Len(q) THEN q[i] ELSE r[i - Len(q)]
      BY <1>1, Joined
    <2> QED BY <2>1, <2>2, <2>3
  <1>3. /\ IsSeq(s) /\ OpsOf(s) = OpsOf(t) \cup OpsOf(f)
        /\ Len(t) \in Nat /\ DOMAIN t = 1 .. Len(t)
        /\ Len(f) \in Nat /\ DOMAIN f = 1 .. Len(f)
        /\ DOMAIN s = 1 .. Len(t) + Len(f)
        /\ \A i \in DOMAIN s : s[i] = IF i <= Len(t) THEN t[i] ELSE f[i - Len(t)]
    <2>0. s = t \o f
      BY <1>1
    <2>1. IsSeq(s) /\ OpsOf(s) = OpsOf(t) \cup OpsOf(f)
      BY <1>2, <2>0, Joined
    <2>2. /\ Len(t) \in Nat /\ DOMAIN t = 1 .. Len(t)
          /\ Len(f) \in Nat /\ DOMAIN f = 1 .. Len(f)
          /\ DOMAIN s = 1 .. Len(t) + Len(f)
      BY <1>2, <2>0, Joined
    <2>3. \A i \in DOMAIN s : s[i] = IF i <= Len(t) THEN t[i] ELSE f[i - Len(t)]
      BY <1>2, <2>0, Joined
    <2> QED BY <2>1, <2>2, <2>3
  <1>4. Len(t) = Len(q) + Len(r)
    BY <1>1, ConcatProperties, LenProperties, SeqMonotonic DEF IsSeq
  <1>5. ASSUME NEW i \in DOMAIN s
        PROVE  \/ i \in DOMAIN q /\ s[i] = q[i]
               \/ i \notin DOMAIN q /\ s[i] \in OpsOf(r) \cup OpsOf(f)
    <2>1. CASE i <= Len(q)
      BY <1>2, <1>3, <1>4, <1>5, <2>1
    <2>2. CASE ~(i <= Len(q)) /\ i <= Len(t)
      <3>1. i - Len(q) \in DOMAIN r /\ s[i] = r[i - Len(q)] /\ i \notin DOMAIN q
        BY <1>2, <1>3, <1>4, <1>5, <2>2
      <3> QED BY <3>1 DEF OpsOf
    <2>3. CASE ~(i <= Len(t))
      <3>1. i - Len(t) \in DOMAIN f /\ s[i] = f[i - Len(t)] /\ i \notin DOMAIN q
        BY <1>2, <1>3, <1>4, <1>5, <2>3
      <3> QED BY <3>1 DEF OpsOf
    <2> QED BY <2>1, <2>2, <2>3
  <1>6. \A i \in DOMAIN s, j \in DOMAIN q : i < j => i \in DOMAIN q
    BY <1>2, <1>3
  <1> QED BY <1>2, <1>3, <1>5, <1>6

\* What is in two queues after each other,
LEMMA JoinedOps ==
    ASSUME NEW q, IsSeq(q), NEW r, IsSeq(r)
    PROVE  IsSeq(q \o r) /\ OpsOf(q \o r) = OpsOf(q) \cup OpsOf(r)
  <1>1. PICK s : s = q \o r
    OBVIOUS
  <1>2. IsSeq(s) /\ OpsOf(s) = OpsOf(q) \cup OpsOf(r)
    BY <1>1, Joined
  <1> QED BY <1>1, <1>2

\* or in three.
LEMMA ExtendedOps ==
    ASSUME NEW q, IsSeq(q), NEW r, IsSeq(r), NEW f, IsSeq(f)
    PROVE  OpsOf(q \o r \o f) = OpsOf(q) \cup OpsOf(r) \cup OpsOf(f)
  <1>1. IsSeq(q \o r) /\ OpsOf(q \o r) = OpsOf(q) \cup OpsOf(r)
    BY JoinedOps
  <1> QED BY <1>1, JoinedOps

\* The empty queue.
LEMMA Empty == IsSeq(<<>>) /\ OpsOf(<<>>) = {} /\ DOMAIN <<>> = {}
  BY EmptySeq DEF IsSeq, OpsOf

-----------------------------------------------------------------------------
(* What is pending. *)

\* The operations on the queues have the types of their kinds.
LEMMA Elements ==
    ASSUME Ops
    PROVE  /\ \A c \in Copies : c.n \in Nat /\ c.kind = "copy"
           /\ \A p \in Posts : p.n \in Nat /\ p.kind = "post"
           /\ \A b \in Batches : b.n \in Nat /\ b.src \in Nat /\ b.kind = "batch"
  BY DEF Ops, Copies, Posts, Batches, OpsOf

\* A batch is pending while it is queued,
LEMMA PendingBatches ==
    ASSUME Ops, NEW n
    PROVE  <<"batch", n>> \in Pending <=> \E b \in Batches : b.n = n
  BY DEF Ops, Pending, Batches, OpsOf, IdOf

\* and so is a copy.
LEMMA PendingCopies ==
    ASSUME Ops, NEW n
    PROVE  <<"copy", n>> \in Pending <=> \E c \in Copies : c.n = n
  BY DEF Ops, Pending, Copies, OpsOf, IdOf

\* A batch that may execute works on the newest source.
LEMMA ReadyIsNewest ==
    ASSUME Inv, NEW b \in Batches, Ready(b)
    PROVE  Newest = b.src
  <1>1. b.n \in Nat /\ b.src \in Nat /\ Newest \in Int /\ LastCopy \in Int /\ LastBatch \in Int
    BY Elements DEF Inv, Types, Newest, LastCopy, LastBatch
  <1>2. Newest <= b.src /\ b.src <= LastCopy
    BY <1>1 DEF Inv, Behind, LastBatch, LastCopy, Types
  <1>3. life # "off"
    BY Empty DEF Inv, Types, Batches
  <1>4. CASE b.src > Newest
    <2>1. \E c \in Copies : c.n = b.src
      BY <1>1, <1>2, <1>3, <1>4 DEF Inv, Queue
    <2>2. <<"copy", b.src>> \in Pending
      BY <2>1, PendingCopies DEF Inv
    <2>3. b.waits = {<<"copy", b.src>>}
      BY <1>1, <1>4 DEF Inv, Fed
    <2> QED BY <2>2, <2>3 DEF Ready
  <1> QED BY <1>1, <1>2, <1>4

-----------------------------------------------------------------------------
(* The steps, one lemma each. *)

\* What a state needs whose queues are empty.
LEMMA Drained ==
    /\ gameQ = <<>> /\ fgQ = <<>> /\ (life = "off" \/ Newest = LastCopy)
    /\ Types /\ Images /\ Lockstep /\ Decided
    => Inv
  <1>0. SUFFICES ASSUME gameQ = <<>>, fgQ = <<>>, life = "off" \/ Newest = LastCopy,
                        Types, Images, Lockstep, Decided
                 PROVE  Inv
    OBVIOUS
  <1>1. Copies = {} /\ Posts = {} /\ Batches = {}
    BY <1>0, Empty DEF Copies, Posts, Batches
  <1>2. DOMAIN gameQ = {} /\ DOMAIN fgQ = {}
    BY <1>0, Empty
  <1>3. Ops /\ InOrder
    BY <1>2 DEF Ops, InOrder
  <1>4. Fed /\ Behind /\ Held /\ Fetched /\ Chained
    BY <1>1 DEF Fed, Behind, Held, Fetched, Chained
  <1>5. Queue
    <2>1. LastCopy \in Int
      BY <1>0 DEF Types, LastCopy
    <2> QED BY <1>0, <1>1, <1>2, <2>1 DEF Queue
  <1> QED BY <1>0, <1>3, <1>4, <1>5 DEF Inv

\* A context that starts,
LEMMA InitInv == Init => Inv
  <1> SUFFICES ASSUME Init PROVE Inv
    OBVIOUS
  <1> USE SourceHistoryAssumption
  <1>1. slot = [s \in 0..1 |-> -1] /\ Newest = -1 /\ LastCopy = -1
    BY DEF Init, NoImages, None, Newest, LastCopy
  <1>2. Types
    BY <1>1, Empty DEF Init, Types, NoPasses, None, Cycles, Idle
  <1>3. Images
    BY <1>1 DEF Images
  <1>4. Lockstep /\ Decided
    BY DEF Init, Lockstep, Decided, FreshWarmup
  <1>5. gameQ = <<>> /\ fgQ = <<>>
    BY DEF Init
  <1> QED BY <1>1, <1>2, <1>3, <1>4, <1>5, Drained

\* one that is recreated,
LEMMA RecreateKeeps ==
    ASSUME Inv, Recreate PROVE Inv'
  <1> USE SourceHistoryAssumption
  <1>1. slot' = [s \in 0..1 |-> -1] /\ Newest' = -1 /\ LastCopy' = -1
    BY DEF Inv, Types, Recreate, NoImages, None, Newest, LastCopy
  <1>2. Types'
    BY <1>1, Empty DEF Inv, Types, Recreate, NoPasses, None, Cycles
  <1>3. Images'
    BY <1>1 DEF Images
  <1>4. Lockstep' /\ Decided'
    BY DEF Recreate, Lockstep, Decided, FreshWarmup
  <1>5. gameQ' = <<>> /\ fgQ' = <<>>
    BY DEF Recreate
  <1>6. (/\ gameQ = <<>> /\ fgQ = <<>> /\ (life = "off" \/ Newest = LastCopy)
         /\ Types /\ Images /\ Lockstep /\ Decided)' => Inv'
    BY Drained, PTL
  <1> QED BY <1>1, <1>2, <1>3, <1>4, <1>5, <1>6

\* and one that is dropped.
LEMMA ThrowKeeps ==
    ASSUME Inv, Throw PROVE Inv'
  <1>1. Newest' = Newest /\ LastCopy' = LastCopy
    BY DEF Throw, memory, Newest, LastCopy
  <1>2. Types'
    BY Empty DEF Inv, Types, Throw, Cycles, Idle, None, memory, sync
  <1>3. Images'
    BY <1>1 DEF Inv, Images, Throw, memory
  <1>4. Lockstep' /\ Decided'
    BY DEF Throw, Lockstep, Decided
  <1>5. gameQ' = <<>> /\ fgQ' = <<>> /\ life' = "off"
    BY DEF Throw
  <1>6. (/\ gameQ = <<>> /\ fgQ = <<>> /\ (life = "off" \/ Newest = LastCopy)
         /\ Types /\ Images /\ Lockstep /\ Decided)' => Inv'
    BY Drained, PTL
  <1> QED BY <1>1, <1>2, <1>3, <1>4, <1>5, <1>6

\* A call that ends the epoch and does nothing else.
LEMMA BypassKeeps ==
    ASSUME Inv, EnterSourceOnlyBypass \/ BusyPassthrough PROVE Inv'
  <1>1. /\ UNCHANGED <<device, life, pc, cycle, frameIdx, fgIdx, release, slot,
                       gameQ, fgQ>>
        /\ device = "generic" => warmup' > 0
    BY SourceHistoryAssumption
    DEF EnterSourceOnlyBypass, BusyPassthrough, ResetEpoch, ResetWarmup, sync,
        backend, memory
  <1>2. /\ Newest' = Newest /\ LastCopy' = LastCopy /\ LastBatch' = LastBatch
        /\ Copies' = Copies /\ Posts' = Posts /\ Batches' = Batches
    BY <1>1 DEF Newest, LastCopy, LastBatch, Copies, Posts, Batches
  <1>3. Types' /\ Ops' /\ Images' /\ InOrder' /\ Lockstep'
    BY <1>1, <1>2 DEF Inv, Types, Ops, Images, InOrder, Lockstep
  <1>4. Queue' /\ Fed' /\ Behind' /\ Held' /\ Fetched' /\ Chained'
    BY <1>1, <1>2 DEF Inv, Queue, Fed, Behind, Held, Fetched, Chained
  <1>5. Decided'
    BY <1>1 DEF Inv, Decided, Pass
  <1> QED BY <1>3, <1>4, <1>5 DEF Inv

\* Copies execute in the order of the sources: the next one brings the source
\* after the newest.
LEMMA NextCopy ==
    ASSUME Inv, gameQ # <<>>, Head(gameQ).kind = "copy"
    PROVE  Head(gameQ).n = Newest + 1
  <1> DEFINE o == Head(gameQ)
  <1>1. /\ 1 \in DOMAIN gameQ /\ o = gameQ[1] /\ OpsOf(gameQ) = OpsOf(Tail(gameQ)) \cup {o}
        /\ DOMAIN gameQ = 1 .. Len(gameQ) /\ Len(gameQ) \in Nat
    <2>1. IsSeq(gameQ)
      BY DEF Inv, Types
    <2> QED BY <2>1, Popped
  <1>2. o \in Copies /\ life # "off" /\ Newest \in Int /\ LastCopy \in Int /\ o.n \in Int
    BY <1>1, Elements DEF Inv, Types, Copies, Newest, LastCopy
  <1>3. Newest < o.n /\ o.n <= LastCopy
    BY <1>2 DEF Inv, Queue
  <1>4. PICK c \in Copies : c.n = Newest + 1
    BY <1>2, <1>3 DEF Inv, Queue
  <1>5. PICK j \in DOMAIN gameQ : c = gameQ[j]
    BY DEF Copies, OpsOf
  <1>6. CASE j = 1
    BY <1>1, <1>4, <1>5, <1>6
  <1>7. CASE j # 1
    <2>1. 1 < j /\ gameQ[j].kind = "copy" /\ gameQ[1].kind = "copy"
      BY <1>1, <1>5, <1>7 DEF Copies
    <2>2. gameQ[1].n < gameQ[j].n
      BY <1>1, <2>1 DEF Inv, Queue
    <2> QED BY <1>1, <1>2, <1>3, <1>4, <1>5, <2>2
  <1> QED BY <1>6, <1>7

\* The images after a step of the game's device.
LEMMA GameStepImages ==
    ASSUME Inv, GameStep
    PROVE  /\ slot' \in [0..1 -> Int] /\ Images'
           /\ Newest' = IF Head(gameQ).kind = "copy" THEN Head(gameQ).n ELSE Newest
  <1> DEFINE o == Head(gameQ)
  <1>1. slot \in [0..1 -> Int] /\ Newest \in Int /\ LastCopy' = LastCopy /\ LastCopy \in Int
    BY DEF Inv, Types, GameStep, Newest, LastCopy
  <1>2. CASE o.kind # "copy"
    <2>1. slot' = slot /\ Newest' = Newest
      BY <1>2 DEF GameStep, Newest
    <2> QED BY <1>1, <1>2, <2>1 DEF Inv, Images
  <1>3. CASE o.kind = "copy"
    <2>1. o.n = Newest + 1 /\ o \in Copies
      BY <1>3, NextCopy, Popped DEF Inv, Types, GameStep, Copies
    <2>2. /\ slot' = [s \in 0..1 |-> IF s \in Written(o.n) THEN o.n ELSE slot[s]]
          /\ o.n <= LastCopy
      BY <1>3, <2>1 DEF GameStep, Inv, Queue
    <2> HIDE DEF o
    <2>3. CASE Newest = -1
      <3>1. o.n = 0 /\ slot[0] <= -1 /\ slot[1] <= -1
        BY <1>1, <2>1, <2>3 DEF Newest
      <3>2. slot'[0] = 0 /\ slot'[1] \in Int /\ slot'[1] <= 0
        BY <1>1, <2>2, <3>1 DEF Written
      <3>3. slot' \in [0..1 -> Int] /\ Newest' = 0
        BY <1>1, <2>2, <3>1, <3>2 DEF Newest
      <3> QED BY <1>1, <1>3, <2>2, <3>1, <3>2, <3>3 DEF Images, o
    <2>4. CASE Newest # -1
      <3>1. Newest \in Nat /\ o.n \in Nat /\ o.n > 0
        BY <1>1, <2>1, <2>4 DEF Inv, Images
      <3>2. Written(o.n) = {o.n % 2} /\ slot[Newest % 2] = Newest
        BY <3>1 DEF Written, Inv, Images
      <3>3. /\ o.n % 2 \in 0..1 /\ Newest % 2 \in 0..1 /\ o.n % 2 # Newest % 2
            /\ (o.n + 1) % 2 = Newest % 2
        BY <2>1, <3>1
      <3>4. slot'[o.n % 2] = o.n /\ slot'[Newest % 2] = Newest
        BY <2>2, <3>2, <3>3
      <3>5. slot' \in [0..1 -> Int]
        BY <1>1, <2>2, <3>1
      <3>6. Newest' = o.n
        <4>1. \/ slot'[0] = o.n /\ slot'[1] = Newest
              \/ slot'[1] = o.n /\ slot'[0] = Newest
          <5>1. (o.n % 2 = 0 /\ Newest % 2 = 1) \/ (o.n % 2 = 1 /\ Newest % 2 = 0)
            BY <3>3
          <5> QED BY <3>4, <5>1
        <4> QED BY <2>1, <3>1, <4>1 DEF Newest
      <3>7. Images'
        BY <1>1, <2>1, <2>2, <3>1, <3>3, <3>4, <3>6 DEF Images
      <3> QED BY <1>3, <3>5, <3>6, <3>7 DEF o
    <2> QED BY <2>3, <2>4
  <1> QED BY <1>2, <1>3

\* The game's device executes an operation.
LEMMA GameStepKeeps ==
    ASSUME Inv, GameStep PROVE Inv'
  <1> DEFINE o == Head(gameQ)
  <1>1. /\ UNCHANGED <<device, life, pc, cycle, frameIdx, fgIdx, release, warmup, fgQ>>
        /\ gameQ # <<>> /\ gameQ' = Tail(gameQ) /\ Ready(o)
    BY DEF GameStep, wrapper, sync, backend
  <1>2. /\ IsSeq(gameQ') /\ OpsOf(gameQ) = OpsOf(gameQ') \cup {o}
        /\ DOMAIN gameQ = 1 .. Len(gameQ) /\ Len(gameQ) \in Nat \ {0}
        /\ DOMAIN gameQ' = 1 .. Len(gameQ) - 1
        /\ \A i \in DOMAIN gameQ' : i + 1 \in DOMAIN gameQ /\ gameQ'[i] = gameQ[i + 1]
        /\ 1 \in DOMAIN gameQ /\ o = gameQ[1]
    <2>1. IsSeq(gameQ)
      BY DEF Inv, Types
    <2> QED BY <1>1, <2>1, Popped
  <1>3. /\ Copies' \subseteq Copies /\ Posts' \subseteq Posts /\ Batches' = Batches
        /\ \A c \in Copies : c \in Copies' \/ c = o
        /\ LastCopy' = LastCopy /\ LastBatch' = LastBatch
    BY <1>1, <1>2 DEF Copies, Posts, Batches, LastCopy, LastBatch
  <1>4. /\ slot' \in [0..1 -> Int] /\ Images'
        /\ Newest' = IF o.kind = "copy" THEN o.n ELSE Newest
        /\ o.kind = "copy" => o.n = Newest + 1 /\ o \in Copies
        /\ Newest \in Int /\ LastCopy \in Int /\ Newest <= Newest'
    BY <1>1, <1>2, GameStepImages, NextCopy DEF Inv, Types, Copies, Newest, LastCopy
  <1> HIDE DEF o
  <1>5. Types' /\ Lockstep' /\ Decided'
    BY <1>1, <1>2, <1>4, Empty DEF Inv, Types, Lockstep, Decided, Pass, OpsOf
  <1>6. Ops' /\ InOrder'
    BY <1>1, <1>2 DEF Inv, Ops, InOrder
  <1>7. Queue'
    <2>1. ASSUME NEW i \in DOMAIN gameQ', NEW j \in DOMAIN gameQ', i < j,
                 gameQ'[i].kind # "fence", gameQ'[j].kind # "fence"
          PROVE  /\ gameQ'[i].n <= gameQ'[j].n
                 /\ gameQ'[j].kind = "copy" => gameQ'[i].n < gameQ'[j].n
      <3>1. /\ i + 1 \in DOMAIN gameQ /\ j + 1 \in DOMAIN gameQ /\ i + 1 < j + 1
            /\ gameQ'[i] = gameQ[i + 1] /\ gameQ'[j] = gameQ[j + 1]
        BY <1>2, <2>1
      <3> QED BY <2>1, <3>1 DEF Inv, Queue
    <2>2. ASSUME NEW c \in OpsOf(gameQ'), c.kind # "fence", o.kind = "copy"
          PROVE  o.n <= c.n /\ (c.kind = "copy" => o.n < c.n)
      <3>1. PICK i \in DOMAIN gameQ' : c = gameQ'[i]
        BY <2>2 DEF OpsOf
      <3>2. i + 1 \in DOMAIN gameQ /\ 1 < i + 1 /\ c = gameQ[i + 1]
        BY <1>2, <3>1
      <3> QED BY <1>2, <2>2, <3>2 DEF Inv, Queue
    <2>3. ASSUME NEW c \in Copies' PROVE Newest' < c.n /\ c.n <= LastCopy'
      <3>1. c \in Copies /\ c \in OpsOf(gameQ') /\ c.kind = "copy"
        BY <1>3, <2>3 DEF Copies
      <3> QED BY <1>3, <1>4, <2>2, <3>1 DEF Inv, Queue
    <2>4. ASSUME NEW p \in Posts' PROVE Newest' <= p.n /\ p.n < frameIdx'
      <3>1. p \in Posts /\ p \in OpsOf(gameQ') /\ p.kind = "post"
        BY <1>3, <2>4 DEF Posts
      <3> QED BY <1>1, <1>4, <2>2, <3>1 DEF Inv, Queue
    <2>5. ASSUME life' # "off", NEW m \in Newest' + 1 .. LastCopy'
          PROVE  \E c \in Copies' : c.n = m
      <3>1. m \in Newest + 1 .. LastCopy /\ (o.kind = "copy" => m # o.n)
        BY <1>3, <1>4, <2>5
      <3>2. PICK c \in Copies : c.n = m
        BY <1>1, <2>5, <3>1 DEF Inv, Queue
      <3> QED BY <1>3, <3>1, <3>2 DEF Copies
    <2> QED BY <2>1, <2>3, <2>4, <2>5 DEF Queue
  <1>8. Fed' /\ Held' /\ Fetched' /\ Chained'
    <2>1. Fed'
      <3> SUFFICES ASSUME NEW b \in Batches PROVE b.waits = {<<"copy", b.src>>} \/ b.src <= Newest'
        BY <1>3 DEF Fed
      <3> QED BY <1>4, Elements DEF Inv, Fed, Images
    <2> QED BY <1>1, <1>3, <2>1 DEF Inv, Held, Fetched, Chained
  <1>9. Behind'
    <2> SUFFICES ASSUME NEW b \in Batches PROVE Newest' <= b.src
      BY <1>1, <1>3 DEF Inv, Behind
    <2>1. b.src \in Nat /\ Newest <= b.src
      BY Elements DEF Inv, Behind
    <2>2. CASE o.kind = "copy" /\ b.src < o.n
      <3>1. PICK a \in Batches : a.n = o.n - 1 /\ <<"batch", a.n>> \in o.waits
        BY <1>4, <2>2 DEF Inv, Held
      <3>2. <<"batch", a.n>> \in Pending
        BY <3>1, PendingBatches DEF Inv
      <3> QED BY <1>1, <3>1, <3>2 DEF Ready
    <2> QED BY <1>4, <2>1, <2>2
  <1> QED BY <1>4, <1>5, <1>6, <1>7, <1>8, <1>9 DEF Inv

\* The backend executes a batch.
LEMMA FgStepKeeps ==
    ASSUME Inv, FgStep PROVE Inv'
  <1> DEFINE o == Head(fgQ)
  <1>1. /\ UNCHANGED <<device, life, pc, cycle, frameIdx, fgIdx, release, warmup,
                       slot, gameQ>>
        /\ fgQ # <<>> /\ fgQ' = Tail(fgQ)
    BY DEF FgStep, wrapper, sync
  <1>2. /\ IsSeq(fgQ') /\ OpsOf(fgQ) = OpsOf(fgQ') \cup {o}
        /\ DOMAIN fgQ = 1 .. Len(fgQ) /\ Len(fgQ) \in Nat \ {0}
        /\ DOMAIN fgQ' = 1 .. Len(fgQ) - 1
        /\ \A i \in DOMAIN fgQ' : i + 1 \in DOMAIN fgQ /\ fgQ'[i] = fgQ[i + 1]
        /\ 1 \in DOMAIN fgQ /\ o = fgQ[1]
    <2>1. IsSeq(fgQ)
      BY DEF Inv, Types
    <2> QED BY <1>1, <2>1, Popped
  <1>3. /\ Copies' = Copies /\ Posts' = Posts /\ Batches' \subseteq Batches
        /\ \A b \in Batches : b \in Batches' \/ b = o
        /\ LastCopy' = LastCopy /\ LastBatch' = LastBatch /\ Newest' = Newest
    BY <1>1, <1>2 DEF Copies, Posts, Batches, LastCopy, LastBatch, Newest
  <1> HIDE DEF o
  \* The batches left are of later sources than the one that was executed.
  <1>4. \A b \in Batches' : o.src < b.src
    <2> SUFFICES ASSUME NEW b \in Batches' PROVE o.src < b.src
      OBVIOUS
    <2>1. PICK i \in DOMAIN fgQ' : b = fgQ'[i]
      BY DEF Batches, OpsOf
    <2>2. i + 1 \in DOMAIN fgQ /\ 1 < i + 1 /\ b = fgQ[i + 1]
      BY <1>2, <2>1
    <2> QED BY <1>2, <2>2 DEF Inv, InOrder
  <1>5. \A b \in Batches : b.src \in Nat /\ b.n \in Nat
    BY Elements DEF Inv
  <1>6. Types' /\ Lockstep' /\ Decided'
    BY <1>1, <1>2, Empty DEF Inv, Types, Lockstep, Decided, Pass, OpsOf
  <1>7. Ops' /\ Images' /\ Queue'
    BY <1>1, <1>2, <1>3 DEF Inv, Ops, Images, Queue
  <1>8. InOrder'
    <2> SUFFICES ASSUME NEW i \in DOMAIN fgQ', NEW j \in DOMAIN fgQ', i < j
                 PROVE  fgQ'[i].src < fgQ'[j].src /\ fgQ'[i].n < fgQ'[j].n
      BY DEF InOrder
    <2>1. /\ i + 1 \in DOMAIN fgQ /\ j + 1 \in DOMAIN fgQ /\ i + 1 < j + 1
          /\ fgQ'[i] = fgQ[i + 1] /\ fgQ'[j] = fgQ[j + 1]
      BY <1>2
    <2> QED BY <2>1 DEF Inv, InOrder
  <1>9. Fed' /\ Behind' /\ Fetched'
    BY <1>1, <1>3 DEF Inv, Fed, Behind, Fetched
  <1>10. Held'
    <2> SUFFICES ASSUME NEW c \in Copies, NEW b \in Batches', b.src < c.n
                 PROVE  /\ <<"batch", c.n - 1>> \in c.waits
                        /\ \E a \in Batches' : a.src = c.n - 1 /\ a.n = c.n - 1
      BY <1>3 DEF Held
    <2>1. PICK a \in Batches : a.src = c.n - 1 /\ a.n = c.n - 1
      BY <1>3 DEF Inv, Held
    <2>2. <<"batch", c.n - 1>> \in c.waits
      BY <1>3 DEF Inv, Held
    <2>3. a # o
      BY <1>3, <1>4, <1>5, <2>1, Elements DEF Inv
    <2> QED BY <1>3, <2>1, <2>2, <2>3
  <1>11. Chained'
    <2>1. ASSUME device = "generic", life = "live", NEW b \in Batches'
          PROVE  /\ pc = "idle" =>
                      /\ frameIdx > 0 /\ release[(frameIdx - 1) % Ring] = frameIdx - 1
                      /\ \E a \in Batches' : a.src = frameIdx - 1
                 /\ pc = "sent" => \E a \in Batches' : a.src = frameIdx
      <3>1. /\ b \in Batches /\ o.src < b.src /\ b.src <= LastBatch /\ frameIdx \in Nat
            /\ b.src \in Nat
        BY <1>3, <1>4, <1>5, <2>1 DEF Inv, Behind, Types
      <3>2. CASE pc = "idle"
        <4>1. PICK a \in Batches : a.src = frameIdx - 1
          BY <2>1, <3>1, <3>2 DEF Inv, Chained
        <4>2. a # o
          BY <3>1, <3>2, <4>1 DEF LastBatch
        <4> QED BY <1>3, <2>1, <3>1, <3>2, <4>1, <4>2 DEF Inv, Chained
      <3>3. CASE pc = "sent"
        <4>1. PICK a \in Batches : a.src = frameIdx
          BY <2>1, <3>1, <3>3 DEF Inv, Chained
        <4>2. a # o
          BY <3>1, <3>3, <4>1 DEF LastBatch
        <4> QED BY <1>3, <3>3, <4>1, <4>2
      <3> QED BY <3>2, <3>3
    <2>2. device = "adreno" =>
              \A b \in Batches' : (pc = "sent" \/ life = "stale") /\ b.src = LastCopy'
      BY <1>3 DEF Inv, Chained
    <2> QED BY <1>1, <2>1, <2>2 DEF Chained
  <1> QED BY <1>6, <1>7, <1>8, <1>9, <1>10, <1>11 DEF Inv

\* The state after a present has queued its copy.
LEMMA Presented ==
    ASSUME Inv, Present
    PROVE  /\ pc = "idle" /\ life = "live" /\ pc' = "copied"
           /\ UNCHANGED <<device, life, frameIdx, fgIdx, slot, fgQ>>
           /\ release' \in [Passes -> Int]
           /\ cycle' \in Cycles /\ ~cycle'.exported /\ cycle'.await = None
           /\ device = "generic" => cycle'.mode # "warmup"
           /\ device = "generic" /\ frameIdx = 0 => cycle'.mode # "generate"
           /\ gameQ' = Append(gameQ, Copy(frameIdx, CopyWaits))
  <1> USE SourceHistoryAssumption
  <1>1. /\ pc = "idle" /\ life = "live" /\ pc' = "copied"
        /\ UNCHANGED <<device, life, frameIdx, fgIdx, slot, fgQ>>
    BY DEF Present, backend, memory
  <1>2. release' \in [Passes -> Int]
    <2>1. CASE device = "generic"
      BY <2>1 DEF Present, Inv, Types, None
    <2>2. CASE device # "generic"
      BY <2>2 DEF Present, Inv, Types
    <2> QED BY <2>1, <2>2
  <1>3. device = "generic" /\ frameIdx = 0 => warmup' > 0
    BY DEF Present, ResetEpoch, ResetWarmup, wrapper, Inv, Decided
  <1>4. PICK g \in 0..MaxGenerated : SubmitCopy(g) \/ SubmitAdrenoCopy(g)
    BY DEF Present
  <1>5. PICK wants \in BOOLEAN : Submit(g, wants)
    <2>1. CASE SubmitCopy(g)
      <3>1. Submit(g, asyncHandoff)
        BY <2>1 DEF SubmitCopy
      <3>2. Submit(g, asyncHandoff = TRUE)
        BY <3>1 DEF Submit
      <3> QED BY <3>2
    <2>2. CASE SubmitAdrenoCopy(g)
      BY <2>2 DEF SubmitAdrenoCopy
    <2> QED BY <1>4, <2>1, <2>2
  <1>6. PICK semaphore \in BOOLEAN :
           /\ cycle' = [Idle EXCEPT !.mode = Mode(g), !.gen = g, !.async = wants /\ semaphore]
           /\ gameQ' = Append(gameQ, Copy(frameIdx, CopyWaits))
    BY <1>5 DEF Submit
  <1>7. /\ Mode(g) \in {"warmup", "history", "generate"}
        /\ device = "generic" => Mode(g) # "warmup"
        /\ device = "generic" /\ frameIdx = 0 => Mode(g) # "generate"
    <2>1. device \in {"adreno", "generic"}
      BY DEF Inv, Types, Devices
    <2>2. CASE device = "generic" /\ warmup' > 0
      BY <2>2 DEF Mode
    <2>3. CASE device = "adreno" /\ warmup' > 0
      BY <2>3 DEF Mode
    <2>4. CASE ~(warmup' > 0)
      BY <1>3, <2>4 DEF Mode
    <2> QED BY <2>1, <2>2, <2>3, <2>4
  <1>8. cycle' = [mode |-> Mode(g), gen |-> g, async |-> wants /\ semaphore,
                  await |-> None, onTimeout |-> "throw", exported |-> FALSE]
    BY <1>6 DEF Idle
  <1>9. cycle' \in Cycles /\ ~cycle'.exported /\ cycle'.await = None /\ cycle'.mode = Mode(g)
    BY <1>7, <1>8 DEF Cycles, None
  <1> QED BY <1>1, <1>2, <1>6, <1>7, <1>9

\* A present queues its copy.
LEMMA PresentKeeps ==
    ASSUME Inv, Present PROVE Inv'
  <1>0. PICK o : o = Copy(frameIdx, CopyWaits)
    OBVIOUS
  <1>1. /\ pc = "idle" /\ life = "live" /\ pc' = "copied" /\ life' = "live"
        /\ UNCHANGED <<device, frameIdx, fgIdx, slot, fgQ>>
        /\ gameQ' = Append(gameQ, o)
    BY <1>0, Presented
  <1>2. o.kind = "copy" /\ o.n = frameIdx /\ o.waits = CopyWaits
    BY <1>0 DEF Copy
  <1>3. /\ IsSeq(gameQ') /\ OpsOf(gameQ') = OpsOf(gameQ) \cup {o}
        /\ Len(gameQ) \in Nat /\ DOMAIN gameQ = 1 .. Len(gameQ)
        /\ DOMAIN gameQ' = 1 .. Len(gameQ) + 1
        /\ \A i \in DOMAIN gameQ : gameQ'[i] = gameQ[i]
        /\ gameQ'[Len(gameQ) + 1] = o
    <2>1. IsSeq(gameQ) /\ gameQ' = Append(gameQ, o)
      BY <1>1 DEF Inv, Types
    <2>2. IsSeq(gameQ') /\ OpsOf(gameQ') = OpsOf(gameQ) \cup {o} /\ Len(gameQ) \in Nat
      BY <2>1, Appended
    <2>3. DOMAIN gameQ = 1 .. Len(gameQ) /\ DOMAIN gameQ' = 1 .. Len(gameQ) + 1
      BY <2>1, Appended
    <2>4. (\A i \in DOMAIN gameQ : gameQ'[i] = gameQ[i]) /\ gameQ'[Len(gameQ) + 1] = o
      BY <2>1, Appended
    <2> QED BY <2>2, <2>3, <2>4
  <1>4. /\ Copies' = Copies \cup {o} /\ Posts' = Posts /\ Batches' = Batches
        /\ LastCopy = frameIdx - 1 /\ LastCopy' = frameIdx /\ frameIdx \in Nat
        /\ LastBatch' = LastBatch /\ Newest' = Newest /\ Newest \in Int
    BY <1>1, <1>2, <1>3
    DEF Copies, Posts, Batches, LastCopy, LastBatch, Newest, Inv, Types
  <1>5. Types'
    BY <1>1, <1>3, Presented DEF Inv, Types
  <1>6. Lockstep' /\ Decided'
    BY <1>1, Presented DEF Inv, Lockstep, Decided
  <1>7. Ops' /\ Images' /\ InOrder'
    <2>1. Ops'
      BY <1>1, <1>2, <1>3, <1>4 DEF Inv, Ops
    <2>2. Images' /\ InOrder'
      BY <1>1, <1>4 DEF Inv, Images, InOrder
    <2> QED BY <2>1, <2>2
  <1>8. Queue'
    <2>1. ASSUME NEW c \in OpsOf(gameQ), c.kind # "fence"
          PROVE  c.n \in Nat /\ c.n < frameIdx
      <3>1. c \in Copies \/ c \in Posts
        BY <2>1 DEF Inv, Ops, OpsOf, Copies, Posts
      <3> QED BY <1>4, <3>1, Elements DEF Inv, Queue
    <2>2. ASSUME NEW i \in DOMAIN gameQ', NEW j \in DOMAIN gameQ', i < j,
                 gameQ'[i].kind # "fence", gameQ'[j].kind # "fence"
          PROVE  /\ gameQ'[i].n <= gameQ'[j].n
                 /\ gameQ'[j].kind = "copy" => gameQ'[i].n < gameQ'[j].n
      <3>1. i \in DOMAIN gameQ /\ gameQ'[i] = gameQ[i]
        BY <1>3, <2>2
      <3>2. CASE j \in DOMAIN gameQ
        BY <1>3, <2>2, <3>1, <3>2 DEF Inv, Queue
      <3>3. CASE j = Len(gameQ) + 1
        <4>1. gameQ[i].n \in Nat /\ gameQ[i].n < frameIdx
          BY <2>1, <2>2, <3>1 DEF OpsOf
        <4> QED BY <1>2, <1>3, <1>4, <3>1, <3>3, <4>1
      <3> QED BY <1>3, <3>2, <3>3
    <2>3. \A c \in Copies' : Newest' < c.n /\ c.n <= LastCopy'
      BY <1>2, <1>4, Elements DEF Inv, Queue, Images
    <2>4. ASSUME NEW m \in Newest' + 1 .. LastCopy' PROVE \E c \in Copies' : c.n = m
      <3>1. CASE m = frameIdx
        BY <1>2, <1>4, <3>1
      <3>2. CASE m # frameIdx
        <4>1. m \in Newest + 1 .. LastCopy
          BY <1>4, <2>4, <3>2
        <4> QED BY <1>1, <1>4, <4>1 DEF Inv, Queue
      <3> QED BY <3>1, <3>2
    <2> QED BY <1>1, <1>4, <2>2, <2>3, <2>4 DEF Inv, Queue
  <1>9. Fed' /\ Behind' /\ Fetched' /\ Chained'
    BY <1>1, <1>4 DEF Inv, Fed, Behind, Fetched, Chained
  <1>10. Held'
    <2> SUFFICES ASSUME NEW c \in Copies', NEW b \in Batches, b.src < c.n
                 PROVE  /\ <<"batch", c.n - 1>> \in c.waits
                        /\ \E a \in Batches : a.src = c.n - 1 /\ a.n = c.n - 1
      BY <1>4 DEF Held
    <2>1. CASE c \in Copies
      BY <2>1 DEF Inv, Held
    \* The release of the batch before it is what the new copy waits for.
    <2>2. CASE c = o
      <3>1. device = "generic"
        BY <1>1 DEF Inv, Chained, Types, Devices
      <3>2. /\ frameIdx > 0 /\ release[(frameIdx - 1) % Ring] = frameIdx - 1
            /\ \E a \in Batches : a.src = frameIdx - 1
        BY <1>1, <3>1 DEF Inv, Chained
      <3>3. PICK a \in Batches : a.src = frameIdx - 1 /\ a.n = frameIdx - 1
        BY <3>1, <3>2 DEF Inv, Behind
      <3>4. <<"batch", frameIdx - 1>> \in CopyWaits
        BY <1>4, <3>1, <3>2 DEF CopyWaits, None
      <3> QED BY <1>2, <2>2, <3>3, <3>4
    <2> QED BY <1>4, <2>1, <2>2
  <1> QED BY <1>5, <1>6, <1>7, <1>8, <1>9, <1>10 DEF Inv

\* A dispatch adds the batch of the source that was copied; the present either
\* has its release or will wait for it.
LEMMA DispatchKeeps ==
    ASSUME Inv, NEW g \in Nat, Dispatch(g), pc = "copied", HandoffDone,
           device = "generic" /\ g > 0 => frameIdx > 0,
           cycle' \in Cycles, release' \in [Passes -> Int],
           \/ /\ device = "generic" /\ cycle'.exported /\ cycle'.await = None
              /\ release'[Pass] = fgIdx
           \/ ~cycle'.exported /\ cycle'.await = fgIdx
    PROVE  Inv'
  <1>0. PICK o : o = Batch(g)
    OBVIOUS
  <1>1. /\ life = "live" /\ pc' = "sent" /\ fgIdx' = fgIdx + 1
        /\ UNCHANGED <<device, life, frameIdx, slot, gameQ>>
        /\ fgQ' = Append(fgQ, o)
    BY <1>0 DEF Dispatch, memory, wrapper, Inv, Types
  <1>2. /\ o.kind = "batch" /\ o.n = fgIdx /\ o.src = frameIdx /\ o.gen = g
        /\ o.waits = IF cycle.async THEN {<<"copy", frameIdx>>} ELSE {}
    BY <1>0 DEF Batch
  <1>3. /\ IsSeq(fgQ') /\ OpsOf(fgQ') = OpsOf(fgQ) \cup {o}
        /\ Len(fgQ) \in Nat /\ DOMAIN fgQ = 1 .. Len(fgQ)
        /\ DOMAIN fgQ' = 1 .. Len(fgQ) + 1
        /\ \A i \in DOMAIN fgQ : fgQ'[i] = fgQ[i]
        /\ fgQ'[Len(fgQ) + 1] = o
    <2>1. IsSeq(fgQ) /\ fgQ' = Append(fgQ, o)
      BY <1>1 DEF Inv, Types
    <2>2. IsSeq(fgQ') /\ Len(fgQ) \in Nat
      BY <2>1, Appended
    <2>5. OpsOf(fgQ') = OpsOf(fgQ) \cup {o}
      BY <2>1, AppendedOps
    <2>3. DOMAIN fgQ = 1 .. Len(fgQ) /\ DOMAIN fgQ' = 1 .. Len(fgQ) + 1
      BY <2>1, Appended
    <2>4. (\A i \in DOMAIN fgQ : fgQ'[i] = fgQ[i]) /\ fgQ'[Len(fgQ) + 1] = o
      BY <2>1, Appended
    <2> QED BY <2>2, <2>3, <2>4, <2>5
  <1>4. /\ Copies' = Copies /\ Posts' = Posts /\ Batches' = Batches \cup {o}
        /\ LastCopy = frameIdx /\ LastCopy' = frameIdx
        /\ frameIdx \in Nat /\ fgIdx \in Nat
        /\ LastBatch = frameIdx - 1 /\ LastBatch' = frameIdx
        /\ Newest' = Newest /\ Newest \in Int /\ Newest <= frameIdx
    BY <1>1, <1>3
    DEF Copies, Posts, Batches, LastCopy, LastBatch, Newest, Inv, Types, Images
  <1>5. Types'
    BY <1>1, <1>3 DEF Inv, Types
  <1>6. Lockstep' /\ Decided'
    BY <1>1, <1>4 DEF Inv, Lockstep, Decided, Pass
  <1>7. Ops' /\ Images'
    <2>1. Ops'
      BY <1>1, <1>2, <1>3, <1>4 DEF Inv, Ops
    <2>2. Images'
      BY <1>1, <1>4 DEF Inv, Images
    <2> QED BY <2>1, <2>2
  <1>8. Queue'
    BY <1>1, <1>4 DEF Inv, Queue
  <1>9. \A b \in Batches : b.n \in Nat /\ b.src \in Nat /\ b.src < frameIdx /\ b.n < fgIdx
    BY <1>4, Elements DEF Inv, Behind
  <1>10. InOrder'
    <2> SUFFICES ASSUME NEW i \in DOMAIN fgQ', NEW j \in DOMAIN fgQ', i < j
                 PROVE  fgQ'[i].src < fgQ'[j].src /\ fgQ'[i].n < fgQ'[j].n
      BY DEF InOrder
    <2>1. i \in DOMAIN fgQ /\ fgQ'[i] = fgQ[i] /\ fgQ[i] \in Batches
      BY <1>3 DEF Batches, OpsOf
    <2>2. CASE j \in DOMAIN fgQ
      BY <1>3, <2>1, <2>2 DEF Inv, InOrder
    <2>3. CASE j = Len(fgQ) + 1
      BY <1>2, <1>3, <1>9, <2>1, <2>3
    <2> QED BY <1>3, <2>2, <2>3
  <1>11. Fed'
    <2>1. CASE cycle.async
      BY <1>2, <1>4, <2>1 DEF Inv, Fed
    <2>2. CASE ~cycle.async
      <3>1. ~ \E c \in Copies : c.n = frameIdx
        BY <2>2, PendingCopies DEF Inv, HandoffDone
      <3>2. Newest = frameIdx
        BY <1>1, <1>4, <3>1 DEF Inv, Queue
      <3> QED BY <1>2, <1>4, <3>2 DEF Inv, Fed
    <2> QED BY <2>1, <2>2
  <1>12. Behind'
    <2>1. ASSUME NEW b \in Batches
          PROVE  /\ Newest <= b.src /\ b.src <= frameIdx /\ b.n < fgIdx' /\ b.src # frameIdx
                 /\ device = "generic" => b.n = b.src /\ (b.gen > 0 => b.src >= 1)
      BY <1>1, <1>4, <1>9, <2>1 DEF Inv, Behind
    <2>2. /\ Newest <= o.src /\ o.src <= frameIdx /\ o.n < fgIdx' /\ o.n = fgIdx' - 1
          /\ device = "generic" => o.n = o.src /\ (o.gen > 0 => o.src >= 1)
      BY <1>1, <1>2, <1>4 DEF Inv, Lockstep
    <2> QED BY <1>1, <1>4, <2>1, <2>2 DEF Behind
  <1>13. Held'
    <2> SUFFICES ASSUME NEW c \in Copies, NEW b \in Batches', b.src < c.n
                 PROVE  /\ <<"batch", c.n - 1>> \in c.waits
                        /\ \E a \in Batches' : a.src = c.n - 1 /\ a.n = c.n - 1
      BY <1>4 DEF Held
    <2>1. c.n \in Nat /\ c.n <= frameIdx
      BY <1>4, Elements DEF Inv, Queue
    <2>2. b \in Batches
      BY <1>2, <1>4, <2>1
    <2> QED BY <1>4, <2>2 DEF Inv, Held
  <1>14. Fetched'
    <2> SUFFICES ASSUME NEW p \in Posts, NEW b \in Batches', b.src = p.n
                 PROVE  <<"batch", b.n>> \in p.waits
      BY <1>4 DEF Fetched
    <2>1. p.n \in Nat /\ p.n < frameIdx
      BY Elements DEF Inv, Queue
    <2> QED BY <1>2, <1>4, <2>1 DEF Inv, Fetched
  <1>15. Chained'
    <2>1. CASE device = "generic"
      BY <1>1, <1>2, <1>4, <2>1 DEF Chained
    <2>2. CASE device = "adreno"
      <3>1. Batches = {}
        BY <1>1, <2>2 DEF Inv, Chained
      <3> QED BY <1>1, <1>2, <1>4, <2>2, <3>1 DEF Chained
    <2> QED BY <2>1, <2>2 DEF Inv, Types, Devices
  <1> QED BY <1>5, <1>6, <1>7, <1>8, <1>10, <1>11, <1>12, <1>13, <1>14, <1>15 DEF Inv

\* The four ways a batch is completed.
LEMMA DispatchStepKeeps ==
    ASSUME Inv,
           \/ DispatchHistory \/ DispatchGenerate
           \/ AdrenoDispatchHistory \/ AdrenoDispatchGenerate
    PROVE  Inv'
  <1>1. /\ pc = "copied" /\ HandoffDone /\ cycle \in Cycles
        /\ release \in [Passes -> Int] /\ fgIdx \in Nat
        /\ ~cycle.exported /\ cycle.await = None /\ Pass \in Passes
    <2>1. Pass \in Passes
      BY SourceHistoryAssumption DEF Inv, Types, Pass, Passes
    <2> QED BY <2>1 DEF DispatchHistory, DispatchGenerate, AdrenoDispatchHistory,
                AdrenoDispatchGenerate, Inv, Types, Decided
  <1>2. ASSUME Exported, device = "generic"
        PROVE  /\ cycle' \in Cycles /\ release' \in [Passes -> Int]
               /\ cycle'.exported /\ cycle'.await = None /\ release'[Pass] = fgIdx
    <2>1. /\ cycle' = [cycle EXCEPT !.exported = TRUE]
          /\ release' = [release EXCEPT ![Pass] = fgIdx]
      BY <1>2 DEF Exported
    <2>2. cycle' \in Cycles /\ cycle'.exported /\ cycle'.await = cycle.await
      BY <1>1, <2>1 DEF Cycles
    <2>3. release' \in [Passes -> Int] /\ release'[Pass] = fgIdx
      BY <1>1, <2>1
    <2> QED BY <1>1, <2>2, <2>3
  <1>3. ASSUME ImportFailed \/ BackendWaits \/ CallerWaits
        PROVE  /\ cycle' \in Cycles /\ release' \in [Passes -> Int]
               /\ ~cycle'.exported /\ cycle'.await = fgIdx
    <2>1. /\ release' = release
          /\ \/ cycle' = [cycle EXCEPT !.await = fgIdx, !.onTimeout = "stale"]
             \/ cycle' = [cycle EXCEPT !.await = fgIdx]
      BY <1>3 DEF ImportFailed, BackendWaits, CallerWaits
    <2>2. cycle' \in Cycles /\ cycle'.exported = cycle.exported /\ cycle'.await = fgIdx
      <3>1. CASE cycle' = [cycle EXCEPT !.await = fgIdx, !.onTimeout = "stale"]
        <4>1. cycle'.await = fgIdx /\ cycle'.exported = cycle.exported
          BY <1>1, <3>1 DEF Cycles
        <4>2. cycle' = [mode |-> cycle.mode, gen |-> cycle.gen, async |-> cycle.async,
                        await |-> fgIdx, onTimeout |-> "stale",
                        exported |-> cycle.exported]
          BY <1>1, <3>1 DEF Cycles
        <4>3. cycle' \in Cycles
          BY <1>1, <4>2 DEF Cycles
        <4> QED BY <4>1, <4>3
      <3>2. CASE cycle' = [cycle EXCEPT !.await = fgIdx]
        BY <1>1, <3>2 DEF Cycles
      <3> QED BY <2>1, <3>1, <3>2
    <2> QED BY <1>1, <2>1, <2>2
  <1>4. CASE DispatchHistory
    <2>1. Exported \/ ImportFailed \/ BackendWaits
      BY <1>4 DEF DispatchHistory
    <2>2. Dispatch(0) /\ device = "generic"
      BY <1>4 DEF DispatchHistory
    <2> QED BY <1>1, <1>2, <1>3, <2>1, <2>2, DispatchKeeps
  <1>5. CASE DispatchGenerate
    <2>1. Exported \/ ImportFailed \/ BackendWaits \/ CallerWaits
      BY <1>5 DEF DispatchGenerate
    <2>2. /\ Dispatch(cycle.gen) /\ device = "generic" /\ cycle.gen \in Nat
          /\ frameIdx \in Nat /\ frameIdx # 0
      BY <1>1, <1>5 DEF DispatchGenerate, Cycles, Inv, Types, Decided
    <2> QED BY <1>1, <1>2, <1>3, <2>1, <2>2, DispatchKeeps
  <1>6. CASE AdrenoDispatchHistory
    <2>1. BackendWaits /\ Dispatch(0) /\ device # "generic"
      BY <1>6 DEF AdrenoDispatchHistory
    <2> QED BY <1>1, <1>3, <2>1, DispatchKeeps
  <1>7. CASE AdrenoDispatchGenerate
    <2>1. CallerWaits /\ Dispatch(cycle.gen) /\ device # "generic" /\ cycle.gen \in Nat
      BY <1>1, <1>7 DEF AdrenoDispatchGenerate, Cycles
    <2> QED BY <1>1, <1>3, <2>1, DispatchKeeps
  <1> QED BY <1>4, <1>5, <1>6, <1>7

\* The end of a present: the generated copies are queued only once the batch
\* is done or when they wait for it, and a context goes on only if its batch is.
LEMMA FinishKeeps ==
    ASSUME Inv, NEW result \in {"live", "stale"}, NEW posts, NEW arm \in BOOLEAN,
           Finish(result, posts, arm), IsSeq(posts), pc # "idle",
           \A p \in OpsOf(posts) : p.kind = "post" /\ p.n = frameIdx /\ p.waits = OutputWaits,
           OpsOf(posts) # {} => pc = "sent" /\ AwaitDone,
           result = "live" => \/ pc = "sent" /\ AwaitDone
                              \/ pc = "copied" /\ device = "adreno",
           UNCHANGED <<device, release, fgIdx, slot, fgQ>>
    PROVE  Inv'
  <1>0. PICK f : f = IF arm THEN <<Fence(Pass)>> ELSE <<>>
    OBVIOUS
  <1>1. /\ pc \in {"copied", "sent"} /\ life = "live" /\ pc' = "idle" /\ life' = result
        /\ frameIdx \in Nat /\ fgIdx \in Nat /\ frameIdx' = frameIdx + 1 /\ cycle' = Idle
        /\ gameQ' = gameQ \o posts \o f /\ IsSeq(gameQ)
    BY <1>0 DEF Finish, Inv, Types
  <1>2. IsSeq(f) /\ \A x \in OpsOf(f) : x.kind = "fence"
    BY <1>0, Single, Empty DEF Fence
  <1>3. IsSeq(gameQ') /\ OpsOf(gameQ') = OpsOf(gameQ) \cup OpsOf(posts) \cup OpsOf(f)
    <2>1. IsSeq(gameQ')
      BY <1>1, <1>2, Extended
    <2>2. OpsOf(gameQ') = OpsOf(gameQ) \cup OpsOf(posts) \cup OpsOf(f)
      BY <1>1, <1>2, ExtendedOps
    <2> QED BY <2>1, <2>2
  <1>4. \A i \in DOMAIN gameQ' :
           \/ i \in DOMAIN gameQ /\ gameQ'[i] = gameQ[i]
           \/ i \notin DOMAIN gameQ /\ gameQ'[i] \in OpsOf(posts) \cup OpsOf(f)
    BY <1>1, <1>2, Extended
  <1>5. \A i \in DOMAIN gameQ', j \in DOMAIN gameQ : i < j => i \in DOMAIN gameQ
    BY <1>1, <1>2, Extended
  <1>6. /\ Copies' = Copies /\ Posts' = Posts \cup OpsOf(posts) /\ Batches' = Batches
        /\ LastCopy = frameIdx /\ LastCopy' = frameIdx
        /\ LastBatch <= frameIdx /\ LastBatch' = frameIdx
        /\ Newest' = Newest /\ Newest \in Int /\ Newest <= frameIdx
    <2>1. Copies' = Copies
      BY <1>2, <1>3 DEF Copies
    <2>2. Posts' = Posts \cup OpsOf(posts)
      BY <1>2, <1>3 DEF Posts
    <2>3. Batches' = Batches /\ Newest' = Newest
      BY DEF Batches, Newest
    <2>4. LastCopy = frameIdx /\ LastCopy' = frameIdx
      BY <1>1 DEF LastCopy
    <2>5. LastBatch <= frameIdx /\ LastBatch' = frameIdx
      BY <1>1 DEF LastBatch
    <2>6. Newest \in Int /\ Newest <= frameIdx
      BY <2>4 DEF Newest, Inv, Types, Images
    <2> QED BY <2>1, <2>2, <2>3, <2>4, <2>5, <2>6
  \* Once the batch is done, none is left; it has the number of its release.
  <1>7. ASSUME pc = "sent", AwaitDone, ~cycle.exported, NEW b \in Batches
        PROVE  b.src # frameIdx
    <2>1. cycle.await = fgIdx - 1 /\ cycle.await # None
      BY <1>1, <1>7 DEF Inv, Decided, None
    <2>2. <<"batch", fgIdx - 1>> \notin Pending
      BY <1>7, <2>1 DEF AwaitDone
    <2> QED BY <1>7, <2>2, PendingBatches DEF Inv, Behind
  <1>8. Types'
    <2>1. cycle' \in Cycles
      BY <1>1 DEF Idle, Cycles, None
    <2> QED BY <1>1, <1>3, <2>1 DEF Inv, Types
  <1>9. Lockstep' /\ Decided'
    <2>1. Lockstep'
      BY <1>1 DEF Inv, Lockstep
    <2> QED BY <1>1, <2>1 DEF Decided
  <1>10. Ops' /\ Images' /\ InOrder'
    <2>1. Ops'
      BY <1>1, <1>2, <1>4 DEF Inv, Ops
    <2> QED BY <1>6, <2>1 DEF Inv, Images, InOrder
  <1>11. Queue'
    <2>1. ASSUME NEW c \in OpsOf(gameQ), c.kind # "fence"
          PROVE  c.n \in Nat /\ c.n <= frameIdx
      <3>1. c \in Copies \/ c \in Posts
        BY <2>1 DEF Inv, Ops, OpsOf, Copies, Posts
      <3> QED BY <1>6, <3>1, Elements, <1>1 DEF Inv, Queue
    <2>2. ASSUME NEW i \in DOMAIN gameQ', NEW j \in DOMAIN gameQ', i < j,
                 gameQ'[i].kind # "fence", gameQ'[j].kind # "fence"
          PROVE  /\ gameQ'[i].n <= gameQ'[j].n
                 /\ gameQ'[j].kind = "copy" => gameQ'[i].n < gameQ'[j].n
      <3>1. CASE j \in DOMAIN gameQ
        <4>1. i \in DOMAIN gameQ /\ gameQ'[i] = gameQ[i] /\ gameQ'[j] = gameQ[j]
          BY <1>4, <1>5, <2>2, <3>1
        <4> QED BY <2>2, <3>1, <4>1 DEF Inv, Queue
      <3>2. CASE j \notin DOMAIN gameQ
        <4>1. gameQ'[j].n = frameIdx /\ gameQ'[j].kind = "post"
          BY <1>2, <1>4, <2>2, <3>2
        <4>2. gameQ'[i].n \in Nat /\ gameQ'[i].n <= frameIdx
          <5>1. CASE i \in DOMAIN gameQ
            BY <1>4, <2>1, <2>2, <5>1 DEF OpsOf
          <5>2. CASE i \notin DOMAIN gameQ
            BY <1>1, <1>2, <1>4, <2>2, <5>2
          <5> QED BY <5>1, <5>2
        <4> QED BY <4>1, <4>2
      <3> QED BY <3>1, <3>2
    <2>3. ASSUME NEW p \in Posts' PROVE Newest' <= p.n /\ p.n < frameIdx'
      BY <1>1, <1>6, <2>3, Elements DEF Inv, Queue
    <2> QED BY <1>1, <1>6, <2>2, <2>3 DEF Inv, Queue
  <1>12. Fed' /\ Held'
    BY <1>6 DEF Inv, Fed, Held
  <1>13. Behind'
    <2> SUFFICES ASSUME NEW b \in Batches PROVE b.src <= frameIdx
      BY <1>1, <1>6 DEF Inv, Behind
    <2> QED BY <1>1, Elements DEF Inv, Behind, LastBatch
  <1>14. Fetched'
    <2> SUFFICES ASSUME NEW p \in Posts', NEW b \in Batches, b.src = p.n
                 PROVE  <<"batch", b.n>> \in p.waits
      BY <1>6 DEF Fetched
    <2>1. CASE p \in Posts
      BY <2>1 DEF Inv, Fetched
    <2>2. CASE p \in OpsOf(posts)
      <3>1. p.waits = OutputWaits /\ b.src = frameIdx /\ pc = "sent" /\ AwaitDone
        BY <2>2
      <3>2. cycle.exported /\ b.n = fgIdx - 1
        BY <1>7, <3>1 DEF Inv, Behind
      <3> QED BY <3>1, <3>2 DEF OutputWaits
    <2> QED BY <1>6, <2>1, <2>2
  <1>15. Chained'
    <2>1. ASSUME device = "generic", result = "live", NEW b \in Batches
          PROVE  /\ frameIdx' > 0 /\ release[(frameIdx' - 1) % Ring] = frameIdx' - 1
                 /\ \E a \in Batches : a.src = frameIdx' - 1
      <3>1. pc = "sent" /\ AwaitDone /\ frameIdx' - 1 = frameIdx
        BY <1>1, <2>1
      <3>2. PICK a \in Batches : a.src = frameIdx
        BY <1>1, <2>1, <3>1 DEF Inv, Chained
      <3>3. cycle.exported /\ fgIdx - 1 = frameIdx
        BY <1>1, <1>7, <2>1, <3>1, <3>2 DEF Inv, Lockstep
      <3>4. release[frameIdx % Ring] = frameIdx
        BY <3>1, <3>3 DEF Inv, Decided, Pass
      <3> QED BY <1>1, <3>1, <3>2, <3>4
    <2>2. ASSUME device = "adreno", NEW b \in Batches
          PROVE  result = "stale" /\ b.src = frameIdx
      <3>1. pc = "sent" /\ b.src = frameIdx
        BY <1>1, <1>6, <2>2 DEF Inv, Chained
      <3>2. ~cycle.exported
        BY <2>2, <3>1 DEF Inv, Decided
      <3> QED BY <1>7, <3>1, <3>2
    <2> QED BY <1>1, <1>6, <2>1, <2>2 DEF Chained
  <1> QED BY <1>8, <1>9, <1>10, <1>11, <1>12, <1>13, <1>14, <1>15 DEF Inv

\* The seven ways a present ends without an exception.
LEMMA FinishStepKeeps ==
    ASSUME Inv,
           \/ ExportFailed \/ AdrenoWarmup \/ CompletionTimeout \/ AdrenoTimeout
           \/ DeliverHistory \/ AdrenoDeliverHistory
           \/ DeliverGenerated \/ AdrenoDeliverGenerated
    PROVE  Inv'
  <1>1. UNCHANGED <<device, release, fgIdx, slot, fgQ>>
    BY DEF ExportFailed, AdrenoWarmup, CompletionTimeout, AdrenoTimeout, DeliverHistory,
           AdrenoDeliverHistory, DeliverGenerated, AdrenoDeliverGenerated, Delivered,
           backend, memory
  <1>2. \A n \in Nat : /\ IsSeq(GeneratedCopies(n))
                       /\ \A p \in OpsOf(GeneratedCopies(n)) :
                             p.kind = "post" /\ p.n = frameIdx /\ p.waits = OutputWaits
    <2> SUFFICES ASSUME NEW n \in Nat
                 PROVE  /\ IsSeq(GeneratedCopies(n))
                        /\ \A p \in OpsOf(GeneratedCopies(n)) :
                              p.kind = "post" /\ p.n = frameIdx /\ p.waits = OutputWaits
      OBVIOUS
    <2> DEFINE P == Post(frameIdx, OutputWaits)
    <2>1. P.kind = "post" /\ P.n = frameIdx /\ P.waits = OutputWaits
      BY DEF Post
    <2> HIDE DEF P
    <2>2. GeneratedCopies(n) = [i \in 1..n |-> P]
      BY DEF GeneratedCopies, P
    <2>3. OpsOf(GeneratedCopies(n)) \subseteq {P}
      BY <2>2 DEF OpsOf
    <2>4. GeneratedCopies(n) \in Seq(OpsOf(GeneratedCopies(n)))
      BY <2>2, SeqDef DEF OpsOf
    <2> QED BY <2>1, <2>3, <2>4 DEF IsSeq
  <1>3. ASSUME NEW result \in {"live", "stale"}, NEW arm \in BOOLEAN,
               Finish(result, <<>>, arm), pc # "idle",
               result = "live" => \/ pc = "sent" /\ AwaitDone
                                  \/ pc = "copied" /\ device = "adreno"
        PROVE  Inv'
    BY <1>1, <1>3, Empty, FinishKeeps
  <1>4. CASE ExportFailed
    BY <1>3, <1>4 DEF ExportFailed, FailOpenResult
  <1>5. CASE AdrenoWarmup
    <2>1. device = "adreno"
      BY <1>5 DEF AdrenoWarmup, Inv, Types, Decided, Devices
    <2> QED BY <1>3, <1>5, <2>1 DEF AdrenoWarmup
  <1>6. CASE CompletionTimeout
    BY <1>3, <1>6 DEF CompletionTimeout, Expired, Delivered
  <1>7. CASE AdrenoTimeout
    BY <1>3, <1>7 DEF AdrenoTimeout, Expired, Delivered
  <1>8. CASE DeliverHistory
    BY <1>3, <1>8 DEF DeliverHistory, Completed, Delivered
  <1>9. CASE AdrenoDeliverHistory
    BY <1>3, <1>9 DEF AdrenoDeliverHistory, Completed, Delivered
  <1>10. ASSUME NEW n \in Nat, NEW arm \in BOOLEAN, pc = "sent", AwaitDone,
                Finish("live", GeneratedCopies(n), arm)
         PROVE  Inv'
    BY <1>1, <1>2, <1>10, FinishKeeps
  <1>11. CASE DeliverGenerated
    <2>1. cycle.gen \in Nat
      BY DEF Inv, Types, Cycles
    <2>2. PICK k \in 0..cycle.gen : Finish("live", GeneratedCopies(k), TRUE)
      BY <1>11 DEF DeliverGenerated, Delivered
    <2>3. k \in Nat /\ pc = "sent" /\ AwaitDone
      BY <1>11, <2>1 DEF DeliverGenerated, Completed
    <2> QED BY <1>10, <2>2, <2>3
  <1>12. CASE AdrenoDeliverGenerated
    <2>1. cycle.gen \in Nat
      BY DEF Inv, Types, Cycles
    <2> QED BY <1>10, <1>12, <2>1 DEF AdrenoDeliverGenerated, Completed, Delivered
  <1> QED BY <1>4, <1>5, <1>6, <1>7, <1>8, <1>9, <1>11, <1>12

-----------------------------------------------------------------------------
\* The invariant holds for every ring, warm-up and number of frames.
THEOREM InvHolds == Spec => []Inv
  <1>1. Inv /\ [Next]_vars => Inv'
    <2> SUFFICES ASSUME Inv, [Next]_vars PROVE Inv'
      OBVIOUS
    <2>1. CASE Next
      BY <2>1, PresentKeeps, BypassKeeps, DispatchStepKeeps, FinishStepKeeps, ThrowKeeps,
         RecreateKeeps, GameStepKeeps, FgStepKeeps DEF Next
    <2>2. CASE UNCHANGED vars
      <3>1. UNCHANGED <<device, life, pc, cycle, frameIdx, fgIdx, release, slot, gameQ,
                        fgQ, warmup>>
        BY <2>2 DEF vars, wrapper, sync, backend, memory
      <3>2. /\ Newest' = Newest /\ LastCopy' = LastCopy /\ LastBatch' = LastBatch
            /\ Copies' = Copies /\ Posts' = Posts /\ Batches' = Batches
        BY <3>1 DEF Newest, LastCopy, LastBatch, Copies, Posts, Batches
      <3>3. Types' /\ Ops' /\ Images' /\ InOrder' /\ Lockstep' /\ Decided'
        BY <3>1, <3>2 DEF Inv, Types, Ops, Images, InOrder, Lockstep, Decided, Pass
      <3>4. Queue' /\ Fed' /\ Behind' /\ Held' /\ Fetched' /\ Chained'
        BY <3>1, <3>2 DEF Inv, Queue, Fed, Behind, Held, Fetched, Chained
      <3> QED BY <3>3, <3>4 DEF Inv
    <2> QED BY <2>1, <2>2
  <1> QED BY <1>1, InitInv, PTL DEF Spec

\* The game's device and the backend never use a shared source image at once:
\* a copy that may execute finds no batch of an earlier source still to run,
\* and a batch finds no copy of its own or an earlier source.
THEOREM SourcesNeverRace == Spec => []NoSourceRace
  <1>1. Inv => NoSourceRace
    <2> SUFFICES ASSUME Inv PROVE NoSourceRace
      OBVIOUS
    <2>1. ASSUME NEW c \in Copies, Ready(c), NEW b \in Batches PROVE b.src >= c.n
      <3>1. b.src \in Nat /\ c.n \in Nat
        BY Elements DEF Inv
      <3>2. CASE b.src < c.n
        <4>1. PICK a \in Batches : a.n = c.n - 1 /\ <<"batch", a.n>> \in c.waits
          BY <3>2 DEF Inv, Held
        <4>2. <<"batch", a.n>> \in Pending
          BY PendingBatches DEF Inv
        <4> QED BY <2>1, <4>1, <4>2 DEF Ready
      <3> QED BY <3>1, <3>2
    <2>2. ASSUME NEW b \in Batches, Ready(b), NEW c \in Copies PROVE c.n > b.src
      <3>1. Newest = b.src
        BY <2>2, ReadyIsNewest
      <3> QED BY <3>1, Elements DEF Inv, Queue
    <2> QED BY <2>1, <2>2 DEF NoSourceRace
  <1> QED BY <1>1, InvHolds, PTL

\* Outputs are read only after the batch that wrote them, and no later batch
\* that generates may execute while a read is outstanding.
THEOREM OutputsNeverRace == Spec => []NoOutputRace
  <1>1. Inv => NoOutputRace
    <2> SUFFICES ASSUME Inv, NEW p \in Posts, NEW b \in Batches
                 PROVE  /\ Ready(p) => b.src # p.n
                        /\ b.src > p.n => ~Ready(b)
      BY DEF NoOutputRace
    <2>1. ASSUME Ready(p), b.src = p.n PROVE FALSE
      <3>1. <<"batch", b.n>> \in p.waits
        BY <2>1 DEF Inv, Fetched
      <3>2. <<"batch", b.n>> \in Pending
        BY PendingBatches DEF Inv
      <3> QED BY <2>1, <3>1, <3>2 DEF Ready
    <2>2. ASSUME Ready(b), b.src > p.n PROVE FALSE
      <3>1. Newest = b.src
        BY <2>2, ReadyIsNewest
      <3> QED BY <2>2, <3>1, Elements DEF Inv, Queue
    <2> QED BY <2>1, <2>2
  <1> QED BY <1>1, InvHolds, PTL

\* Off Adreno, a batch that generates finds the source before its own and its
\* own in the images its parity selects.
THEOREM PairIsNewest == Spec => []InterpolatesItsPair
  <1>1. Inv => InterpolatesItsPair
    <2> SUFFICES ASSUME Inv, NEW b \in Batches, AtWork(b), b.gen > 0, device = "generic"
                 PROVE  slot[b.n % 2] = b.src /\ slot[(b.n + 1) % 2] = b.src - 1
      BY DEF InterpolatesItsPair
    <2>1. Newest = b.src
      BY ReadyIsNewest DEF AtWork
    <2>2. b.n = b.src /\ b.src >= 1
      BY DEF Inv, Behind
    <2>3. Newest >= 1 /\ b.n = Newest /\ slot[Newest % 2] = Newest
          /\ slot[(Newest + 1) % 2] = Newest - 1
      BY <2>1, <2>2, Elements DEF Inv, Images
    <2> QED BY <2>1, <2>2, <2>3
  <1> QED BY <1>1, InvHolds, PTL

\* Off Adreno the two frame counters agree between the presents of a context
\* that may go on.
THEOREM CountersAgree == Spec => []GenericLockstep
  <1>1. Inv => GenericLockstep
    BY DEF Inv, Lockstep, GenericLockstep
  <1> QED BY <1>1, InvHolds, PTL

-----------------------------------------------------------------------------
(* Epochs *)

\* The number of the batch that the backend executes next.
Done == fgIdx - Len(fgQ)

EpochTypes ==
    /\ warmup \in 0..Warmup /\ sceneOnly \in 0..2 /\ epochStart \in Nat
    /\ adaptive \in BOOLEAN
    /\ feat \in [0..2 -> Int]
    /\ \A b \in Batches : b.start \in Nat

\* Off Adreno every batch is executed in its turn,
Turns ==
    device = "generic" /\ life # "off" =>
        /\ Done \in Nat
        /\ \A i \in DOMAIN fgQ : fgQ[i].n = Done + i - 1
        /\ \A b \in Batches : ~b.seed
        /\ \A m \in Nat : Done - 3 <= m /\ m < Done => feat[m % 3] = m

\* and the warm-up counts the sources of the epoch.
Warmed ==
    device = "generic" =>
        /\ (frameIdx - epochStart) + warmup >= Warmup
        /\ pc = "copied" /\ cycle.mode = "generate" => warmup = 0
        /\ \A b \in Batches : b.gen > 0 => b.src - b.start >= Warmup

\* Adreno: an epoch that a discontinuity started, in Adaptive mode.
Scene == cause = "scene" /\ adaptive

\* The counters name the same image.
OnLevel == frameIdx % 2 = (IF pc = "sent" THEN fgIdx - 1 ELSE fgIdx) % 2

\* The guard counts the sources of such an epoch, and no warm-up interferes.
Guarded ==
    device = "adreno" =>
        /\ cause = "scene" => warmup = 0
        /\ pc = "copied" /\ cycle.mode = "warmup" => warmup > 0
        /\ Scene => (frameIdx - epochStart) + sceneOnly >= 2
        /\ pc = "copied" /\ Scene /\ cycle.gen > 0 => sceneOnly = 0

\* A batch under way was asked what the wrapper decided.
Asked ==
    device = "adreno" /\ pc = "sent" =>
        \A b \in Batches :
            /\ b.start = epochStart /\ b.cause = cause /\ b.adaptive = adaptive
            /\ b.level = OnLevel

\* What it sees is of its epoch, or it replaces what is not.
Sees ==
    device = "adreno" =>
        \A b \in Batches : b.cause = "scene" /\ b.adaptive /\ b.level =>
            /\ b.n % 2 = b.src % 2
            /\ b.seed \/ \A i \in 0..2 : feat[i] >= b.start
            /\ b.start <= b.src /\ (b.gen > 0 => b.start < b.src)

\* Once the seeding batch is executed, every feature is of the epoch.
Seeded ==
    device = "adreno" /\ life = "live" /\ Scene /\ OnLevel /\ fgQ = <<>>
        /\ (sceneOnly < 2 \/ pc = "sent")
    => \A i \in 0..2 : feat[i] >= epochStart

EpochInv == EpochTypes /\ Turns /\ Warmed /\ Guarded /\ Asked /\ Sees /\ Seeded

-----------------------------------------------------------------------------
(* The steps, as to the epochs *)

\* A context that starts.
LEMMA EpochBegins ==
    /\ device \in Devices /\ pc = "idle" /\ frameIdx = 0 /\ fgIdx = 0
    /\ warmup = FreshWarmup /\ sceneOnly = 0 /\ epochStart = 0 /\ cause = "none"
    /\ adaptive \in BOOLEAN /\ feat = NoFeatures /\ fgQ = <<>>
    => EpochInv
  <1> SUFFICES ASSUME device \in Devices, pc = "idle", frameIdx = 0, fgIdx = 0,
                      warmup = FreshWarmup, sceneOnly = 0, epochStart = 0, cause = "none",
                      adaptive \in BOOLEAN, feat = NoFeatures, fgQ = <<>>
               PROVE  EpochInv
    OBVIOUS
  <1> USE SourceHistoryAssumption
  <1>1. Batches = {} /\ DOMAIN fgQ = {} /\ Len(fgQ) = 0
    BY Empty DEF Batches
  <1>2. EpochTypes
    BY <1>1 DEF EpochTypes, FreshWarmup, NoFeatures, None
  <1>3. Turns
    <2>1. Done = 0
      <3>1. Done = 0 - 0
        BY <1>1, Zenon DEF Done
      <3> QED BY <3>1
    <2>2. \A m \in Nat : ~(m < 0)
      OBVIOUS
    <2> QED BY <1>1, <2>1, <2>2 DEF Turns
  <1>4. Warmed
    BY <1>1 DEF Warmed, FreshWarmup
  <1>5. Guarded /\ Asked /\ Sees /\ Seeded
    BY <1>1 DEF Guarded, Asked, Sees, Seeded, Scene
  <1> QED BY <1>2, <1>3, <1>4, <1>5 DEF EpochInv

\* The first context.
LEMMA InitEpoch == Init => EpochInv
  BY EpochBegins DEF Init

\* A context that is recreated.
LEMMA RecreateEpoch == ASSUME Inv, Recreate PROVE EpochInv'
  <1>1. /\ device' \in Devices /\ pc' = "idle" /\ frameIdx' = 0 /\ fgIdx' = 0
        /\ warmup' = FreshWarmup' /\ sceneOnly' = 0 /\ epochStart' = 0 /\ cause' = "none"
        /\ adaptive' \in BOOLEAN /\ feat' = NoFeatures' /\ fgQ' = <<>>
    BY DEF Recreate, Inv, Types, FreshWarmup, NoFeatures
  <1>2. (/\ device \in Devices /\ pc = "idle" /\ frameIdx = 0 /\ fgIdx = 0
         /\ warmup = FreshWarmup /\ sceneOnly = 0 /\ epochStart = 0 /\ cause = "none"
         /\ adaptive \in BOOLEAN /\ feat = NoFeatures /\ fgQ = <<>>)' => EpochInv'
    BY EpochBegins, PTL
  <1> QED BY <1>1, <1>2

\* A context that is dropped.
LEMMA ThrowEpoch == ASSUME EpochInv, Throw PROVE EpochInv'
  <1>1. /\ UNCHANGED <<device, frameIdx, adaptive, warmup, sceneOnly, epochStart, cause,
                       fgIdx, feat>>
        /\ life' = "off" /\ pc' = "idle" /\ fgQ' = <<>>
    BY DEF Throw, wrapper, memory
  <1>2. Batches' = {}
    BY <1>1, Empty DEF Batches
  <1>3. EpochTypes' /\ Turns' /\ Warmed'
    BY <1>1, <1>2 DEF EpochInv, EpochTypes, Turns, Warmed
  <1>4. Guarded' /\ Asked' /\ Sees' /\ Seeded'
    BY <1>1, <1>2 DEF EpochInv, Guarded, Asked, Sees, Seeded, Scene
  <1> QED BY <1>3, <1>4 DEF EpochInv

\* A call that ends the epoch and does nothing else.
LEMMA BypassEpoch ==
    ASSUME Inv, EpochInv, EnterSourceOnlyBypass \/ BusyPassthrough PROVE EpochInv'
  <1> USE SourceHistoryAssumption
  <1>1. /\ UNCHANGED <<device, life, pc, cycle, frameIdx, adaptive, fgIdx, feat, fgQ>>
        /\ warmup' = ResetWarmup /\ sceneOnly' = 0 /\ epochStart' = frameIdx
        /\ cause' = "reset" /\ pc = "idle" /\ frameIdx \in Nat
    BY DEF EnterSourceOnlyBypass, BusyPassthrough, ResetEpoch, backend, memory, Inv, Types
  <1>2. Batches' = Batches /\ Done' = Done
    BY <1>1 DEF Batches, Done
  <1>3. EpochTypes' /\ Turns'
    BY <1>1, <1>2 DEF EpochInv, EpochTypes, Turns, ResetWarmup
  <1>4. Warmed'
    BY <1>1, <1>2 DEF EpochInv, Warmed, ResetWarmup
  <1>5. Guarded' /\ Asked' /\ Sees' /\ Seeded'
    BY <1>1, <1>2 DEF EpochInv, Guarded, Asked, Sees, Seeded, Scene
  <1> QED BY <1>3, <1>4, <1>5 DEF EpochInv

\* A step that changes nothing of it.
LEMMA OtherEpoch ==
    ASSUME EpochInv,
           UNCHANGED <<device, life, pc, cycle, frameIdx, adaptive, wrapper, fgIdx, fgQ, feat>>
    PROVE  EpochInv'
  <1>1. UNCHANGED <<warmup, sceneOnly, epochStart, cause>>
    BY DEF wrapper
  <1>2. Batches' = Batches /\ Done' = Done /\ Scene' = Scene /\ OnLevel' = OnLevel
    BY <1>1 DEF Batches, Done, Scene, OnLevel
  <1>3. EpochTypes' /\ Turns' /\ Warmed'
    BY <1>1, <1>2 DEF EpochInv, EpochTypes, Turns, Warmed
  <1>4. Guarded' /\ Asked' /\ Sees' /\ Seeded'
    BY <1>1, <1>2 DEF EpochInv, Guarded, Asked, Sees, Seeded
  <1> QED BY <1>3, <1>4 DEF EpochInv

\* What the features are after a batch was executed.
LEMMA Executed ==
    ASSUME Inv, EpochTypes, FgStep, NEW o, o = Head(fgQ)
    PROVE  /\ o \in Batches /\ o.n \in Nat /\ o.src \in Nat
           /\ slot \in [0..1 -> Int] /\ slot[o.src % 2] = o.src
           /\ feat' \in [0..2 -> Int]
           /\ \A i \in 0..2 : feat'[i] = IF o.seed \/ i = o.n % 3 THEN slot[o.n % 2]
                                         ELSE feat[i]
           /\ device = "generic" => o.n = o.src
  <1>1. o \in Batches /\ Ready(o)
    BY Popped DEF FgStep, Inv, Types, Batches
  <1>2. o.n \in Nat /\ o.src \in Nat
    BY <1>1, Elements DEF Inv
  <1>3. Newest = o.src
    BY <1>1, ReadyIsNewest
  <1>4. slot \in [0..1 -> Int] /\ slot[o.src % 2] = o.src
    BY <1>2, <1>3 DEF Inv, Types, Images
  <1>5. feat' = [i \in 0..2 |-> IF o.seed \/ i = o.n % 3 THEN slot[o.n % 2] ELSE feat[i]]
    BY DEF FgStep, Preprocessed
  <1>6. slot[o.n % 2] \in Int /\ feat \in [0..2 -> Int]
    BY <1>2, <1>4 DEF EpochTypes
  <1>7. device = "generic" => o.n = o.src
    BY <1>1 DEF Inv, Behind
  <1>8. feat' \in [0..2 -> Int]
    BY <1>5, <1>6
  <1> QED BY <1>1, <1>2, <1>4, <1>5, <1>7, <1>8

\* Protected Adreno has one batch at a time.
LEMMA OneBatch ==
    ASSUME Inv, device = "adreno", FgStep PROVE fgQ' = <<>> /\ Batches' = {}
  <1>1. fgQ # <<>> /\ IsSeq(fgQ) /\ fgQ' = Tail(fgQ)
    BY DEF FgStep, Inv, Types
  <1>2. /\ IsSeq(fgQ') /\ Len(fgQ) \in Nat \ {0} /\ DOMAIN fgQ = 1 .. Len(fgQ)
        /\ DOMAIN fgQ' = 1 .. Len(fgQ) - 1 /\ 1 \in DOMAIN fgQ
    BY <1>1, Popped
  <1>3. \A i \in DOMAIN fgQ : fgQ[i].src = LastCopy /\ fgQ[i].src \in Nat
    BY Elements DEF Inv, Chained, Batches, OpsOf
  <1>4. Len(fgQ) = 1
    <2>1. CASE Len(fgQ) # 1
      <3>1. 2 \in DOMAIN fgQ /\ 1 < 2
        BY <1>2, <2>1
      <3>2. fgQ[1].src < fgQ[2].src
        BY <1>2, <3>1 DEF Inv, InOrder
      <3> QED BY <1>2, <1>3, <3>1, <3>2
    <2> QED BY <2>1
  <1>5. DOMAIN fgQ' = {}
    BY <1>2, <1>4
  <1>6. OpsOf(fgQ') = {}
    BY <1>5 DEF OpsOf
  <1>7. fgQ' = <<>>
    BY <1>5, <1>6, <1>2, EmptySeq, LenProperties DEF IsSeq
  <1> QED BY <1>6, <1>7 DEF Batches

\* A batch that is executed replaces the features of the oldest source.
LEMMA FgStepEpoch == ASSUME Inv, EpochInv, FgStep PROVE EpochInv'
  <1>0. PICK o : o = Head(fgQ)
    OBVIOUS
  <1>1. /\ UNCHANGED <<device, life, pc, cycle, frameIdx, adaptive, warmup, sceneOnly,
                       epochStart, cause, fgIdx>>
        /\ fgQ # <<>> /\ fgQ' = Tail(fgQ) /\ Scene' = Scene /\ OnLevel' = OnLevel
        /\ fgIdx \in Nat
    BY DEF FgStep, wrapper, Scene, OnLevel, Inv, Types
  <1>2. /\ OpsOf(fgQ) = OpsOf(fgQ') \cup {o} /\ Len(fgQ) \in Nat \ {0}
        /\ \A i \in DOMAIN fgQ' : i \in Nat /\ i + 1 \in DOMAIN fgQ /\ fgQ'[i] = fgQ[i + 1]
        /\ 1 \in DOMAIN fgQ /\ o = fgQ[1]
        /\ Len(fgQ') = Len(fgQ) - 1
    <2>1. IsSeq(fgQ)
      BY DEF Inv, Types
    <2>2. /\ OpsOf(fgQ) = OpsOf(fgQ') \cup {o} /\ Len(fgQ) \in Nat \ {0}
          /\ 1 \in DOMAIN fgQ /\ o = fgQ[1]
      BY <1>0, <1>1, <2>1, Popped
    <2>3. /\ DOMAIN fgQ' = 1 .. Len(fgQ) - 1
          /\ \A i \in DOMAIN fgQ' : i + 1 \in DOMAIN fgQ /\ fgQ'[i] = fgQ[i + 1]
      BY <1>1, <2>1, Popped
    <2>4. Len(fgQ') = Len(fgQ) - 1
      BY <1>1, <2>1, HeadTailProperties DEF IsSeq
    <2> QED BY <2>2, <2>3, <2>4
  <1>3. /\ o \in Batches /\ o.n \in Nat /\ o.src \in Nat
        /\ slot \in [0..1 -> Int] /\ slot[o.src % 2] = o.src
        /\ feat' \in [0..2 -> Int]
        /\ \A i \in 0..2 : feat'[i] = IF o.seed \/ i = o.n % 3 THEN slot[o.n % 2]
                                      ELSE feat[i]
        /\ device = "generic" => o.n = o.src
    <2>1. EpochTypes
      BY DEF EpochInv
    <2> QED BY <1>0, <2>1, Executed
  <1>4. Batches' \subseteq Batches
    BY <1>2 DEF Batches
  <1>5. EpochTypes' /\ Warmed' /\ Guarded' /\ Asked'
    <2>1. EpochTypes' /\ Warmed'
      BY <1>1, <1>3, <1>4 DEF EpochInv, EpochTypes, Warmed
    <2>2. Guarded' /\ Asked'
      BY <1>1, <1>4 DEF EpochInv, Guarded, Asked
    <2> QED BY <2>1, <2>2
  <1>6. Turns'
    <2> SUFFICES ASSUME device = "generic", life # "off"
                 PROVE  /\ Done' \in Nat
                        /\ \A i \in DOMAIN fgQ' : fgQ'[i].n = Done' + i - 1
                        /\ \A b \in Batches' : ~b.seed
                        /\ \A m \in Nat : Done' - 3 <= m /\ m < Done' => feat'[m % 3] = m
      BY <1>1 DEF Turns
    <2>1. /\ Done \in Nat /\ \A i \in DOMAIN fgQ : fgQ[i].n = Done + i - 1
          /\ \A b \in Batches : ~b.seed
          /\ \A m \in Nat : Done - 3 <= m /\ m < Done => feat[m % 3] = m
      BY DEF EpochInv, Turns
    <2>2. Done' = Done + 1
      BY <1>1, <1>2 DEF Done
    <2>3. o.n = Done /\ ~o.seed /\ slot[o.n % 2] = o.n
      <3>1. o.n = Done + 1 - 1
        BY <1>2, <2>1
      <3>2. o.n = Done
        BY <2>1, <3>1
      <3> QED BY <1>3, <2>1, <3>2
    <2>4. ASSUME NEW m \in Nat, Done' - 3 <= m, m < Done' PROVE feat'[m % 3] = m
      <3>1. m % 3 \in 0..2
        BY <2>4
      <3>2. CASE m = Done
        BY <1>3, <2>3, <3>1, <3>2
      <3>3. CASE m # Done
        <4>1. Done - 3 <= m /\ m < Done /\ m % 3 # Done % 3
          BY <2>1, <2>2, <2>4, <3>3
        <4>2. feat'[m % 3] = feat[m % 3]
          BY <1>3, <2>3, <3>1, <4>1
        <4> QED BY <2>1, <4>1, <4>2
      <3> QED BY <3>2, <3>3
    <2>5. ASSUME NEW i \in DOMAIN fgQ' PROVE fgQ'[i].n = Done' + i - 1
      <3>1. i \in Nat /\ i + 1 \in DOMAIN fgQ /\ fgQ'[i] = fgQ[i + 1]
        BY <1>2
      <3>2. fgQ'[i].n = Done + (i + 1) - 1
        BY <2>1, <3>1
      <3> QED BY <2>1, <2>2, <3>1, <3>2
    <2> QED BY <1>4, <2>1, <2>2, <2>4, <2>5
  <1>7. Sees'
    BY <1>1, OneBatch DEF Sees
  <1>8. Seeded'
    <2> SUFFICES ASSUME device = "adreno", life = "live", Scene, OnLevel, NEW i \in 0..2
                 PROVE  feat'[i] >= epochStart
      BY <1>1 DEF Seeded
    <2>1. pc = "sent"
      BY <1>3 DEF Inv, Chained
    <2>2. /\ o.start = epochStart /\ o.cause = "scene" /\ o.adaptive /\ o.level
          /\ epochStart \in Nat
      BY <1>3, <2>1 DEF EpochInv, Asked, Scene, EpochTypes
    <2>3. /\ o.n % 2 = o.src % 2 /\ o.start <= o.src
          /\ o.seed \/ \A j \in 0..2 : feat[j] >= o.start
      BY <1>3, <2>2 DEF EpochInv, Sees
    <2>4. CASE o.seed \/ i = o.n % 3
      BY <1>3, <2>2, <2>3, <2>4
    <2>5. CASE ~(o.seed \/ i = o.n % 3)
      BY <1>3, <2>2, <2>3, <2>5
    <2> QED BY <2>4, <2>5
  <1> QED BY <1>5, <1>6, <1>7, <1>8 DEF EpochInv

\* What a present decides after its guards have spoken.
LEMMA Decides ==
    ASSUME Present
    PROVE  \E g \in 0..MaxGenerated :
              Admitted(g) /\ cycle'.mode = Mode(g) /\ cycle'.gen = g
  <1>1. PICK g \in 0..MaxGenerated : Admitted(g) /\ (SubmitCopy(g) \/ SubmitAdrenoCopy(g))
    BY DEF Present
  <1>2. \E async :
           cycle' = [Idle EXCEPT !.mode = Mode(g), !.gen = g, !.async = async]
    BY <1>1 DEF SubmitCopy, SubmitAdrenoCopy, Submit
  <1>3. PICK async : cycle' = [Idle EXCEPT !.mode = Mode(g), !.gen = g, !.async = async]
    BY <1>2
  <1>4. cycle'.mode = Mode(g) /\ cycle'.gen = g
    BY <1>3 DEF Idle
  <1> QED BY <1>1, <1>4

\* A present may begin an epoch; what it generates the guards allow.
LEMMA PresentEpoch == ASSUME Inv, EpochInv, Present PROVE EpochInv'
  <1> USE SourceHistoryAssumption
  <1>1. /\ pc = "idle" /\ life = "live" /\ pc' = "copied"
        /\ UNCHANGED <<device, life, frameIdx, fgIdx, fgQ>>
    BY Presented
  <1>2. feat' = feat /\ frameIdx \in Nat /\ device \in {"adreno", "generic"}
    BY DEF Present, memory, Inv, Types, Devices
  <1>3. Batches' = Batches /\ Done' = Done /\ OnLevel' = OnLevel
    BY <1>1 DEF Batches, Done, OnLevel
  <1>4. \/ UNCHANGED <<adaptive, warmup, sceneOnly, epochStart, cause>>
        \/ /\ adaptive' \in BOOLEAN /\ warmup' = ResetWarmup /\ sceneOnly' = 0
           /\ epochStart' = frameIdx /\ cause' = "reset"
        \/ /\ adaptive' = adaptive /\ epochStart' = frameIdx /\ cause' = "scene"
           /\ warmup' = IF device = "adreno" THEN 0 ELSE Warmup
           /\ sceneOnly' = IF device = "adreno" THEN 2 ELSE 0
    BY DEF Present, wrapper, ResetEpoch, ResetScene
  <1>5. EpochTypes'
    <2>1. warmup' \in 0..Warmup /\ sceneOnly' \in 0..2 /\ epochStart' \in Nat /\ adaptive' \in BOOLEAN
      BY <1>2, <1>4 DEF EpochInv, EpochTypes, ResetWarmup
    <2> QED BY <1>2, <1>3, <2>1 DEF EpochInv, EpochTypes
  <1>6. PICK g \in 0..MaxGenerated : Admitted(g) /\ cycle'.mode = Mode(g) /\ cycle'.gen = g
    BY Decides
  <1>7. warmup' \in Nat /\ sceneOnly' \in Nat
    BY <1>5 DEF EpochTypes
  <1>8. /\ cycle'.mode = "generate" => warmup' = 0
        /\ cycle'.mode = "warmup" => warmup' > 0
    BY <1>2, <1>6, <1>7 DEF Mode
  <1>9. Turns'
    BY <1>1, <1>2, <1>3 DEF EpochInv, Turns
  <1>10. Warmed'
    BY <1>1, <1>2, <1>3, <1>4, <1>8 DEF EpochInv, Warmed, ResetWarmup
  <1>11. Guarded'
    <2> SUFFICES ASSUME device = "adreno"
                 PROVE  /\ cause' = "scene" => warmup' = 0
                        /\ cycle'.mode = "warmup" => warmup' > 0
                        /\ Scene' => (frameIdx - epochStart') + sceneOnly' >= 2
                        /\ Scene' /\ cycle'.gen > 0 => sceneOnly' = 0
      BY <1>1 DEF Guarded
    <2>1. /\ cause' = "scene" => warmup' = 0
          /\ Scene' => (frameIdx - epochStart') + sceneOnly' >= 2
      BY <1>2, <1>4 DEF EpochInv, Guarded, Scene
    <2>2. Scene' /\ cycle'.gen > 0 => sceneOnly' = 0
      BY <1>6, <1>7 DEF Scene, Admitted
    <2> QED BY <1>8, <2>1, <2>2
  <1>12. Asked' /\ Sees'
    BY <1>1, <1>2, <1>3 DEF EpochInv, Asked, Sees
  <1>13. Seeded'
    <2> SUFFICES ASSUME device = "adreno", Scene', OnLevel, fgQ = <<>>, sceneOnly' < 2
                 PROVE  \A i \in 0..2 : feat[i] >= epochStart'
      BY <1>1, <1>2, <1>3 DEF Seeded
    <2>1. /\ adaptive' = adaptive /\ sceneOnly' = sceneOnly
          /\ epochStart' = epochStart /\ cause' = cause
      <3>1. cause' = "scene"
        BY DEF Scene
      <3> QED BY <1>4, <3>1
    <2>2. Scene
      BY <2>1 DEF Scene
    <2> QED BY <1>1, <2>1, <2>2 DEF EpochInv, Seeded
  <1> QED BY <1>5, <1>9, <1>10, <1>11, <1>12, <1>13 DEF EpochInv

\* A batch is asked to generate only after the warm-up and after the guard.
LEMMA DispatchEpoch ==
    ASSUME Inv, EpochInv, NEW g \in Nat, Dispatch(g), pc = "copied",
           g = 0 \/ (g = cycle.gen /\ cycle.mode = "generate")
    PROVE  EpochInv'
  <1>0. PICK o : o = Batch(g)
    OBVIOUS
  <1>1. /\ life = "live" /\ pc' = "sent" /\ fgIdx' = fgIdx + 1
        /\ UNCHANGED <<device, life, frameIdx, adaptive, warmup, sceneOnly, epochStart,
                       cause, feat>>
        /\ fgQ' = Append(fgQ, o) /\ fgIdx \in Nat /\ frameIdx \in Nat
        /\ device \in {"adreno", "generic"}
    BY <1>0 DEF Dispatch, memory, wrapper, Inv, Types, Devices
  <1>2. /\ o.n = fgIdx /\ o.src = frameIdx /\ o.gen = g /\ o.start = epochStart
        /\ o.cause = cause /\ o.adaptive = adaptive /\ o.seed = Seeds
        /\ o.level = (frameIdx % 2 = fgIdx % 2)
    BY <1>0 DEF Batch
  <1>3. /\ OpsOf(fgQ') = OpsOf(fgQ) \cup {o} /\ Len(fgQ) \in Nat
        /\ DOMAIN fgQ = 1 .. Len(fgQ) /\ DOMAIN fgQ' = 1 .. Len(fgQ) + 1
        /\ \A i \in DOMAIN fgQ : fgQ'[i] = fgQ[i]
        /\ fgQ'[Len(fgQ) + 1] = o /\ Len(fgQ') = Len(fgQ) + 1 /\ fgQ' # <<>>
    <2>1. IsSeq(fgQ) /\ fgQ' = Append(fgQ, o)
      BY <1>1 DEF Inv, Types
    <2>2. OpsOf(fgQ') = OpsOf(fgQ) \cup {o}
      BY <2>1, AppendedOps
    <2>3. DOMAIN fgQ = 1 .. Len(fgQ) /\ DOMAIN fgQ' = 1 .. Len(fgQ) + 1 /\ Len(fgQ) \in Nat
      BY <2>1, Appended
    <2>4. (\A i \in DOMAIN fgQ : fgQ'[i] = fgQ[i]) /\ fgQ'[Len(fgQ) + 1] = o
      BY <2>1, Appended
    <2>5. IsSeq(fgQ')
      BY <2>1, Appended
    <2>6. Len(fgQ') = Len(fgQ) + 1
      BY <2>3, <2>5, LenProperties DEF IsSeq
    <2> QED BY <2>2, <2>3, <2>4, <2>6, Empty
  <1>4. Batches' = Batches \cup {o}
    BY <1>3 DEF Batches
  <1>5. EpochTypes'
    BY <1>1, <1>2, <1>4 DEF EpochInv, EpochTypes
  <1>6. Turns'
    <2> SUFFICES ASSUME device = "generic"
                 PROVE  /\ Done' \in Nat
                        /\ \A i \in DOMAIN fgQ' : fgQ'[i].n = Done' + i - 1
                        /\ \A b \in Batches' : ~b.seed
                        /\ \A m \in Nat : Done' - 3 <= m /\ m < Done' => feat'[m % 3] = m
      BY <1>1 DEF Turns
    <2>1. /\ Done \in Nat /\ \A i \in DOMAIN fgQ : fgQ[i].n = Done + i - 1
          /\ \A b \in Batches : ~b.seed
          /\ \A m \in Nat : Done - 3 <= m /\ m < Done => feat[m % 3] = m
      BY <1>1 DEF EpochInv, Turns
    <2>2. Done' = Done
      BY <1>1, <1>3 DEF Done
    <2>3. ASSUME NEW i \in DOMAIN fgQ' PROVE fgQ'[i].n = Done' + i - 1
      <3>1. CASE i \in DOMAIN fgQ
        BY <1>3, <2>1, <2>2, <3>1
      <3>2. CASE i = Len(fgQ) + 1
        <4>1. Done' + i - 1 = fgIdx
          BY <1>1, <1>3, <2>2, <3>2 DEF Done
        <4> QED BY <1>2, <1>3, <3>2, <4>1
      <3> QED BY <1>3, <3>1, <3>2
    <2>4. ~o.seed
      BY <1>2 DEF Seeds
    <2> QED BY <1>1, <1>4, <2>1, <2>2, <2>3, <2>4
  <1>7. Warmed'
    <2>1. device = "generic" /\ g > 0 => frameIdx - epochStart >= Warmup
      BY <1>1 DEF EpochInv, Warmed, EpochTypes
    <2> QED BY <1>1, <1>2, <1>4, <2>1 DEF EpochInv, Warmed
  <1>8. Guarded'
    BY <1>1 DEF EpochInv, Guarded, Scene
  <1>9. device = "adreno" => Batches = {} /\ fgQ = <<>>
    <2>1. device = "adreno" => Batches = {}
      BY <1>1 DEF Inv, Chained
    <2>2. Batches = {} => DOMAIN fgQ = {}
      BY DEF Batches, OpsOf
    <2>3. DOMAIN fgQ = {} => fgQ = <<>>
      BY EmptySeq, LenProperties DEF Inv, Types, IsSeq
    <2> QED BY <2>1, <2>2, <2>3
  <1>10. Asked'
    BY <1>1, <1>2, <1>4, <1>9 DEF Asked, OnLevel
  <1>11. Sees'
    <2> SUFFICES ASSUME device = "adreno", o.cause = "scene", o.adaptive, o.level
                 PROVE  /\ o.n % 2 = o.src % 2
                        /\ o.seed \/ \A i \in 0..2 : feat[i] >= o.start
                        /\ o.start <= o.src /\ (o.gen > 0 => o.start < o.src)
      BY <1>1, <1>4, <1>9 DEF Sees
    <2>1. Scene /\ OnLevel /\ sceneOnly \in 0..2 /\ epochStart \in Nat
      BY <1>2 DEF Scene, OnLevel, EpochInv, EpochTypes
    <2>2. /\ (frameIdx - epochStart) + sceneOnly >= 2
          /\ g > 0 => sceneOnly = 0
      BY <2>1 DEF EpochInv, Guarded
    <2>3. sceneOnly = 2 => o.seed
      BY <1>2, <2>1 DEF Seeds, Scene
    <2>4. sceneOnly < 2 => \A i \in 0..2 : feat[i] >= epochStart
      BY <1>1, <1>9, <2>1 DEF EpochInv, Seeded
    <2>5. o.n % 2 = o.src % 2
      BY <1>2
    <2>6. o.seed \/ \A i \in 0..2 : feat[i] >= o.start
      <3>1. CASE sceneOnly = 2
        BY <2>3, <3>1
      <3>2. CASE sceneOnly < 2
        BY <1>2, <2>4, <3>2
      <3> QED BY <2>1, <3>1, <3>2
    <2>7. o.start <= o.src /\ (o.gen > 0 => o.start < o.src)
      BY <1>1, <1>2, <2>1, <2>2
    <2> QED BY <2>5, <2>6, <2>7
  <1>12. Seeded'
    BY <1>3 DEF Seeded
  <1> QED BY <1>5, <1>6, <1>7, <1>8, <1>10, <1>11, <1>12 DEF EpochInv

\* The four ways to dispatch,
LEMMA DispatchStepEpoch ==
    ASSUME Inv, EpochInv,
           \/ DispatchHistory \/ DispatchGenerate
           \/ AdrenoDispatchHistory \/ AdrenoDispatchGenerate
    PROVE  EpochInv'
  <1>1. /\ pc = "copied" /\ cycle.gen \in Nat
        /\ Dispatch(0) \/ (Dispatch(cycle.gen) /\ cycle.mode = "generate")
    BY DEF DispatchHistory, DispatchGenerate, AdrenoDispatchHistory, AdrenoDispatchGenerate,
           Inv, Types, Cycles
  <1> QED BY <1>1, DispatchEpoch

\* The end of a present: the warm-up and the guard lose at most the one source
\* that the epoch has gained.
LEMMA FinishEpoch ==
    ASSUME Inv, EpochInv, NEW result \in {"live", "stale"}, NEW posts, NEW arm \in BOOLEAN,
           Finish(result, posts, arm), pc # "idle",
           UNCHANGED <<device, adaptive, fgIdx, feat, fgQ>>,
           NEW w \in 0..Warmup, NEW s \in 0..2, KeepHistory(w, s) \/ Suspended,
           device = "generic" => w >= warmup - 1,
           device = "adreno" /\ cause = "scene" => w = 0,
           device = "adreno" /\ Scene => s >= sceneOnly - 1,
           device = "adreno" /\ Scene /\ result = "live" => pc = "sent"
    PROVE  EpochInv'
  <1> USE SourceHistoryAssumption
  <1>1. /\ life = "live" /\ pc' = "idle" /\ life' = result /\ frameIdx' = frameIdx + 1
        /\ frameIdx \in Nat /\ fgIdx \in Nat /\ device \in {"adreno", "generic"}
        /\ warmup \in 0..Warmup /\ sceneOnly \in 0..2 /\ epochStart \in Nat
    BY DEF Finish, Inv, Types, Devices, EpochInv, EpochTypes
  <1>2. \/ /\ warmup' = w /\ sceneOnly' = s /\ UNCHANGED <<epochStart, cause>>
        \/ /\ warmup' = ResetWarmup /\ sceneOnly' = 0 /\ epochStart' = frameIdx + 1
           /\ cause' = "reset"
    BY DEF KeepHistory, Suspended, ResetEpoch
  <1>3. Batches' = Batches /\ Done' = Done
    BY DEF Batches, Done
  <1>4. EpochTypes' /\ Turns'
    <2>1. warmup' \in 0..Warmup /\ sceneOnly' \in 0..2 /\ epochStart' \in Nat
      BY <1>1, <1>2 DEF ResetWarmup
    <2> QED BY <1>1, <1>3, <2>1 DEF EpochInv, EpochTypes, Turns
  <1>5. Warmed'
    BY <1>1, <1>2, <1>3 DEF EpochInv, Warmed, ResetWarmup
  <1>6. Guarded'
    BY <1>1, <1>2 DEF EpochInv, Guarded, Scene
  <1>7. Asked' /\ Sees'
    BY <1>1, <1>3 DEF EpochInv, Asked, Sees
  <1>8. Seeded'
    <2> SUFFICES ASSUME device = "adreno", result = "live", Scene', OnLevel', fgQ = <<>>
                 PROVE  \A i \in 0..2 : feat[i] >= epochStart'
      BY <1>1 DEF Seeded
    <2>1. Scene /\ epochStart' = epochStart
      BY <1>2 DEF Scene
    <2>2. pc = "sent" /\ OnLevel
      BY <1>1, <2>1 DEF OnLevel
    <2> QED BY <1>1, <2>1, <2>2 DEF EpochInv, Seeded
  <1> QED BY <1>4, <1>5, <1>6, <1>7, <1>8 DEF EpochInv

\* the eight ways to end a present,
LEMMA FinishStepEpoch ==
    ASSUME Inv, EpochInv,
           \/ ExportFailed \/ AdrenoWarmup \/ CompletionTimeout \/ AdrenoTimeout
           \/ DeliverHistory \/ AdrenoDeliverHistory
           \/ DeliverGenerated \/ AdrenoDeliverGenerated
    PROVE  EpochInv'
  <1>1. /\ UNCHANGED <<device, adaptive, fgIdx, feat, fgQ>> /\ pc # "idle"
        /\ device \in {"adreno", "generic"} /\ cycle.gen \in Nat
    BY DEF ExportFailed, AdrenoWarmup, CompletionTimeout, AdrenoTimeout, DeliverHistory,
           AdrenoDeliverHistory, DeliverGenerated, AdrenoDeliverGenerated, Delivered,
           Expired, Completed, backend, memory, Inv, Types, Devices, Cycles
  <1>2. /\ warmup \in 0..Warmup /\ sceneOnly \in 0..2 /\ Warmup \in Nat
        /\ Warmup \in 0..Warmup
        /\ Decrement(warmup) \in 0..Warmup /\ Decrement(sceneOnly) \in 0..2
        /\ Decrement(warmup) >= warmup - 1 /\ Decrement(sceneOnly) >= sceneOnly - 1
        /\ Warmup >= warmup - 1 /\ sceneOnly >= sceneOnly - 1 /\ 0 \in 0..Warmup
    BY SourceHistoryAssumption DEF EpochInv, EpochTypes, Decrement
  <1>3. /\ device = "adreno" /\ cause = "scene" => warmup = 0
        /\ device = "adreno" /\ pc = "copied" /\ cycle.mode = "warmup" => warmup > 0
    BY DEF EpochInv, Guarded
  <1>4. ASSUME NEW result \in {"live", "stale"}, NEW posts, NEW arm \in BOOLEAN,
               Finish(result, posts, arm), NEW w \in 0..Warmup, NEW s \in 0..2,
               KeepHistory(w, s),
               device = "generic" => w >= warmup - 1,
               device = "adreno" /\ cause = "scene" => w = 0,
               device = "adreno" /\ Scene => s >= sceneOnly - 1,
               device = "adreno" /\ Scene /\ result = "live" => pc = "sent"
        PROVE  EpochInv'
    BY <1>1, <1>4, FinishEpoch
  <1>5. ASSUME NEW result \in {"live", "stale"}, NEW posts, NEW arm \in BOOLEAN,
               Finish(result, posts, arm), KeepHistory(warmup, sceneOnly) \/ Suspended,
               device = "adreno" /\ Scene /\ result = "live" => pc = "sent"
        PROVE  EpochInv'
    BY <1>1, <1>2, <1>3, <1>5, FinishEpoch
  <1>6. CASE ExportFailed
    <2>1. /\ device = "generic" /\ Finish("stale", <<>>, TRUE)
          /\ KeepHistory(Warmup, sceneOnly) \/ Suspended
      BY <1>6 DEF ExportFailed, FailOpenResult
    <2>2. CASE KeepHistory(Warmup, sceneOnly)
      BY <1>2, <1>4, <2>1, <2>2
    <2>3. CASE Suspended
      BY <1>5, <2>1, <2>3
    <2> QED BY <2>1, <2>2, <2>3
  <1>7. CASE AdrenoWarmup
    <2>1. /\ pc = "copied" /\ cycle.mode = "warmup" /\ Finish("live", <<>>, FALSE)
          /\ KeepHistory(0, sceneOnly) \/ Suspended
      BY <1>7 DEF AdrenoWarmup
    <2>2. device = "adreno" /\ ~Scene
      BY <1>1, <1>2, <1>3, <2>1 DEF Inv, Decided, Scene
    <2>3. CASE KeepHistory(0, sceneOnly)
      BY <1>2, <1>4, <2>1, <2>2, <2>3
    <2>4. CASE Suspended
      BY <1>5, <2>1, <2>2, <2>4
    <2> QED BY <2>1, <2>3, <2>4
  <1>8. CASE CompletionTimeout
    <2>1. device = "generic" /\ Finish("stale", <<>>, TRUE)
      BY <1>8 DEF CompletionTimeout, Expired, Delivered
    <2>2. KeepHistory(Warmup, sceneOnly) \/ KeepHistory(warmup, sceneOnly) \/ Suspended
      BY <1>8 DEF CompletionTimeout
    <2>3. CASE KeepHistory(Warmup, sceneOnly)
      BY <1>2, <1>4, <2>1, <2>3
    <2>4. CASE KeepHistory(warmup, sceneOnly) \/ Suspended
      BY <1>5, <2>1, <2>4
    <2> QED BY <2>2, <2>3, <2>4
  <1>9. CASE AdrenoTimeout
    <2>1. /\ device = "adreno" /\ Finish("stale", <<>>, FALSE)
          /\ KeepHistory(warmup, sceneOnly) \/ Suspended
      BY <1>9 DEF AdrenoTimeout, Expired, Delivered
    <2> QED BY <1>5, <2>1
  <1>10. CASE DeliverHistory
    <2>1. /\ device = "generic" /\ Finish("live", <<>>, TRUE)
          /\ KeepHistory(Decrement(warmup), Decrement(sceneOnly)) \/ Suspended
      BY <1>10 DEF DeliverHistory, Completed, Delivered
    <2>2. CASE KeepHistory(Decrement(warmup), Decrement(sceneOnly))
      BY <1>2, <1>4, <2>1, <2>2
    <2>3. CASE Suspended
      BY <1>5, <2>1, <2>3
    <2> QED BY <2>1, <2>2, <2>3
  <1>11. CASE AdrenoDeliverHistory
    <2>1. /\ device = "adreno" /\ pc = "sent" /\ Finish("live", <<>>, FALSE)
          /\ \/ KeepHistory(0, IF adaptive THEN Decrement(sceneOnly) ELSE sceneOnly)
             \/ Suspended
      BY <1>11 DEF AdrenoDeliverHistory, Completed, Delivered
    <2>2. CASE KeepHistory(0, sceneOnly)
      BY <1>2, <1>4, <2>1, <2>2
    <2>3. CASE KeepHistory(0, Decrement(sceneOnly))
      BY <1>2, <1>4, <2>1, <2>3
    <2>4. CASE Suspended
      BY <1>5, <2>1, <2>4
    <2> QED BY <2>1, <2>2, <2>3, <2>4
  <1>12. CASE DeliverGenerated
    <2>1. pc = "sent" /\ (KeepHistory(warmup, sceneOnly) \/ Suspended)
      BY <1>12 DEF DeliverGenerated, Completed
    <2>2. PICK k \in 0..cycle.gen : Finish("live", GeneratedCopies(k), TRUE)
      BY <1>12 DEF DeliverGenerated, Delivered
    <2> QED BY <1>5, <2>1, <2>2
  <1>13. CASE AdrenoDeliverGenerated
    <2>1. /\ pc = "sent" /\ (KeepHistory(warmup, sceneOnly) \/ Suspended)
          /\ Finish("live", GeneratedCopies(cycle.gen), FALSE)
      BY <1>13 DEF AdrenoDeliverGenerated, Completed, Delivered
    <2> QED BY <1>5, <2>1
  <1> QED BY <1>6, <1>7, <1>8, <1>9, <1>10, <1>11, <1>12, <1>13

\* and every other step.
LEMMA EpochHolds == Spec => []EpochInv
  <1>1. Inv /\ EpochInv /\ [Next]_vars => EpochInv'
    <2> SUFFICES ASSUME Inv, EpochInv, [Next]_vars PROVE EpochInv'
      OBVIOUS
    <2>1. CASE GameStep
      <3>1. UNCHANGED <<device, life, pc, cycle, frameIdx, adaptive, wrapper, fgIdx, fgQ, feat>>
        BY <2>1 DEF GameStep, backend
      <3> QED BY <3>1, OtherEpoch
    <2>2. CASE UNCHANGED vars
      <3>1. UNCHANGED <<device, life, pc, cycle, frameIdx, adaptive, wrapper, fgIdx, fgQ, feat>>
        BY <2>2 DEF vars, backend, memory
      <3> QED BY <3>1, OtherEpoch
    <2>3. CASE Next /\ ~GameStep
      BY <2>3, PresentEpoch, BypassEpoch, DispatchStepEpoch, FinishStepEpoch, ThrowEpoch,
         RecreateEpoch, FgStepEpoch DEF Next
    <2> QED BY <2>1, <2>2, <2>3
  <1> QED BY <1>1, InvHolds, InitEpoch, PTL DEF Spec

\* With a warm-up of two sources or more (the code has four), a batch that
\* generates sees no feature and no image of a source from before the epoch's
\* first: off Adreno after any bypass, reset, failed export, timeout or recreation,
\* on Adreno after a discontinuity in Adaptive mode.
THEOREM EpochsAreApart ==
    ASSUME Warmup >= 2
    PROVE  Spec => []GeneratesWithinEpoch
  <1>1. Inv /\ EpochInv => GeneratesWithinEpoch
    <2> SUFFICES ASSUME Inv, EpochInv, NEW b \in Batches, AtWork(b), b.gen > 0,
                        device = "generic" \/ (b.cause = "scene" /\ b.adaptive /\ b.level)
                 PROVE  /\ \A i \in 0..2 : Preprocessed(b)[i] >= b.start
                        /\ \A s \in 0..1 : slot[s] >= b.start
      BY DEF GeneratesWithinEpoch
    <2>1. Newest = b.src /\ b.src \in Nat /\ b.n \in Nat /\ b.start \in Nat
      BY ReadyIsNewest, Elements DEF AtWork, Inv, EpochInv, EpochTypes
    <2>2. /\ slot \in [0..1 -> Int] /\ feat \in [0..2 -> Int] /\ slot[b.src % 2] = b.src
          /\ b.src >= 1 => slot[(b.src + 1) % 2] = b.src - 1
      BY <2>1 DEF Inv, Types, Images, EpochInv, EpochTypes
    <2>3. life # "off" /\ device \in {"adreno", "generic"}
      BY Empty DEF Inv, Types, Batches, Devices
    <2>4. b.start < b.src /\ b.n % 2 = b.src % 2
      <3>1. CASE device = "generic"
        <4>1. b.n = b.src /\ b.src - b.start >= Warmup
          BY <3>1 DEF Inv, Behind, EpochInv, Warmed
        <4> QED BY <2>1, <4>1, SourceHistoryAssumption
      <3>2. CASE device = "adreno"
        BY <3>2 DEF EpochInv, Sees
      <3> QED BY <2>3, <3>1, <3>2
    <2>5. b.seed \/ \A i \in 0..2 : i = b.n % 3 \/ feat[i] >= b.start
      <3>1. CASE device = "generic"
        <4>1. b.n = b.src /\ b.src - b.start >= 2
          BY <2>1, <3>1, SourceHistoryAssumption DEF Inv, Behind, EpochInv, Warmed
        <4>2. b.n = Done
          <5>1. 1 \in DOMAIN fgQ /\ b = fgQ[1]
            BY Popped DEF AtWork, Inv, Types
          <5>2. Done \in Nat /\ b.n = Done + 1 - 1
            BY <2>3, <3>1, <5>1 DEF EpochInv, Turns
          <5> QED BY <5>2
        <4>3. feat[(b.n - 1) % 3] = b.n - 1 /\ feat[(b.n - 2) % 3] = b.n - 2
          <5>1. \A m \in Nat : b.n - 3 <= m /\ m < b.n => feat[m % 3] = m
            BY <2>3, <3>1, <4>2 DEF EpochInv, Turns
          <5>2. b.n - 1 \in Nat /\ b.n - 2 \in Nat
            BY <2>1, <4>1
          <5> QED BY <2>1, <5>1, <5>2
        <4>4. \A i \in 0..2 : i = b.n % 3 \/ i = (b.n - 1) % 3 \/ i = (b.n - 2) % 3
          BY <2>1
        <4> QED BY <2>1, <4>1, <4>3, <4>4
      <3>2. CASE device = "adreno"
        BY <3>2 DEF EpochInv, Sees
      <3> QED BY <2>3, <3>1, <3>2
    <2>6. ASSUME NEW i \in 0..2 PROVE Preprocessed(b)[i] >= b.start
      <3>1. Preprocessed(b)[i] = IF b.seed \/ i = b.n % 3 THEN slot[b.n % 2] ELSE feat[i]
        BY DEF Preprocessed
      <3>2. CASE b.seed \/ i = b.n % 3
        BY <2>1, <2>2, <2>4, <3>1, <3>2
      <3>3. CASE ~(b.seed \/ i = b.n % 3)
        BY <2>1, <2>2, <2>5, <3>1, <3>3
      <3> QED BY <3>2, <3>3
    <2>7. ASSUME NEW s \in 0..1 PROVE slot[s] >= b.start
      <3>1. s = b.src % 2 \/ s = (b.src + 1) % 2
        BY <2>1
      <3> QED BY <2>1, <2>2, <2>4, <3>1
    <2> QED BY <2>6, <2>7
  <1> QED BY <1>1, InvHolds, EpochHolds, PTL
=============================================================================
