-------------------------- MODULE WFileWriter_proofs --------------------------
(***************************************************************************)
(* Proofs about WFileWriter for every set of records, every limit, every    *)
(* fault and any number of stores.                                          *)
(***************************************************************************)
EXTENDS WFileWriter, SequenceTheorems, TLAPS

-----------------------------------------------------------------------------
(* Sequences of members. *)

\* A member of a sequence of members lies at natural offsets.
LEMMA MemberAt ==
  ASSUME NEW ms \in Seq(MemberType), NEW i \in 1 .. Len(ms)
  PROVE  /\ ms[i] \in MemberType
         /\ ms[i].off \in Nat /\ ms[i].len \in Nat
         /\ EndOf(ms[i]) \in Nat /\ ms[i].off <= EndOf(ms[i])
<1>1. ms[i] \in MemberType  OBVIOUS
<1> QED  BY <1>1, SMTT(30) DEF MemberType, EndOf

\* A damaged member is a member that ends where it is said to.
LEMMA DamagedType ==
  ASSUME NEW m \in MemberType, NEW f \in Nat, NEW t \in Nat, f <= t
  PROVE  /\ Damaged(m, f, t) \in MemberType
         /\ Damaged(m, f, t).off = f /\ EndOf(Damaged(m, f, t)) = t
BY DEF Damaged, MemberType, EndOf

\* Cutting a sequence of members yields members.
LEMMA CutAtType ==
  ASSUME NEW ms \in Seq(MemberType), NEW w \in Nat
  PROVE  /\ CutAt(ms, w) \in Seq(MemberType)
         /\ Len(CutAt(ms, w)) = Len(ms)
<1>1. ASSUME NEW i \in 1 .. Len(ms)
      PROVE  CutAt(ms, w)[i] \in MemberType
  <2>1. MinOf(ms[i].off, w) \in Nat /\ MinOf(ms[i].off, w) <= w
    BY MemberAt DEF MinOf
  <2>2. Damaged(ms[i], MinOf(ms[i].off, w), w) \in MemberType
    BY <2>1, MemberAt, DamagedType
  <2> QED  BY <2>2, MemberAt DEF CutAt
<1>2. Len(CutAt(ms, w)) = Len(ms)
  BY DEF CutAt
<1> QED  BY <1>1, <1>2 DEF CutAt

\* Overwriting bytes of a sequence of members yields members.
LEMMA OverwrittenType ==
  ASSUME NEW ms \in Seq(MemberType), NEW f \in Nat, NEW t \in Nat
  PROVE  /\ Overwritten(ms, f, t) \in Seq(MemberType)
         /\ Len(Overwritten(ms, f, t)) = Len(ms)
<1>1. ASSUME NEW i \in 1 .. Len(ms)
      PROVE  Overwritten(ms, f, t)[i] \in MemberType
  <2>1. Damaged(ms[i], ms[i].off, EndOf(ms[i])) \in MemberType
    BY MemberAt, DamagedType
  <2> QED  BY <2>1, MemberAt DEF Overwritten
<1>2. Len(Overwritten(ms, f, t)) = Len(ms)
  BY DEF Overwritten
<1> QED  BY <1>1, <1>2 DEF Overwritten

\* The members end at a natural number, the end of the last one.
LEMMA FileEndType ==
  ASSUME NEW ms \in Seq(MemberType)
  PROVE  /\ FileEnd(ms) \in Nat
         /\ ms # << >> => /\ Len(ms) \in 1 .. Len(ms)
                          /\ FileEnd(ms) = EndOf(ms[Len(ms)])
<1>1. CASE ms = << >>  BY <1>1 DEF FileEnd
<1>2. CASE ms # << >>
  <2>1. Len(ms) \in 1 .. Len(ms)  BY <1>2
  <2> QED  BY <1>2, <2>1, MemberAt DEF FileEnd
<1> QED  BY <1>1, <1>2

\* In an ordered sequence no member ends after the last one.
LEMMA OrderedEnd ==
  ASSUME NEW ms \in Seq(MemberType), Ordered(ms), NEW i \in 1 .. Len(ms)
  PROVE  EndOf(ms[i]) <= FileEnd(ms)
<1>1. ms # << >> /\ Len(ms) \in 1 .. Len(ms)  OBVIOUS
<1>2. FileEnd(ms) = EndOf(ms[Len(ms)])  BY <1>1 DEF FileEnd
<1>3. CASE i = Len(ms)  BY <1>2, <1>3, <1>1, MemberAt
<1>4. CASE i # Len(ms)
  <2>1. EndOf(ms[i]) <= ms[Len(ms)].off  BY <1>1, <1>4 DEF Ordered
  <2> QED  BY <2>1, <1>1, <1>2, MemberAt
<1> QED  BY <1>3, <1>4

\* A cut at or after the end changes nothing.
LEMMA CutAfterEnd ==
  ASSUME NEW ms \in Seq(MemberType), Ordered(ms),
         NEW w \in Nat, FileEnd(ms) <= w
  PROVE  CutAt(ms, w) = ms
<1>1. ASSUME NEW i \in 1 .. Len(ms) PROVE CutAt(ms, w)[i] = ms[i]
  <2>1. EndOf(ms[i]) <= w
    BY OrderedEnd, FileEndType, MemberAt
  <2> QED  BY <2>1 DEF CutAt
<1> QED  BY <1>1, CutAtType, SeqEqual

\* An overwrite after the end changes nothing.
LEMMA OverwriteAfterEnd ==
  ASSUME NEW ms \in Seq(MemberType), Ordered(ms),
         NEW f \in Nat, NEW t \in Nat, FileEnd(ms) <= f
  PROVE  Overwritten(ms, f, t) = ms
<1>1. ASSUME NEW i \in 1 .. Len(ms) PROVE Overwritten(ms, f, t)[i] = ms[i]
  <2>1. EndOf(ms[i]) <= f
    BY OrderedEnd, FileEndType, MemberAt
  <2> QED  BY <2>1 DEF Overwritten
<1> QED  BY <1>1, OverwrittenType, SeqEqual

\* A cut inside the last member changes that member only, and leaves the
\* members tiling a file of the length cut to.
LEMMA CutInLast ==
  ASSUME NEW ms \in Seq(MemberType), Ordered(ms), Tiled(ms),
         NEW w \in Nat, w <= FileEnd(ms),
         ms # << >> => ms[Len(ms)].off <= w
  PROVE  /\ \A i \in 1 .. Len(ms) - 1 : CutAt(ms, w)[i] = ms[i]
         /\ Ordered(CutAt(ms, w)) /\ Tiled(CutAt(ms, w))
         /\ FileEnd(CutAt(ms, w)) = w
         /\ ms # << >> => CutAt(ms, w)[Len(ms)].off = ms[Len(ms)].off
<1> DEFINE n == Len(ms)
           cs == CutAt(ms, w)
<1>1. CASE ms = << >>
  <2>1. cs = << >> /\ w = 0  BY <1>1 DEF CutAt, FileEnd
  <2> QED  BY <1>1, <2>1 DEF Ordered, Tiled, FileEnd
<1>2. CASE ms # << >>
  <2>1. n \in Nat \ {0} /\ cs \in Seq(MemberType) /\ Len(cs) = n
    BY <1>2, CutAtType
  <2>2. ASSUME NEW i \in 1 .. n - 1
        PROVE  EndOf(ms[i]) <= w /\ cs[i] = ms[i]
    <3>1. i \in 1 .. n /\ n \in 1 .. n /\ i < n  BY <2>1
    <3>2. EndOf(ms[i]) <= ms[n].off  BY <3>1 DEF Ordered
    <3>3. EndOf(ms[i]) <= w  BY <3>1, <3>2, <1>2, MemberAt
    <3> QED  BY <3>1, <3>3 DEF CutAt
  <2>3. cs[n].off = ms[n].off /\ EndOf(cs[n]) = w
    <3>1. n \in 1 .. n /\ EndOf(ms[n]) = FileEnd(ms)
      BY <1>2, FileEndType
    <3>2. CASE EndOf(ms[n]) <= w
      <4>1. cs[n] = ms[n]  BY <3>1, <3>2 DEF CutAt
      <4>2. EndOf(ms[n]) = w  BY <3>1, <3>2, FileEndType
      <4> QED  BY <4>1, <4>2
    <3>3. CASE ~(EndOf(ms[n]) <= w)
      <4>1. cs[n] = Damaged(ms[n], MinOf(ms[n].off, w), w)
        BY <3>1, <3>3 DEF CutAt
      <4>2. MinOf(ms[n].off, w) = ms[n].off
        BY <1>2, <3>1, MemberAt DEF MinOf
      <4>3. ms[n] \in MemberType /\ ms[n].off \in Nat /\ ms[n].off <= w
        BY <1>2, <3>1, MemberAt
      <4>4. LET d == Damaged(ms[n], ms[n].off, w)
            IN  d.off = ms[n].off /\ EndOf(d) = w
        BY <4>3, DamagedType
      <4> QED  BY <4>1, <4>2, <4>4
    <3> QED  BY <3>2, <3>3
  <2>4. FileEnd(cs) = w
    BY <2>1, <2>3 DEF FileEnd
  <2>5. Tiled(cs)
    BY <2>1, <2>2, <2>3, SMTT(30) DEF Tiled
  <2>6. Ordered(cs)
    <3> SUFFICES ASSUME NEW i \in 1 .. n, NEW j \in 1 .. n, i < j
                 PROVE  EndOf(cs[i]) <= cs[j].off
      BY <2>1 DEF Ordered
    <3> QED  BY <2>1, <2>2, <2>3 DEF Ordered
  <2> QED  BY <1>2, <2>2, <2>3, <2>4, <2>5, <2>6
<1> QED  BY <1>1, <1>2

\* A member that starts where the others end extends the tiling.
LEMMA AppendTiled ==
  ASSUME NEW ms \in Seq(MemberType), Ordered(ms), Tiled(ms),
         NEW m \in MemberType, m.off = FileEnd(ms)
  PROVE  /\ Append(ms, m) \in Seq(MemberType)
         /\ Ordered(Append(ms, m)) /\ Tiled(Append(ms, m))
         /\ FileEnd(Append(ms, m)) = EndOf(m)
         /\ Append(ms, m)[Len(Append(ms, m))] = m
<1> DEFINE as == Append(ms, m)
           n  == Len(ms)
<1>1. /\ n \in Nat /\ as \in Seq(MemberType) /\ Len(as) = n + 1
      /\ as[n + 1] = m
      /\ \A i \in 1 .. n : as[i] = ms[i]
  OBVIOUS
<1>2. FileEnd(as) = EndOf(m)
  BY <1>1 DEF FileEnd
<1>3. Ordered(as)
  <2> SUFFICES ASSUME NEW i \in 1 .. n + 1, NEW j \in 1 .. n + 1, i < j
               PROVE  EndOf(as[i]) <= as[j].off
    BY <1>1 DEF Ordered
  <2>1. CASE j \in 1 .. n  BY <2>1, <1>1 DEF Ordered
  <2>2. CASE j = n + 1
    <3>1. i \in 1 .. n  BY <2>2, <1>1
    <3> QED  BY <3>1, <2>2, <1>1, OrderedEnd
  <2> QED  BY <2>1, <2>2, <1>1
<1>4. Tiled(as)
  <2>1. as[1].off = 0
    <3>1. CASE ms = << >>   BY <3>1, <1>1 DEF FileEnd
    <3>2. CASE ms # << >>   BY <3>2, <1>1 DEF Tiled
    <3> QED  BY <3>1, <3>2
  <2>2. ASSUME NEW i \in 1 .. n PROVE as[i + 1].off = EndOf(as[i])
    <3>1. CASE i = n  BY <3>1, <1>1 DEF FileEnd
    <3>2. CASE i # n  BY <3>2, <1>1 DEF Tiled
    <3> QED  BY <3>1, <3>2
  <2> QED  BY <2>1, <2>2, <1>1 DEF Tiled
<1> QED  BY <1>1, <1>2, <1>3, <1>4

-----------------------------------------------------------------------------
(* The steps of a store. *)

\* The member a store leaves extends the tiling from the old end to its own.
LEMMA MemberExtends ==
  ASSUME LayoutInv, ~Idle, NEW e \in Nat, wip.off <= e,
         NEW whole \in BOOLEAN, NEW acked \in BOOLEAN
  PROVE  LET ms == Append(members, Member(e, whole, acked))
         IN  /\ ms \in Seq(MemberType) /\ Ordered(ms) /\ Tiled(ms)
             /\ FileEnd(ms) = e
             /\ Len(ms) = Len(members) + 1
             /\ ms[Len(ms)].off = wip.off
             /\ \A i \in 1 .. Len(members) : ms[i] = members[i]
<1> DEFINE m == Member(e, whole, acked)
<1>1. /\ members \in Seq(MemberType) /\ Ordered(members) /\ Tiled(members)
      /\ wip \in [rec: Record, off: Nat, sound: BOOLEAN]
      /\ wip.off = FileEnd(members)
  BY DEF LayoutInv, TypeOK, Layout
<1>2. m \in MemberType /\ m.off = wip.off /\ EndOf(m) = e
  BY <1>1 DEF Member, MemberType, EndOf
<1> HIDE DEF m
<1>3. /\ Append(members, m) \in Seq(MemberType)
      /\ Ordered(Append(members, m)) /\ Tiled(Append(members, m))
      /\ FileEnd(Append(members, m)) = e
      /\ Append(members, m)[Len(Append(members, m))] = m
  BY <1>1, <1>2, AppendTiled
<1>4. /\ Len(Append(members, m)) = Len(members) + 1
      /\ \A i \in 1 .. Len(members) : Append(members, m)[i] = members[i]
  BY <1>1, <1>2
<1> QED  BY <1>2, <1>3, <1>4 DEF m

\* A step that keeps the members keeps what is said of them alone.
LEMMA SameMembers ==
  ASSUME LayoutInv, members' = members
  PROVE  /\ members' \in Seq(MemberType) /\ Ordered(members)' /\ Tiled(members)'
         /\ FileEnd(members)' = FileEnd(members)
         /\ FileEnd(members) \in Nat
BY FileEndType DEF LayoutInv, TypeOK, Layout, Ordered, Tiled, FileEnd, EndOf

\* The last member begins within the file.
LEMMA LastInFile ==
  ASSUME LayoutInv
  PROVE  members # << >> => /\ members[Len(members)].off \in Nat
                            /\ members[Len(members)].off <= flen
                            /\ members[Len(members)].off <= FileEnd(members)
<1> SUFFICES ASSUME members # << >>
             PROVE  /\ members[Len(members)].off \in Nat
                    /\ members[Len(members)].off <= flen
                    /\ members[Len(members)].off <= FileEnd(members)
  OBVIOUS
<1>1. /\ members \in Seq(MemberType) /\ flen \in Nat /\ synced \in Nat
      /\ synced <= flen /\ members[Len(members)].off <= synced
  BY DEF LayoutInv, TypeOK, Durable
<1>2. /\ Len(members) \in 1 .. Len(members)
      /\ FileEnd(members) = EndOf(members[Len(members)])
  BY <1>1, FileEndType
<1>3. /\ members[Len(members)].off \in Nat
      /\ members[Len(members)].off <= EndOf(members[Len(members)])
  BY <1>1, <1>2, MemberAt
<1> QED  BY <1>1, <1>2, <1>3

-----------------------------------------------------------------------------
(* The inductive invariant. *)

\* A writer that has not been constructed yet satisfies the invariant.
LEMMA InitLayout == Init => LayoutInv
<1> SUFFICES ASSUME Init PROVE LayoutInv
  OBVIOUS
<1>1. TypeOK
  <2>1. << >> \in Seq(MemberType)  OBVIOUS
  <2> QED  BY <2>1 DEF Init, TypeOK, Idle
<1>2. Layout /\ Ordered(members) /\ Durable /\ SizeKnown
  BY DEF Init, Layout, Tiled, Ordered, Durable, SizeKnown, FileEnd, Idle, Ready
<1> QED  BY <1>1, <1>2 DEF LayoutInv

\* The constructor accepts the file as it finds it.
LEMMA ConstructLayout ==
  ASSUME LayoutInv, NEW m \in MaxSizes, NEW c \in Comps, Construct(m, c)
  PROVE  LayoutInv'
<1> USE DEF Construct, file
<1>1. TypeOK'
  <2>1. m \in Nat /\ c \in {"plain", "gzip", "detect"}
    BY WidthAssumption, ModeAssumption
  <2> QED  BY <2>1 DEF LayoutInv, TypeOK, Idle
<1>2. Layout' /\ Ordered(members)' /\ Durable' /\ SizeKnown'
  BY SameMembers DEF LayoutInv, TypeOK, Layout, Durable, SizeKnown, Idle, Ready
<1> QED  BY <1>1, <1>2 DEF LayoutInv

\* A refused constructor and setMaxSize leave the file alone.
LEMMA RefusedCallLayout ==
  ASSUME LayoutInv, NEW m \in MaxSizes, ConstructRefused(m) \/ SetMaxSize(m)
  PROVE  LayoutInv'
<1> USE DEF ConstructRefused, SetMaxSize, file, object
<1>1. TypeOK'
  BY WidthAssumption DEF LayoutInv, TypeOK, Idle, Ready
<1>2. Layout' /\ Ordered(members)' /\ Durable' /\ SizeKnown'
  BY SameMembers DEF LayoutInv, TypeOK, Layout, Durable, SizeKnown, Idle, Ready
<1> QED  BY <1>1, <1>2 DEF LayoutInv

\* A store refused before anything is written only moves FH to its end.
LEMMA StoreRefusedLayout ==
  ASSUME LayoutInv, NEW r \in Record, StoreRefused(r)
  PROVE  LayoutInv'
<1> USE DEF StoreRefused
<1>1. TypeOK'
  BY DEF LayoutInv, TypeOK, Idle
<1>2. Layout' /\ Ordered(members)' /\ SizeKnown'
  BY SameMembers DEF LayoutInv, TypeOK, Layout, SizeKnown, Idle, Ready
<1>3. Durable'
  BY SameMembers, LastInFile DEF LayoutInv, TypeOK, Layout, Durable, Idle, Ready
<1> QED  BY <1>1, <1>2, <1>3 DEF LayoutInv

\* The destructor hands the rest of the file over to the system.
LEMMA DestroyLayout ==
  ASSUME LayoutInv, Destroy
  PROVE  LayoutInv'
<1> USE DEF Destroy
<1>1. TypeOK'
  BY DEF LayoutInv, TypeOK, Idle
<1>2. Layout' /\ Ordered(members)' /\ SizeKnown'
  BY SameMembers DEF LayoutInv, TypeOK, Layout, SizeKnown, Idle, Ready
<1>3. Durable'
  BY SameMembers, LastInFile DEF LayoutInv, TypeOK, Layout, Durable, Idle, Ready
<1> QED  BY <1>1, <1>2, <1>3 DEF LayoutInv

\* A store begins at the end of the file, all earlier bytes handed over.
LEMMA StoreBeginLayout ==
  ASSUME LayoutInv, NEW r \in Record, StorePlain(r) \/ StoreGzip(r)
  PROVE  LayoutInv'
<1> PICK step \in {"header", "placeholder"} :
      /\ StoreBegin(r, step)
      /\ step = "header" => comp = "plain"
  BY DEF StorePlain, StoreGzip
<1> USE DEF StoreBegin, object
<1>1. TypeOK'
  <2> PICK sound \in BOOLEAN : wip' = [rec |-> r, off |-> flen, sound |-> sound]
    BY Zenon
  <2>1. flen \in Nat  BY DEF LayoutInv, TypeOK
  <2>2. wip' \in [rec: Record, off: Nat, sound: BOOLEAN]  BY <2>1
  <2> QED  BY <2>2 DEF LayoutInv, TypeOK, Idle, Ready, Steps
<1>2. Layout' /\ Ordered(members)' /\ SizeKnown'
  BY SameMembers DEF LayoutInv, TypeOK, Layout, SizeKnown, Idle, Ready
<1>3. Durable'
  BY SameMembers, LastInFile DEF LayoutInv, TypeOK, Layout, Durable, Idle, Ready
<1> QED  BY <1>1, <1>2, <1>3 DEF LayoutInv

\* A write of the store appends some bytes after the last member.
LEMMA PutLayout ==
  ASSUME LayoutInv, ~Idle, NEW n \in Nat, NEW k \in Nat, NEW copied \in BOOLEAN,
         Put(k, n, copied), UNCHANGED <<members, synced, object, ret>>,
         pc' \in Steps \ {"limit"},
         pc' \in {"header", "data", "trailer"} => comp = "plain"
  PROVE  LayoutInv'
<1> USE DEF Put, object
<1>1. TypeOK'
  <2>1. wip' \in [rec: Record, off: Nat, sound: BOOLEAN]
    BY DEF LayoutInv, TypeOK
  <2>2. ferr' \in BOOLEAN
    BY DEF LayoutInv, TypeOK
  <2> QED  BY <2>1, <2>2 DEF LayoutInv, TypeOK, Idle, Steps
<1>2. Layout' /\ Ordered(members)' /\ SizeKnown'
  BY SameMembers DEF LayoutInv, TypeOK, Layout, SizeKnown, Idle, Ready, Steps
<1>3. Durable'
  BY SameMembers, LastInFile DEF LayoutInv, TypeOK, Layout, Durable, Idle, Ready, Steps
<1> QED  BY <1>1, <1>2, <1>3 DEF LayoutInv

\* The lengths a write may have are natural numbers.
LEMMA WrittenNat ==
  ASSUME NEW n \in Nat, NEW k \in Written(n)
  PROVE  k \in Nat
BY DEF Written

\* The sizes of the record being stored.
LEMMA WipSizes ==
  ASSUME LayoutInv, ~Idle
  PROVE  /\ wip \in [rec: Record, off: Nat, sound: BOOLEAN]
         /\ wip.rec.hdr \in Nat /\ wip.rec.data \in Nat /\ wip.rec.gz \in Nat
BY RecordAssumption DEF LayoutInv, TypeOK, RecordType

\* The writes of a store keep the invariant.
LEMMA WriteLayout ==
  ASSUME LayoutInv, WriteHeader \/ WriteData \/ WritePlaceholder \/ Deflate
  PROVE  LayoutInv'
<1> ~Idle  BY DEF WriteHeader, WriteData, WritePlaceholder, Deflate, Idle
<1>1. CASE WriteHeader
  <2> PICK k \in Written(wip.rec.hdr) : Put(k, wip.rec.hdr, TRUE)
    BY <1>1 DEF WriteHeader
  <2>1. comp = "plain"  BY <1>1 DEF WriteHeader, LayoutInv, Durable
  <2> QED  BY <1>1, <2>1, WrittenNat, WipSizes, PutLayout DEF WriteHeader, Steps
<1>2. CASE WriteData
  <2> PICK k \in IF ferr THEN {0} ELSE Written(wip.rec.data) :
        Put(k, wip.rec.data, TRUE)
    BY <1>2 DEF WriteData
  <2>1. comp = "plain"  BY <1>2 DEF WriteData, LayoutInv, Durable
  <2>2. k \in Nat  BY WrittenNat, WipSizes
  <2> QED  BY <1>2, <2>1, <2>2, WipSizes, PutLayout DEF WriteData, Steps
<1>3. CASE WritePlaceholder
  <2> PICK k \in IF ferr THEN {1} ELSE Written(ExtraLen) :
        /\ Put(k, ExtraLen, FALSE)
        /\ pc' = IF k = ExtraLen /\ ~ferr THEN "deflate" ELSE "patch"
    BY <1>3 DEF WritePlaceholder
  <2>1. k \in Nat /\ ExtraLen \in Nat  BY WrittenNat, LenAssumption
  <2> QED  BY <1>3, <2>1, PutLayout DEF WritePlaceholder, Steps
<1>4. CASE Deflate
  <2> PICK k \in Written(wip.rec.gz) : Put(k, wip.rec.gz, TRUE)
    BY <1>4 DEF Deflate
  <2> QED  BY <1>4, WrittenNat, WipSizes, PutLayout DEF Deflate, Steps
<1> QED  BY <1>1, <1>2, <1>3, <1>4

\* The patch of the gzip header stays within the member being stored.
LEMMA PatchLayout ==
  ASSUME LayoutInv, Patch
  PROVE  LayoutInv' /\ members' = members
<1> USE DEF Patch, object
<1>1. /\ ~Idle /\ PatchLen \in Nat
      /\ members \in Seq(MemberType) /\ Ordered(members)
      /\ wip \in [rec: Record, off: Nat, sound: BOOLEAN]
      /\ wip.off = FileEnd(members)
  BY LenAssumption DEF LayoutInv, TypeOK, Layout, Idle, PatchLen
<1>2. members' = members
  BY <1>1, OverwriteAfterEnd
<1> HIDE DEF PatchLen
<1>3. TypeOK'
  BY <1>1, <1>2 DEF LayoutInv, TypeOK, Idle, Steps
<1>4. Layout' /\ Ordered(members)' /\ SizeKnown'
  BY <1>1, <1>2, SameMembers DEF LayoutInv, TypeOK, Layout, SizeKnown, Idle, Ready
<1>5. Durable'
  BY <1>1, <1>2, SameMembers, LastInFile, SMTT(30)
     DEF LayoutInv, TypeOK, Layout, Durable, Idle, Ready
<1> QED  BY <1>2, <1>3, <1>4, <1>5 DEF LayoutInv

\* A store that returns success adds its member and nothing else.
LEMMA StoredLayout ==
  ASSUME LayoutInv, WriteTrailer \/ GzipStored
  PROVE  /\ LayoutInv'
         /\ Len(members') = Len(members) + 1
         /\ \A i \in 1 .. Len(members) : members'[i] = members[i]
<1>1. PICK e \in Nat, whole \in BOOLEAN :
        /\ flen <= e
        /\ flen' = e /\ fsize' = e
        /\ members' = Append(members, Member(e, whole, TRUE))
        /\ ferr' \in BOOLEAN
        /\ WriteTrailer \/ e = flen
  <2>1. CASE WriteTrailer
    <3> PICK k \in Written(TrailerLen) :
          /\ flen' = flen + k
          /\ ferr' = (ferr \/ k # TrailerLen)
          /\ members' = Append(members,
                          Member(flen + k, wip.sound /\ k = TrailerLen, TRUE))
          /\ fsize' = flen + k
      BY <2>1 DEF WriteTrailer
    <3>1. k \in Nat /\ flen \in Nat
      BY WrittenNat, LenAssumption DEF LayoutInv, TypeOK
    <3>2. (wip.sound /\ k = TrailerLen) \in BOOLEAN  OBVIOUS
    <3>3. flen + k \in Nat /\ flen <= flen + k  BY <3>1
    <3>4. ferr' \in BOOLEAN  OBVIOUS
    <3> QED  BY <2>1, <3>2, <3>3, <3>4, Zenon
  <2>2. CASE GzipStored
    <3>1. flen \in Nat /\ wip.sound \in BOOLEAN /\ ferr \in BOOLEAN
      BY <2>2 DEF GzipStored, LayoutInv, TypeOK, Idle
    <3>2. flen <= flen  BY <3>1
    <3> QED  BY <2>2, <3>1, <3>2 DEF GzipStored
  <2> QED  BY <2>1, <2>2
<1> USE DEF WriteTrailer, GzipStored, Return
<1>2. /\ ~Idle /\ pc' = "idle" /\ wip' = NoWip /\ ret' = "ok" /\ open /\ open'
      /\ UNCHANGED <<synced, comp, maxsize, isfull>>
  BY DEF LayoutInv, Durable, Idle
<1>3. wip.off <= e /\ wip.off = FileEnd(members) /\ wip.off \in Nat
  <2>1. wip.off <= flen /\ wip.off = FileEnd(members) /\ wip.off \in Nat /\ flen \in Nat
    BY <1>2 DEF LayoutInv, TypeOK, Layout
  <2> QED  BY <1>1, <2>1
<1>4. /\ members' \in Seq(MemberType) /\ Ordered(members') /\ Tiled(members')
      /\ FileEnd(members') = e
      /\ Len(members') = Len(members) + 1
      /\ members'[Len(members')].off = wip.off
      /\ \A i \in 1 .. Len(members) : members'[i] = members[i]
  <2> DEFINE ms == Append(members, Member(e, whole, TRUE))
  <2>1. members' = ms  BY <1>1
  <2>2. /\ ms \in Seq(MemberType) /\ Ordered(ms) /\ Tiled(ms)
        /\ FileEnd(ms) = e
        /\ Len(ms) = Len(members) + 1
        /\ ms[Len(ms)].off = wip.off
        /\ \A i \in 1 .. Len(members) : ms[i] = members[i]
    BY <1>2, <1>3, MemberExtends
  <2> HIDE DEF ms
  <2> QED  BY <2>1, <2>2
<1>5. TypeOK'
  BY <1>1, <1>2, <1>4 DEF LayoutInv, TypeOK, Idle
<1>6. Layout' /\ Ordered(members)' /\ SizeKnown'
  BY <1>1, <1>2, <1>4 DEF Layout, SizeKnown, Idle, Ready
<1>7. Durable'
  <2>1. synced <= e /\ wip.off <= synced
    BY <1>1, <1>2 DEF LayoutInv, TypeOK, Durable
  <2>2. comp' = "gzip" => e <= synced
    BY <1>1, <1>2 DEF LayoutInv, Durable
  <2> QED  BY <1>1, <1>2, <1>4, <2>1, <2>2 DEF Durable, Idle
<1> QED  BY <1>4, <1>5, <1>6, <1>7 DEF LayoutInv

\* A compressed store that fails cuts off what it wrote, and no more.
LEMMA CutOffLayout ==
  ASSUME LayoutInv, DeflateInitFails \/ GzipTooBig
  PROVE  LayoutInv' /\ members' = members
<1>1. /\ ~Idle /\ open
      /\ members' = CutAt(members, wip.off)
      /\ flen' = wip.off /\ synced' = wip.off
      /\ pc' = "idle" /\ wip' = NoWip /\ ret' = "error"
      /\ isfull' \in BOOLEAN
      /\ UNCHANGED <<open, comp, maxsize, fsize, ferr>>
  BY DEF DeflateInitFails, GzipTooBig, Return, object, LayoutInv, TypeOK, Durable, Idle
<1>2. /\ members \in Seq(MemberType) /\ Ordered(members)
      /\ wip.off \in Nat /\ wip.off = FileEnd(members)
  BY <1>1 DEF LayoutInv, TypeOK, Layout
<1>3. members' = members
  BY <1>1, <1>2, CutAfterEnd
<1>4. TypeOK'
  BY <1>1, <1>2, <1>3 DEF LayoutInv, TypeOK, Idle
<1>5. Layout' /\ Ordered(members)' /\ SizeKnown'
  BY <1>1, <1>2, <1>3, SameMembers DEF LayoutInv, Layout, SizeKnown, Idle, Ready
<1>6. Durable'
  BY <1>1, <1>2, <1>3, SameMembers, LastInFile DEF LayoutInv, Durable, Idle
<1> QED  BY <1>3, <1>4, <1>5, <1>6 DEF LayoutInv

\* A crash costs bytes of the last member at most.
LEMMA CrashLayout ==
  ASSUME LayoutInv, Crash
  PROVE  /\ LayoutInv'
         /\ Len(members') >= Len(members)
         /\ \A i \in 1 .. Len(members) - 1 : members'[i] = members[i]
         /\ comp = "gzip" => \A i \in 1 .. Len(members) : members'[i] = members[i]
<1> DEFINE ms == IF Idle THEN members
                 ELSE Append(members,
                             Member(flen, wip.sound /\ pc = "limit", FALSE))
<1>1. PICK k \in synced .. flen :
        members' = CutAt(ms, k) /\ flen' = k /\ synced' = k
  BY DEF Crash
<1>2. /\ open' = FALSE /\ comp' = "plain" /\ maxsize' = 0 /\ fsize' = 0
      /\ isfull' = FALSE /\ ferr' = FALSE
      /\ pc' = "idle" /\ wip' = NoWip /\ ret' = "none"
  BY DEF Crash, Return
<1>3. /\ members \in Seq(MemberType) /\ Ordered(members) /\ Tiled(members)
      /\ flen \in Nat /\ synced \in Nat /\ synced <= flen
  BY DEF LayoutInv, TypeOK, Layout, Durable
<1>4. /\ ms \in Seq(MemberType) /\ Ordered(ms) /\ Tiled(ms)
      /\ FileEnd(ms) = flen
      /\ ms # << >> => ms[Len(ms)].off <= synced
      /\ Len(ms) >= Len(members)
      /\ \A i \in 1 .. Len(members) : ms[i] = members[i]
      /\ ~Idle => Len(ms) = Len(members) + 1
  <2>1. CASE Idle
    BY <2>1, <1>3 DEF LayoutInv, Layout, Durable
  <2>2. CASE ~Idle
    <3>1. (wip.sound /\ pc = "limit") \in BOOLEAN  OBVIOUS
    <3>2. wip.off <= flen /\ wip.off <= synced
      BY <2>2 DEF LayoutInv, Layout, Durable
    <3> DEFINE as == Append(members,
                            Member(flen, wip.sound /\ pc = "limit", FALSE))
    <3>3. /\ as \in Seq(MemberType) /\ Ordered(as) /\ Tiled(as)
          /\ FileEnd(as) = flen
          /\ Len(as) = Len(members) + 1
          /\ as[Len(as)].off = wip.off
          /\ \A i \in 1 .. Len(members) : as[i] = members[i]
      BY <2>2, <1>3, <3>1, <3>2, MemberExtends
    <3> HIDE DEF as
    <3>4. ms = as  BY <2>2 DEF as
    <3>5. Len(members) \in Nat  BY <1>3
    <3>6. Len(as) >= Len(members)  BY <3>3, <3>5
    <3>7. as # << >> => as[Len(as)].off <= synced  BY <3>2, <3>3
    <3> HIDE DEF ms
    <3> QED  BY <2>2, <3>3, <3>4, <3>6, <3>7, Zenon
  <2> QED  BY <2>1, <2>2
<1> HIDE DEF ms
<1>5. k \in Nat /\ synced <= k /\ k <= flen
  BY <1>1, <1>3
<1>6. ms # << >> => /\ ms[Len(ms)].off \in Nat
                    /\ ms[Len(ms)].off <= k
  <2> SUFFICES ASSUME ms # << >>
               PROVE  ms[Len(ms)].off \in Nat /\ ms[Len(ms)].off <= k
    OBVIOUS
  <2>1. ms[Len(ms)].off \in Nat  BY <1>4, FileEndType, MemberAt
  <2> QED  BY <2>1, <1>3, <1>4, <1>5
<1>7. /\ members' \in Seq(MemberType) /\ Len(members') = Len(ms)
      /\ \A i \in 1 .. Len(ms) - 1 : members'[i] = ms[i]
      /\ Ordered(members') /\ Tiled(members')
      /\ FileEnd(members') = k
      /\ ms # << >> => members'[Len(ms)].off = ms[Len(ms)].off
  BY <1>1, <1>4, <1>5, <1>6, CutAtType, CutInLast
<1>8. LayoutInv'
  <2>1. TypeOK'
    BY <1>1, <1>2, <1>5, <1>7 DEF TypeOK, Idle
  <2>2. Layout' /\ Ordered(members)' /\ SizeKnown'
    BY <1>1, <1>2, <1>7 DEF Layout, SizeKnown, Idle, Ready
  <2>3. Durable'
    <3>1. members' # << >> => members'[Len(members')].off <= k
      BY <1>4, <1>6, <1>7
    <3> QED  BY <1>1, <1>2, <1>5, <3>1 DEF Durable, Idle
  <2> QED  BY <2>1, <2>2, <2>3 DEF LayoutInv
<1>9. /\ Len(members') >= Len(members)
      /\ \A i \in 1 .. Len(members) - 1 : members'[i] = members[i]
  <2>1. Len(members) \in Nat /\ Len(ms) \in Nat  BY <1>3, <1>4
  <2> QED  BY <2>1, <1>4, <1>7
<1>10. ASSUME comp = "gzip", NEW i \in 1 .. Len(members)
       PROVE  members'[i] = members[i]
  <2>1. CASE ~Idle
    <3>1. i \in 1 .. Len(ms) - 1  BY <2>1, <1>3, <1>4
    <3> QED  BY <3>1, <1>4, <1>7
  <2>2. CASE Idle
    <3>1. ms = members  BY <2>2 DEF ms
    <3>2. FileEnd(ms) <= k
      BY <1>10, <1>3, <1>5, <3>1, FileEndType DEF LayoutInv, Durable
    <3> QED  BY <1>1, <1>4, <1>5, <3>1, <3>2, CutAfterEnd
  <2> QED  BY <2>1, <2>2
<1> QED  BY <1>8, <1>9, <1>10

\* Every step keeps the invariant, and every record but the last.
LEMMA StepKeeps ==
  ASSUME LayoutInv, [Next]_vars
  PROVE  /\ LayoutInv'
         /\ Len(members') >= Len(members)
         /\ \A i \in 1 .. Len(members) - 1 : members'[i] = members[i]
         /\ comp = "gzip" => \A i \in 1 .. Len(members) : members'[i] = members[i]
<1>1. CASE Crash  BY <1>1, CrashLayout
<1>2. CASE WriteTrailer \/ GzipStored
  <2>1. Len(members) \in Nat  BY DEF LayoutInv, TypeOK
  <2> QED  BY <1>2, <2>1, StoredLayout
<1>3. ASSUME LayoutInv', members' = members
      PROVE  /\ LayoutInv'
             /\ Len(members') >= Len(members)
             /\ \A i \in 1 .. Len(members) - 1 : members'[i] = members[i]
             /\ comp = "gzip" =>
                  \A i \in 1 .. Len(members) : members'[i] = members[i]
  <2>1. Len(members) \in Nat  BY DEF LayoutInv, TypeOK
  <2> QED  BY <1>3, <2>1
<1>4. ASSUME NEW m \in MaxSizes, NEW c \in Comps, Construct(m, c)
      PROVE  LayoutInv' /\ members' = members
  BY <1>4, ConstructLayout DEF Construct, file
<1>5. ASSUME NEW m \in MaxSizes, ConstructRefused(m) \/ SetMaxSize(m)
      PROVE  LayoutInv' /\ members' = members
  BY <1>5, RefusedCallLayout DEF ConstructRefused, SetMaxSize, file
<1>6. ASSUME NEW r \in Record, StoreRefused(r)
      PROVE  LayoutInv' /\ members' = members
  BY <1>6, StoreRefusedLayout DEF StoreRefused
<1>7. ASSUME NEW r \in Record, StorePlain(r) \/ StoreGzip(r)
      PROVE  LayoutInv' /\ members' = members
  BY <1>7, StoreBeginLayout DEF StorePlain, StoreGzip, StoreBegin
<1>8. CASE Destroy
  <2>1. LayoutInv' /\ members' = members
    BY <1>8, DestroyLayout DEF Destroy
  <2> QED  BY <2>1, <1>3
<1>9. CASE WriteHeader \/ WriteData \/ WritePlaceholder \/ Deflate
  <2>1. LayoutInv' /\ members' = members
    BY <1>9, WriteLayout DEF WriteHeader, WriteData, WritePlaceholder, Deflate
  <2> QED  BY <2>1, <1>3
<1>10. CASE Patch
  BY <1>10, PatchLayout, <1>3
<1>11. CASE DeflateInitFails \/ GzipTooBig
  BY <1>11, CutOffLayout, <1>3
<1>12. CASE UNCHANGED vars
  <2>1. LayoutInv' /\ members' = members
    BY <1>12 DEF vars, LayoutInv, TypeOK, Layout, Tiled, Ordered, FileEnd, EndOf,
                 Durable, SizeKnown, Idle, Ready
  <2> QED  BY <2>1, <1>3
<1> QED
  BY <1>1, <1>2, <1>3, <1>4, <1>5, <1>6, <1>7, <1>8, <1>9, <1>10, <1>11, <1>12
     DEF Next, Step

-----------------------------------------------------------------------------
(* Theorems. *)

\* The layout of the file, with everything it rests on, is an invariant of the
\* writer: for any records, limits, short writes, failures and crashes.
THEOREM LayoutInvariant == Spec => []LayoutInv
<1>1. Init => LayoutInv
  BY InitLayout
<1>2. LayoutInv /\ [Next]_vars => LayoutInv'
  BY StepKeeps
<1> QED  BY <1>1, <1>2, PTL DEF Spec

\* The state of the writer is always of its type (WFile's fields and the file).
THEOREM TypeCorrect == Spec => []TypeOK
<1>1. LayoutInv => TypeOK
  BY DEF LayoutInv
<1> QED  BY <1>1, LayoutInvariant, PTL

\* Records tile the file: WFile_storeRecord always appends at the end of what
\* the earlier stores left, and a store that fails leaves nothing.
THEOREM LayoutCorrect == Spec => []Layout
<1>1. LayoutInv => Layout
  BY DEF LayoutInv
<1> QED  BY <1>1, LayoutInvariant, PTL

\* FSIZE is the size of the file whenever no call is under way.
THEOREM SizeKnownCorrect == Spec => []SizeKnown
<1>1. LayoutInv => SizeKnown
  BY DEF LayoutInv
<1> QED  BY <1>1, LayoutInvariant, PTL

\* What a crash can still take, the bytes that stdio has not handed on, lies in
\* the last record, and not in a compressed one (the seeks of WFile_storeRecord
\* and WGzip_compress).
THEOREM DurableCorrect == Spec => []Durable
<1>1. LayoutInv => Durable
  BY DEF LayoutInv
<1> QED  BY <1>1, LayoutInvariant, PTL

\* No step of the writer, failing or crashing ones included, changes a record
\* that is followed by another one.
THEOREM EarlierRecordsSafe == Spec => EarlierRecordsUntouched
<1>1. LayoutInv /\ [Next]_vars =>
        [/\ Len(members') >= Len(members)
         /\ \A i \in 1 .. Len(members) - 1 : members'[i] = members[i]]_vars
  BY StepKeeps
<1> QED  BY <1>1, LayoutInvariant, PTL DEF Spec, EarlierRecordsUntouched

\* No step changes a stored record while the object writes compressed records.
THEOREM GzipRecordsSafe == Spec => GzipRecordsSurvive
<1>1. LayoutInv /\ [Next]_vars =>
        [comp = "gzip" =>
           \A i \in 1 .. Len(members) : members'[i] = members[i]]_vars
  BY StepKeeps
<1> QED  BY <1>1, LayoutInvariant, PTL DEF Spec, GzipRecordsSurvive

-----------------------------------------------------------------------------
(* The maximum size. *)

\* Below the modulus the remainder is the number itself.
LEMMA ModSmall ==
  ASSUME NEW n \in Nat \ {0}, NEW a \in 0 .. n - 1
  PROVE  a % n = a
OBVIOUS

\* Without a wrap-around the room test leaves room for the whole record.
LEMMA RoomForAll ==
  ASSUME NoWrap, NEW r \in Record, flen \in Nat, maxsize \in 0 .. W64 - 1,
         flen <= maxsize, ~NoRoom(r)
  PROVE  flen + r.hdr + r.data + TrailerLen <= maxsize
<1>1. /\ r.hdr \in Nat /\ r.data \in Nat /\ TrailerLen \in Nat \ {0}
      /\ W32 \in Nat \ {0} /\ W64 \in Nat \ {0}
  BY RecordAssumption, LenAssumption, WidthAssumption DEF RecordType
<1>2. r.data < W32 /\ r.hdr + r.data + TrailerLen < W64
  BY DEF NoWrap
<1>3. r.data % W32 = r.data
  BY <1>1, <1>2, ModSmall
<1>4. DataLength(r) = r.hdr + r.data
  <2>1. r.hdr + r.data \in 0 .. W64 - 1  BY <1>1, <1>2
  <2>2. (r.hdr + r.data) % W64 = r.hdr + r.data  BY <1>1, <2>1, ModSmall
  <2> QED  BY <1>3, <2>2 DEF DataLength
<1>5. (DataLength(r) + TrailerLen) % W64 = r.hdr + r.data + TrailerLen
  <2>1. r.hdr + r.data + TrailerLen \in 0 .. W64 - 1  BY <1>1, <1>2
  <2> QED  BY <1>1, <1>4, <2>1, ModSmall
<1>6. (maxsize - flen) % W64 = maxsize - flen
  <2>1. maxsize - flen \in 0 .. W64 - 1  BY <1>1
  <2> QED  BY <1>1, <2>1, ModSmall
<1> QED  BY <1>1, <1>4, <1>5, <1>6 DEF NoRoom

\* A write of at most n of n bytes, fewer only when the device fails.
LEMMA WrittenAtMost ==
  ASSUME NEW n \in Nat, NEW k \in Written(n)
  PROVE  k \in Nat /\ k <= n
BY DEF Written

\* The calls outside a store: only setMaxSize changes the limit, upwards.
LEMMA CallLimit ==
  ASSUME LayoutInv, LimitInv,
         \/ \E m \in MaxSizes, c \in Comps : Construct(m, c)
         \/ \E m \in MaxSizes : ConstructRefused(m) \/ SetMaxSize(m)
         \/ Destroy
  PROVE  LimitInv'
<1> USE DEF LimitInv, Reserved, SizeLimit, Idle, Ready
<1>1. /\ MaxSizes \subseteq 0 .. W64 - 1 /\ W64 \in Nat \ {0}
      /\ maxsize \in 0 .. W64 - 1 /\ flen \in Nat
  BY WidthAssumption DEF LayoutInv, TypeOK
<1>2. ASSUME NEW m \in MaxSizes, NEW c \in Comps, Construct(m, c)
      PROVE  LimitInv'
  <2>1. Idle  BY <1>2 DEF Construct, LayoutInv, Durable
  <2> QED  BY <1>1, <1>2, <2>1 DEF Construct, file
<1>3. ASSUME NEW m \in MaxSizes, ConstructRefused(m)
      PROVE  LimitInv'
  BY <1>1, <1>3 DEF ConstructRefused, file, object, LayoutInv, Durable
<1>4. ASSUME NEW m \in MaxSizes, SetMaxSize(m)
      PROVE  LimitInv'
  <2>1. maxsize' \in 0 .. W64 - 1 /\ maxsize <= maxsize'
    BY <1>1, <1>4 DEF SetMaxSize
  <2> QED  BY <1>1, <1>4, <2>1 DEF SetMaxSize, file
<1>5. CASE Destroy
  BY <1>1, <1>5 DEF Destroy
<1> QED  BY <1>2, <1>3, <1>4, <1>5

\* A store begins with room for an uncompressed record, or is refused.
LEMMA BeginLimit ==
  ASSUME NoWrap, LayoutInv, LimitInv, NEW r \in Record,
         StoreRefused(r) \/ StorePlain(r) \/ StoreGzip(r)
  PROVE  LimitInv'
<1>1. /\ maxsize \in 0 .. W64 - 1 /\ flen \in Nat /\ flen <= maxsize
      /\ Idle
  BY DEF LimitInv, Reserved, SizeLimit, LayoutInv, TypeOK, StoreRefused,
         StorePlain, StoreGzip, StoreBegin, Ready
<1>2. CASE StoreRefused(r)
  BY <1>1, <1>2 DEF StoreRefused, LimitInv, Reserved, SizeLimit, Idle, Ready
<1>3. CASE StorePlain(r) \/ StoreGzip(r)
  <2> PICK step \in {"header", "placeholder"} :
        /\ StoreBegin(r, step)
        /\ step = "header" => ~NoRoom(r)
    BY <1>3 DEF StorePlain, StoreGzip
  <2> PICK sound \in BOOLEAN : wip' = [rec |-> r, off |-> flen, sound |-> sound]
    BY Zenon DEF StoreBegin
  <2>1. /\ wip'.rec = r /\ wip'.off = flen
        /\ pc' = step /\ flen' = flen /\ maxsize' = maxsize
    BY DEF StoreBegin, object
  <2>2. step = "header" => flen + r.hdr + r.data + TrailerLen <= maxsize
    BY <1>1, RoomForAll
  <2> QED  BY <1>1, <2>1, <2>2 DEF LimitInv, Reserved, SizeLimit, Idle, Ready
<1> QED  BY <1>2, <1>3

\* The writes of a store stay within what was reserved for them.
LEMMA WriteLimit ==
  ASSUME LayoutInv, LimitInv,
         WriteHeader \/ WriteData \/ WritePlaceholder \/ Deflate \/ Patch
  PROVE  LimitInv'
<1>1. /\ ~Idle /\ flen \in Nat /\ maxsize \in 0 .. W64 - 1
      /\ wip.off \in Nat /\ wip.off <= maxsize
      /\ TrailerLen \in Nat
      /\ wip.rec.hdr \in Nat /\ wip.rec.data \in Nat /\ wip.rec.gz \in Nat
  BY WipSizes, LenAssumption
     DEF LayoutInv, TypeOK, LimitInv, Reserved, WriteHeader, WriteData,
         WritePlaceholder, Deflate, Patch, Idle
<1>2. CASE WriteHeader
  <2> PICK k \in Written(wip.rec.hdr) : Put(k, wip.rec.hdr, TRUE)
    BY <1>2 DEF WriteHeader
  <2>1. k \in Nat /\ k <= wip.rec.hdr  BY <1>1, WrittenAtMost
  <2>2. flen + wip.rec.hdr + wip.rec.data + TrailerLen <= maxsize
    BY <1>2 DEF WriteHeader, LimitInv, Reserved
  <2>3. /\ wip'.rec = wip.rec /\ wip'.off = wip.off /\ flen' = flen + k
        /\ maxsize' = maxsize /\ pc' = "data"
    BY <1>2 DEF WriteHeader, Put, object
  <2> QED  BY <1>1, <2>1, <2>2, <2>3 DEF LimitInv, Reserved, SizeLimit, Idle, Ready
<1>3. CASE WriteData
  <2> PICK k \in IF ferr THEN {0} ELSE Written(wip.rec.data) :
        Put(k, wip.rec.data, TRUE)
    BY <1>3 DEF WriteData
  <2>1. k \in Nat /\ k <= wip.rec.data  BY <1>1, WrittenAtMost
  <2>2. flen + wip.rec.data + TrailerLen <= maxsize
    BY <1>3 DEF WriteData, LimitInv, Reserved
  <2>3. /\ wip'.rec = wip.rec /\ wip'.off = wip.off /\ flen' = flen + k
        /\ maxsize' = maxsize /\ pc' = "trailer"
    BY <1>3 DEF WriteData, Put, object
  <2> QED  BY <1>1, <2>1, <2>2, <2>3 DEF LimitInv, Reserved, SizeLimit, Idle, Ready
<1>4. CASE WritePlaceholder \/ Deflate \/ Patch
  <2>1. /\ wip'.off = wip.off /\ maxsize' = maxsize
        /\ pc' \in {"deflate", "patch", "limit"}
    <3>1. CASE WritePlaceholder
      <4> PICK k \in IF ferr THEN {1} ELSE Written(ExtraLen) :
            /\ Put(k, ExtraLen, FALSE)
            /\ pc' = IF k = ExtraLen /\ ~ferr THEN "deflate" ELSE "patch"
        BY <3>1 DEF WritePlaceholder
      <4> QED  BY <3>1 DEF WritePlaceholder, Put, object
    <3>2. CASE Deflate
      <4> PICK k \in Written(wip.rec.gz) : Put(k, wip.rec.gz, TRUE)
        BY <3>2 DEF Deflate
      <4> QED  BY <3>2 DEF Deflate, Put, object
    <3>3. CASE Patch
      BY <3>3 DEF Patch, object
    <3> QED  BY <1>4, <3>1, <3>2, <3>3
  <2> QED  BY <1>1, <2>1 DEF LimitInv, Reserved, SizeLimit, Idle, Ready
<1> QED  BY <1>2, <1>3, <1>4

\* A store ends within the limit, or cuts off what it wrote.
LEMMA EndLimit ==
  ASSUME LayoutInv, LimitInv,
         WriteTrailer \/ GzipStored \/ DeflateInitFails \/ GzipTooBig
  PROVE  LimitInv'
<1>1. /\ flen \in Nat /\ maxsize \in 0 .. W64 - 1
      /\ TrailerLen \in Nat
      /\ pc' = "idle" /\ maxsize' = maxsize
  BY LenAssumption
     DEF LayoutInv, TypeOK, LimitInv, Reserved, WriteTrailer, GzipStored,
         DeflateInitFails, GzipTooBig, Return, object
<1>2. flen' <= maxsize
  <2>1. CASE WriteTrailer
    <3> PICK k \in Written(TrailerLen) : flen' = flen + k
      BY <2>1 DEF WriteTrailer
    <3>1. k \in Nat /\ k <= TrailerLen  BY <1>1, WrittenAtMost
    <3> QED  BY <2>1, <3>1, <1>1 DEF WriteTrailer, LimitInv, Reserved
  <2>2. CASE GzipStored
    BY <2>2, <1>1 DEF GzipStored
  <2>3. CASE DeflateInitFails \/ GzipTooBig
    BY <2>3 DEF DeflateInitFails, GzipTooBig, LimitInv, Reserved, Idle
  <2> QED  BY <2>1, <2>2, <2>3
<1> QED  BY <1>1, <1>2 DEF LimitInv, Reserved, SizeLimit, Idle, Ready

\* Every step stays within the limit.
LEMMA LimitStep ==
  ASSUME NoWrap, LayoutInv, LimitInv, [Next]_vars PROVE LimitInv'
<1>1. CASE UNCHANGED vars
  BY <1>1 DEF vars, LimitInv, Reserved, SizeLimit, Idle, Ready
<1>2. CASE Crash
  <2>1. maxsize' = 0 /\ ~open' /\ pc' = "idle"
    BY <1>2 DEF Crash, Return
  <2> QED  BY <2>1, WidthAssumption DEF LimitInv, Reserved, SizeLimit, Idle, Ready
<1>3. CASE Step
  BY <1>3, WriteLimit, EndLimit DEF Step
<1>4. CASE \E m \in MaxSizes, c \in Comps : Construct(m, c)
  BY <1>4, CallLimit
<1>5. CASE \E m \in MaxSizes : ConstructRefused(m) \/ SetMaxSize(m)
  BY <1>5, CallLimit
<1>6. CASE \E r \in Record : StoreRefused(r) \/ StorePlain(r) \/ StoreGzip(r)
  BY <1>6, BeginLimit
<1>7. CASE Destroy
  BY <1>7, CallLimit
<1> QED  BY <1>1, <1>2, <1>3, <1>4, <1>5, <1>6, <1>7 DEF Next

\* A writer that has not been constructed yet is within the limit.
LEMMA InitLimit == Init => LimitInv
  BY WidthAssumption DEF Init, LimitInv, Reserved, SizeLimit, Idle, Ready

\* For records whose sizes do not wrap around, the maximum size that
\* WFile_setMaxSize and the constructor set is never exceeded between calls.
THEOREM SizeLimitCorrect == ASSUME NoWrap PROVE Spec => []SizeLimit
<1>1. Init => LimitInv  BY InitLimit
<1>2. LayoutInv /\ LimitInv /\ [Next]_vars => LimitInv'  BY LimitStep
<1>3. LimitInv => SizeLimit
  BY DEF LimitInv
<1> QED  BY <1>1, <1>2, <1>3, LayoutInvariant, PTL DEF Spec

-----------------------------------------------------------------------------
(* Refusals.                                                                 *)

\* The static header of gzip is part of what deflate writes.
GzipHeaders == \A r \in Record : StaticLen <= r.gz

\* A compressed store has never written more than its record is deflated to and
\* the EXTRA field: an early end of its writes leaves less.  A limit is 64 bits wide.
Sized ==
  /\ maxsize \in 0 .. W64 - 1
  /\ pc = "placeholder" => flen = wip.off
  /\ pc = "deflate" => flen <= wip.off + ExtraLen
  /\ pc \in {"patch", "limit"} => flen <= wip.off + ExtraLen + wip.rec.gz

\* Every step keeps that.
LEMMA SizedStep ==
  ASSUME GzipHeaders, LayoutInv, Sized, [Next]_vars
  PROVE  Sized'
<1> USE DEF Sized
<1>1. CASE UNCHANGED vars  BY <1>1 DEF vars
<1>2. ASSUME NEW r \in Record, NEW step \in {"header", "placeholder"}, StoreBegin(r, step)
      PROVE  Sized'
  <2>1. PICK sound : wip' = [rec |-> r, off |-> flen, sound |-> sound]
    BY <1>2 DEF StoreBegin
  <2>2. wip'.off = flen /\ flen' = flen /\ pc' = step /\ maxsize' = maxsize
    BY <1>2, <2>1 DEF StoreBegin, object
  <2> QED  BY <1>2, <2>2
<1>3. ASSUME pc' \in {"idle", "header", "data", "trailer"}, maxsize' \in 0 .. W64 - 1
      PROVE  Sized'
  BY <1>3
<1>4. ASSUME ~Idle  PROVE /\ wip.off \in Nat /\ flen \in Nat /\ ExtraLen \in Nat \ {0}
                          /\ StaticLen \in Nat /\ wip.rec.gz \in Nat
                          /\ StaticLen <= wip.rec.gz
  BY <1>4, WipSizes, LenAssumption DEF LayoutInv, TypeOK, GzipHeaders
<1>5. CASE WritePlaceholder
  <2>1. PICK k \in IF ferr THEN {1} ELSE Written(ExtraLen) :
          /\ Put(k, ExtraLen, FALSE)
          /\ pc' = IF k = ExtraLen /\ ~ferr THEN "deflate" ELSE "patch"
    BY <1>5 DEF WritePlaceholder
  <2>2. ~Idle  BY <1>5 DEF WritePlaceholder, Idle
  <2>3. k \in Nat /\ k <= ExtraLen  BY <1>4, <2>2, WrittenAtMost
  <2>4. flen' = flen + k /\ wip'.off = wip.off /\ wip'.rec = wip.rec /\ maxsize' = maxsize
    BY <1>5, <2>1 DEF Put, WritePlaceholder, object
  <2>5. flen = wip.off  BY <1>5 DEF WritePlaceholder
  <2> QED  BY <1>4, <2>1, <2>2, <2>3, <2>4, <2>5
<1>6. CASE Deflate
  <2>1. PICK k \in Written(wip.rec.gz) : Put(k, wip.rec.gz, TRUE)
    BY <1>6 DEF Deflate
  <2>2. ~Idle  BY <1>6 DEF Deflate, Idle
  <2>3. k \in Nat /\ k <= wip.rec.gz  BY <1>4, <2>2, WrittenAtMost
  <2>4. /\ flen' = flen + k /\ wip'.off = wip.off /\ wip'.rec = wip.rec /\ pc' = "patch"
        /\ maxsize' = maxsize
    BY <1>6, <2>1 DEF Put, Deflate, object
  <2>5. flen <= wip.off + ExtraLen  BY <1>6 DEF Deflate
  <2> QED  BY <1>4, <2>2, <2>3, <2>4, <2>5
<1>7. CASE Patch
  <2>1. ~Idle  BY <1>7 DEF Patch, Idle
  <2>2. /\ flen' = IF flen < wip.off + (StaticLen + ExtraLen)
                     THEN wip.off + (StaticLen + ExtraLen) ELSE flen
        /\ wip'.off = wip.off /\ wip'.rec = wip.rec /\ pc' = "limit"
        /\ flen <= wip.off + ExtraLen + wip.rec.gz /\ maxsize' = maxsize
    BY <1>7 DEF Patch, PatchLen, object
  <2> QED  BY <1>4, <2>1, <2>2
<1>8. CASE WriteHeader \/ WriteData \/ WriteTrailer \/ DeflateInitFails \/ GzipTooBig
             \/ GzipStored \/ Crash
  <2>1. pc' \in {"idle", "header", "data", "trailer"} /\ maxsize' \in {0, maxsize}
    BY <1>8 DEF WriteHeader, WriteData, WriteTrailer, DeflateInitFails, GzipTooBig,
                GzipStored, Crash, Return, object
  <2> QED  BY <1>3, <2>1, WidthAssumption
<1>9. ASSUME NEW r \in Record, StoreRefused(r) \/ StorePlain(r) \/ StoreGzip(r)
      PROVE  Sized'
  <2>1. CASE StoreRefused(r)
    BY <1>3, <2>1 DEF StoreRefused, Ready, Idle
  <2>2. CASE StorePlain(r)  BY <1>2, <2>2 DEF StorePlain
  <2>3. CASE StoreGzip(r)  BY <1>2, <2>3 DEF StoreGzip
  <2> QED  BY <1>9, <2>1, <2>2, <2>3
<1>10. ASSUME \/ \E m \in MaxSizes, c \in Comps : Construct(m, c)
              \/ \E m \in MaxSizes : ConstructRefused(m) \/ SetMaxSize(m)
              \/ Destroy
       PROVE  Sized'
  <2>1. pc' = pc /\ Idle /\ maxsize' \in MaxSizes \cup {0, maxsize}
    BY <1>10 DEF Construct, ConstructRefused, SetMaxSize, Destroy, Ready, LayoutInv,
                 Durable, object
  <2> QED  BY <1>3, <2>1, WidthAssumption DEF Idle
<1> QED
  BY <1>1, <1>5, <1>6, <1>7, <1>8, <1>9, <1>10 DEF Next, Step

\* A good uncompressed record is refused for its size only if it does not fit,
\* even where the casts and sums of the test wrap around.
LEMMA PlainRefused ==
  ASSUME LayoutInv, Sized, NEW r \in Record, comp = "plain", r.valid, StoreRefused(r)
  PROVE  flen + r.hdr + r.data + TrailerLen > maxsize
<1>1. NoRoom(r)  BY DEF StoreRefused
<1>2. /\ flen \in Nat /\ maxsize \in Nat /\ r.hdr \in Nat /\ r.data \in Nat
      /\ TrailerLen \in Nat
  BY RecordAssumption, LenAssumption DEF LayoutInv, TypeOK, RecordType
<1>3. \A n \in Nat : /\ n % W32 \in Nat /\ n % W32 <= n
                     /\ n % W64 \in Nat /\ n % W64 <= n
  <2> SUFFICES ASSUME NEW n \in Nat, NEW w \in Nat \ {0}
               PROVE  n % w \in Nat /\ n % w <= n
    BY WidthAssumption
  <2>1. n % w \in 0 .. w - 1  OBVIOUS
  <2>2. n < w => n % w = n  OBVIOUS
  <2> QED  BY <2>1, <2>2
<1> DEFINE d == r.data % W32
           s == (r.hdr + d) % W64
           t == (s + TrailerLen) % W64
<1>4. d \in Nat /\ d <= r.data  BY <1>2, <1>3
<1>5. s \in Nat /\ s <= r.hdr + d
  <2> HIDE DEF d
  <2> QED  BY <1>2, <1>3, <1>4
<1>6. t \in Nat /\ t <= s + TrailerLen
  <2> HIDE DEF s
  <2> QED  BY <1>2, <1>3, <1>5
<1>7. (maxsize - flen) % W64 < t  BY <1>1 DEF NoRoom, DataLength
<1> HIDE DEF d, s, t
<1>8. maxsize - flen >= 0 => (maxsize - flen < t)
  <2> SUFFICES ASSUME maxsize - flen >= 0 PROVE maxsize - flen < t
    OBVIOUS
  <2>1. maxsize < W64 /\ W64 \in Nat \ {0}  BY <1>2, WidthAssumption DEF Sized
  <2>2. maxsize - flen \in 0 .. W64 - 1  BY <1>2, <2>1
  <2>3. (maxsize - flen) % W64 = maxsize - flen  BY <2>1, <2>2, ModSmall
  <2> QED  BY <1>7, <2>3
<1> QED  BY <1>2, <1>4, <1>5, <1>6, <1>8

\* WFile_storeRecord refuses a good record for its size only when it really does
\* not fit, whatever fails, and even when the casts and sums of its test wrap around.
THEOREM RefusedOnlyWhenFullCorrect ==
  ASSUME GzipHeaders PROVE Spec => RefusedOnlyWhenFull
<1>1. Init => Sized  BY WidthAssumption DEF Init, Sized
<1>2. LayoutInv /\ Sized /\ [Next]_vars => Sized'  BY SizedStep
<1> DEFINE Right ==
      /\ \A r \in Record :
           comp = "plain" /\ r.valid /\ StoreRefused(r)
             => flen + r.hdr + r.data + TrailerLen > maxsize
      /\ pc = "limit" /\ ret' = "error"
           => wip.off + ExtraLen + wip.rec.gz >= maxsize
<1>3. LayoutInv /\ Sized /\ [Next]_vars => [Right]_vars
  <2> SUFFICES ASSUME LayoutInv, Sized, Next PROVE Right
    OBVIOUS
  <2>1. ASSUME pc = "limit", ret' = "error"
        PROVE  wip.off + ExtraLen + wip.rec.gz >= maxsize
    <3>1. ~Idle  BY <2>1 DEF Idle
    <3>2. GzipTooBig
      BY <2>1, <3>1
         DEF Next, Step, Construct, ConstructRefused, SetMaxSize, StoreRefused,
             StorePlain, StoreGzip, StoreBegin, WriteHeader, WriteData, WriteTrailer,
             WritePlaceholder, DeflateInitFails, Deflate, Patch, GzipStored, Destroy,
             Crash, Return, Ready, Idle, LayoutInv, Durable
    <3>3. maxsize <= flen /\ flen <= wip.off + ExtraLen + wip.rec.gz
      BY <2>1, <3>2 DEF GzipTooBig, Sized
    <3> QED
      BY <3>1, <3>3, WipSizes, LenAssumption DEF LayoutInv, TypeOK
  <2> QED  BY <2>1, PlainRefused
<1> QED
  <2> HIDE DEF Right
  <2>1. Spec => [][Right]_vars  BY <1>1, <1>2, <1>3, LayoutInvariant, PTL DEF Spec
  <2> QED  BY <2>1 DEF RefusedOnlyWhenFull, Right

-----------------------------------------------------------------------------
(* A store is atomic: refinement of BoundedArchive.                          *)

\* What the mapping needs beyond the invariants above, when no write fails: the
\* store under way is sound and has not been answered, and a compressed one that
\* has been patched has some length.
StoreSound ==
  /\ open => maxsize # 0
  /\ ~ferr
  /\ ~Idle => ret = "none" /\ wip.sound
  /\ pc = "limit" => wip.off < flen

\* Every step keeps that, if writes do not fail.
LEMMA StoreSoundStep ==
  ASSUME "io" \notin Faults, LayoutInv, StoreSound, [Next]_vars
  PROVE  StoreSound'
<1> USE DEF StoreSound, Idle, Ready, object, file, Return
<1>0. \A n \in Nat : \A k \in Written(n) : k = n  BY DEF Written
<1>1. CASE UNCHANGED vars  BY <1>1 DEF vars
<1>2. ASSUME NEW m \in MaxSizes, NEW c \in Comps, Construct(m, c)  PROVE StoreSound'
  <2>1. Idle  BY <1>2 DEF Construct, LayoutInv, Durable
  <2> QED  BY <1>2, <2>1 DEF Construct
<1>3. ASSUME NEW m \in MaxSizes, ConstructRefused(m)  PROVE StoreSound'
  <2>1. Idle  BY <1>3 DEF ConstructRefused, LayoutInv, Durable
  <2> QED  BY <1>3, <2>1 DEF ConstructRefused
<1>4. ASSUME NEW m \in MaxSizes, SetMaxSize(m)  PROVE StoreSound'
  <2>1. maxsize' = maxsize \/ (maxsize' = m /\ maxsize < m)
    BY <1>4 DEF SetMaxSize
  <2>2. maxsize \in Nat /\ m \in Nat
    BY WidthAssumption DEF LayoutInv, TypeOK
  <2>3. open' = open /\ ferr' = ferr /\ pc' = "idle"  BY <1>4 DEF SetMaxSize
  <2> QED  BY <2>1, <2>2, <2>3
<1>5. ASSUME NEW r \in Record, StoreRefused(r)  PROVE StoreSound'
  BY <1>5 DEF StoreRefused
<1>6. ASSUME NEW r \in Record, StorePlain(r) \/ StoreGzip(r)  PROVE StoreSound'
  <2> PICK step \in {"header", "placeholder"} : StoreBegin(r, step)
    BY <1>6 DEF StorePlain, StoreGzip
  <2>1. wip' = [rec |-> r, off |-> flen, sound |-> TRUE]
    BY DEF StoreBegin
  <2> QED  BY <2>1 DEF StoreBegin
<1>7. CASE Destroy  BY <1>7 DEF Destroy
<1>8. CASE Crash  BY <1>8 DEF Crash
<1>9. CASE WriteTrailer \/ DeflateInitFails \/ GzipTooBig \/ GzipStored
  <2>1. CASE WriteTrailer
    <3>1. PICK k \in Written(TrailerLen) : ferr' = (ferr \/ k # TrailerLen)
      BY <2>1 DEF WriteTrailer
    <3>2. k = TrailerLen  BY <1>0, LenAssumption
    <3> QED  BY <2>1, <3>1, <3>2 DEF WriteTrailer
  <2>2. CASE DeflateInitFails  BY <2>2 DEF DeflateInitFails
  <2>3. CASE GzipTooBig  BY <2>3 DEF GzipTooBig
  <2>4. CASE GzipStored  BY <2>4 DEF GzipStored
  <2> HIDE DEF StoreSound
  <2> QED  BY <1>9, <2>1, <2>2, <2>3, <2>4
<1>10. ASSUME ~Idle, NEW n \in Nat, NEW copied \in BOOLEAN, Put(n, n, copied),
              UNCHANGED <<members, synced, object, ret>>, pc' # "limit"
       PROVE  StoreSound'
  <2>1. ferr' = ferr /\ wip'.sound = wip.sound  BY <1>10 DEF Put
  <2> QED  BY <1>10, <2>1
<1>11. CASE WriteHeader
  <2>1. Put(wip.rec.hdr, wip.rec.hdr, TRUE)
    BY <1>0, <1>11, WipSizes DEF WriteHeader
  <2> QED  BY <1>10, <1>11, <2>1, WipSizes DEF WriteHeader
<1>12. CASE WriteData
  <2>1. Put(wip.rec.data, wip.rec.data, TRUE)
    BY <1>0, <1>12, WipSizes DEF WriteData
  <2> QED  BY <1>10, <1>12, <2>1, WipSizes DEF WriteData
<1>13. CASE WritePlaceholder
  <2>1. Put(ExtraLen, ExtraLen, FALSE) /\ pc' # "limit"
    BY <1>0, <1>13, LenAssumption DEF WritePlaceholder
  <2> QED  BY <1>10, <1>13, <2>1, LenAssumption DEF WritePlaceholder
<1>14. CASE Deflate
  <2>1. Put(wip.rec.gz, wip.rec.gz, TRUE)
    BY <1>0, <1>14, WipSizes DEF Deflate
  <2> QED  BY <1>10, <1>14, <2>1, WipSizes DEF Deflate
<1>15. CASE Patch
  <2>1. wip'.off = wip.off /\ wip'.sound /\ ~ferr'
    <3>1. wip' = [rec |-> wip.rec, off |-> wip.off, sound |-> wip.sound /\ TRUE]
          /\ ferr' = (ferr \/ ~TRUE)
      BY <1>15 DEF Patch
    <3>2. wip.sound /\ ~ferr  BY <1>15 DEF Patch
    <3>3. wip'.off = wip.off /\ wip'.sound = (wip.sound /\ TRUE)  BY <3>1
    <3> QED  BY <3>1, <3>2, <3>3
  <2>2. wip.off \in Nat /\ flen \in Nat /\ PatchLen \in Nat \ {0}
    BY <1>15, WipSizes, LenAssumption DEF Patch, PatchLen, LayoutInv, TypeOK
  <2>3. wip.off < flen'
    <3>1. flen' = IF flen < wip.off + PatchLen THEN wip.off + PatchLen ELSE flen
      BY <1>15 DEF Patch
    <3> HIDE DEF PatchLen
    <3> QED  BY <2>2, <3>1
  <2> QED  BY <1>15, <2>1, <2>3 DEF Patch
<1> QED
  BY <1>1, <1>2, <1>3, <1>4, <1>5, <1>6, <1>7, <1>8, <1>9, <1>11, <1>12, <1>13,
     <1>14, <1>15
  DEF Next, Step

Entry == [rec: Record, whole: BOOLEAN]

\* An entry for each member.
LEMMA LogType ==
  ASSUME NEW ms \in Seq(MemberType)
  PROVE  /\ LogOf(ms) \in Seq(Entry) /\ Len(LogOf(ms)) = Len(ms)
         /\ \A i \in 1 .. Len(ms) :
              LogOf(ms)[i] = [rec |-> ms[i].rec, whole |-> ms[i].whole]
<1> DEFINE log == [i \in 1 .. Len(ms) |-> [rec |-> ms[i].rec, whole |-> ms[i].whole]]
<1>1. \A i \in 1 .. Len(ms) : [rec |-> ms[i].rec, whole |-> ms[i].whole] \in Entry
  BY MemberAt DEF MemberType, Entry
<1>2. Len(ms) \in Nat  OBVIOUS
<1>3. log \in [1 .. Len(ms) -> Entry]  BY <1>1
<1>4. log \in Seq(Entry) /\ Len(log) = Len(ms)
  <2> HIDE DEF log
  <2> QED  BY <1>2, <1>3
<1> QED  BY <1>4 DEF LogOf

\* One more member is one more entry.
LEMMA LogGrows ==
  ASSUME NEW ms \in Seq(MemberType), NEW ns \in Seq(MemberType),
         Len(ns) = Len(ms) + 1, \A i \in 1 .. Len(ms) : ns[i] = ms[i]
  PROVE  LogOf(ns) = Append(LogOf(ms), [rec   |-> ns[Len(ns)].rec,
                                        whole |-> ns[Len(ns)].whole])
<1> DEFINE entry == [rec |-> ns[Len(ns)].rec, whole |-> ns[Len(ns)].whole]
<1>1. Len(ms) \in Nat /\ Len(ns) \in 1 .. Len(ns)  OBVIOUS
<1>2. entry \in Entry  BY <1>1, MemberAt DEF MemberType, Entry
<1>3. /\ LogOf(ms) \in Seq(Entry) /\ Len(LogOf(ms)) = Len(ms)
      /\ LogOf(ns) \in Seq(Entry) /\ Len(LogOf(ns)) = Len(ns)
      /\ LogOf(ns)[Len(ns)] = entry
      /\ \A i \in 1 .. Len(ms) : LogOf(ns)[i] = LogOf(ms)[i]
  <2>1. \A i \in 1 .. Len(ms) : LogOf(ns)[i] = LogOf(ms)[i]
    <3> SUFFICES ASSUME NEW i \in 1 .. Len(ms)  PROVE LogOf(ns)[i] = LogOf(ms)[i]
      OBVIOUS
    <3>1. i \in 1 .. Len(ns) /\ ns[i] = ms[i]  BY <1>1
    <3>2. LogOf(ns)[i] = [rec |-> ns[i].rec, whole |-> ns[i].whole]
      BY <3>1, LogType
    <3>3. LogOf(ms)[i] = [rec |-> ms[i].rec, whole |-> ms[i].whole]
      BY LogType
    <3> QED  BY <3>1, <3>2, <3>3
  <2>2. LogOf(ns)[Len(ns)] = entry  BY <1>1, LogType
  <2> HIDE DEF entry
  <2> QED  BY <2>1, <2>2, LogType
<1> HIDE DEF entry
<1>4. /\ Append(LogOf(ms), entry) \in Seq(Entry)
      /\ Len(Append(LogOf(ms), entry)) = Len(ns)
      /\ Append(LogOf(ms), entry)[Len(ns)] = entry
      /\ \A i \in 1 .. Len(ms) : Append(LogOf(ms), entry)[i] = LogOf(ms)[i]
  BY <1>1, <1>2, <1>3
<1>5. \A i \in 1 .. Len(ns) : LogOf(ns)[i] = Append(LogOf(ms), entry)[i]
  <2>1. \A i \in 1 .. Len(ns) : i \in 1 .. Len(ms) \/ i = Len(ns)  BY <1>1
  <2> QED  BY <1>3, <1>4, <2>1
<1>6. LogOf(ns) = Append(LogOf(ms), entry)  BY <1>3, <1>4, <1>5, SeqEqual
<1> QED  BY <1>6 DEF entry

\* Damage to the last member is damage to the last entry.
LEMMA LogDamaged ==
  ASSUME NEW ms \in Seq(MemberType), NEW ns \in Seq(MemberType), ms # << >>,
         Len(ns) = Len(ms), \A i \in 1 .. Len(ms) - 1 : ns[i] = ms[i],
         ns[Len(ms)].rec = ms[Len(ms)].rec, ns[Len(ms)].whole = FALSE
  PROVE  /\ LogOf(ms) # << >>
         /\ LogOf(ns) = [LogOf(ms) EXCEPT ![Len(LogOf(ms))] =
                            [rec |-> LogOf(ms)[Len(LogOf(ms))].rec, whole |-> FALSE]]
<1> DEFINE n  == Len(ms)
           ls == LogOf(ms)
           d  == [rec |-> ls[n].rec, whole |-> FALSE]
           ds == [ls EXCEPT ![n] = d]
<1>1. n \in Nat \ {0} /\ n \in 1 .. n  OBVIOUS
<1>2. /\ ls \in Seq(Entry) /\ Len(ls) = n
      /\ LogOf(ns) \in Seq(Entry) /\ Len(LogOf(ns)) = n
      /\ ls[n] = [rec |-> ms[n].rec, whole |-> ms[n].whole]
      /\ LogOf(ns)[n] = [rec |-> ms[n].rec, whole |-> FALSE]
  BY <1>1, LogType
<1>3. \A i \in 1 .. n : i # n => LogOf(ns)[i] = ls[i]
  <2>1. \A i \in 1 .. n : i # n => ns[i] = ms[i]  BY <1>1
  <2> QED  BY <2>1, LogType, ZenonT(60)
<1> HIDE DEF ls
<1>4. d = [rec |-> ms[n].rec, whole |-> FALSE]
  <2>1. ls[n].rec = ms[n].rec  BY <1>2
  <2> QED  BY <2>1
<1>5. d \in Entry
  BY <1>1, <1>4, MemberAt DEF MemberType, Entry
<1> HIDE DEF d
<1>6. /\ ds \in Seq(Entry) /\ Len(ds) = n /\ ds[n] = d
      /\ \A i \in 1 .. n : i # n => ds[i] = ls[i]
  BY <1>1, <1>2, <1>5
<1>7. \A i \in 1 .. n : LogOf(ns)[i] = ds[i]
  <2>1. LogOf(ns)[n] = ds[n]  BY <1>2, <1>4, <1>6
  <2> HIDE DEF ds
  <2> QED  BY <1>3, <1>6, <2>1
<1>8. LogOf(ns) = ds
  <2> HIDE DEF ds, n
  <2> QED  BY <1>2, <1>6, <1>7, SeqEqual
<1>9. ls # << >>  BY <1>1, <1>2
<1> QED  BY <1>2, <1>8, <1>9 DEF ls, d

\* What a crash leaves of the members: when idle some bytes of the last one are
\* lost, or none; in a store, a member is added for what it has written.
LEMMA CrashLeaves ==
  ASSUME LayoutInv, Crash
  PROVE  /\ members' \in Seq(MemberType) /\ FileEnd(members)' = flen'
         /\ Idle => \/ members' = members
                    \/ /\ members # << >> /\ Len(members') = Len(members)
                       /\ \A i \in 1 .. Len(members) - 1 : members'[i] = members[i]
                       /\ members'[Len(members)].rec = members[Len(members)].rec
                       /\ members'[Len(members)].whole = FALSE
                       /\ flen' <= FileEnd(members)
         /\ ~Idle => /\ Len(members') = Len(members) + 1
                     /\ \A i \in 1 .. Len(members) : members'[i] = members[i]
                     /\ members'[Len(members')].rec = wip.rec
                     /\ FileEnd(members) <= flen'
<1>1. PICK k \in synced .. flen :
        /\ members' = CutAt(IF Idle THEN members
                            ELSE Append(members,
                                   Member(flen, wip.sound /\ pc = "limit", FALSE)), k)
        /\ flen' = k /\ pc' = "idle"
  BY DEF Crash, Return
<1>2. /\ members \in Seq(MemberType) /\ Ordered(members) /\ Len(members) \in Nat
      /\ k \in Nat /\ flen \in Nat /\ synced \in Nat /\ synced <= k /\ k <= flen
  BY <1>1 DEF LayoutInv, TypeOK
<1>3. members' \in Seq(MemberType) /\ FileEnd(members)' = flen'
  BY <1>1, CrashLayout DEF LayoutInv, TypeOK, Layout, Idle
<1>4. CASE Idle
  <2>1. members' = CutAt(members, k) /\ FileEnd(members) = flen
    BY <1>1, <1>4 DEF LayoutInv, Layout
  <2>2. CASE k = flen
    <3>1. members' = members  BY <1>2, <2>1, <2>2, CutAfterEnd
    <3> QED  BY <1>3, <1>4, <3>1
  <2>3. CASE k < flen
    <3>1. members # << >>  BY <1>2, <2>1, <2>3 DEF FileEnd
    <3>2. Len(members) \in 1 .. Len(members) /\ ~(EndOf(members[Len(members)]) <= k)
      BY <1>2, <2>1, <2>3, <3>1, FileEndType
    <3>3. /\ members'[Len(members)].rec = members[Len(members)].rec
          /\ members'[Len(members)].whole = FALSE
      BY <2>1, <3>2 DEF CutAt, Damaged
    <3>4. Len(members') = Len(members)  BY <1>2, <2>1, CutAtType
    <3>5. \A i \in 1 .. Len(members) - 1 : members'[i] = members[i]  BY CrashLayout
    <3> QED  BY <1>1, <1>2, <1>3, <1>4, <2>1, <3>1, <3>3, <3>4, <3>5
  <2>4. k = flen \/ k < flen  BY <1>2
  <2> QED  BY <2>2, <2>3, <2>4, Zenon
<1>5. CASE ~Idle
  <2> DEFINE m  == Member(flen, wip.sound /\ pc = "limit", FALSE)
             as == Append(members, m)
  <2>1. /\ wip.off = FileEnd(members) /\ wip.off <= flen /\ wip.off <= synced
        /\ wip.off \in Nat
    BY <1>5, WipSizes DEF LayoutInv, Layout, Durable
  <2>2. /\ as \in Seq(MemberType) /\ Len(as) = Len(members) + 1
        /\ \A i \in 1 .. Len(members) : as[i] = members[i]
    <3>1. (wip.sound /\ pc = "limit") \in BOOLEAN  OBVIOUS
    <3> QED  BY <1>2, <1>5, <2>1, <3>1, MemberExtends, ZenonT(60)
  <2>3. members' = CutAt(as, k)  BY <1>1, <1>5
  <2>4. Len(members') = Len(members) + 1  BY <1>2, <2>2, <2>3, CutAtType
  <2>5. as[Len(members) + 1].rec = wip.rec  BY <1>2 DEF Member
  <2> HIDE DEF as
  <2>6. members'[Len(members) + 1].rec = wip.rec
    <3>1. Len(members) + 1 \in 1 .. Len(as)  BY <1>2, <2>2
    <3> QED  BY <2>3, <2>5, <3>1 DEF CutAt, Damaged
  <2>7. ASSUME NEW i \in 1 .. Len(members)  PROVE members'[i] = members[i]
    <3>1. EndOf(members[i]) <= k
      <4>1. EndOf(members[i]) <= FileEnd(members)  BY <1>2, OrderedEnd
      <4>2. EndOf(members[i]) \in Nat /\ FileEnd(members) \in Nat
        BY <1>2, MemberAt, FileEndType
      <4> QED  BY <1>2, <2>1, <4>1, <4>2
    <3>2. i \in 1 .. Len(as)  BY <1>2, <2>2
    <3>3. as[i] = members[i]  BY <2>2
    <3> QED  BY <2>3, <3>1, <3>2, <3>3 DEF CutAt
  <2>8. FileEnd(members) <= flen'  BY <1>1, <1>2, <2>1
  <2> QED  BY <1>3, <1>5, <2>4, <2>6, <2>7, <2>8
<1> QED  BY <1>4, <1>5

\* A step that leaves the members leaves the log.
LEMMA SameLog ==
  ASSUME LayoutInv, members' = members
  PROVE  LogOf(members)' = LogOf(members) /\ FileEnd(members)' = FileEnd(members)
BY SameMembers DEF LogOf

\* The answer of a successful store is one step of the archive: the whole record
\* is appended, within the limit.
LEMMA StoreAccepted ==
  ASSUME NoWrap, "io" \notin Faults, LayoutInv, LimitInv, StoreSound,
         WriteTrailer \/ GzipStored
  PROVE  \E r \in Record : Archive!Accept(r)
<1>1. PICK e \in Nat, whole \in BOOLEAN :
        /\ whole /\ wip.off < e /\ e <= maxsize
        /\ members' = Append(members, Member(e, whole, TRUE))
  <2>1. CASE WriteTrailer
    <3> PICK k \in Written(TrailerLen) :
          members' = Append(members,
                       Member(flen + k, wip.sound /\ k = TrailerLen, TRUE))
      BY <2>1 DEF WriteTrailer
    <3>1. ~Idle  BY <2>1 DEF WriteTrailer, Idle
    <3>2. k = TrailerLen /\ wip.sound
      BY <3>1, LenAssumption DEF Written, StoreSound
    <3>3. (wip.sound /\ k = TrailerLen) \in BOOLEAN /\ (wip.sound /\ k = TrailerLen)
      BY <3>2
    <3>4. /\ wip.off \in Nat /\ wip.off <= flen /\ flen \in Nat
          /\ flen + TrailerLen <= maxsize /\ TrailerLen \in Nat \ {0}
      BY <2>1, <3>1, WipSizes, LenAssumption
         DEF LayoutInv, TypeOK, Layout, LimitInv, Reserved, WriteTrailer
    <3>5. flen + k \in Nat /\ wip.off < flen + k /\ flen + k <= maxsize
      BY <3>2, <3>4
    <3> QED  BY <3>3, <3>5, Zenon
  <2>2. CASE GzipStored
    <3>1. ~Idle  BY <2>2 DEF GzipStored, Idle
    <3>2. wip.sound /\ wip.sound \in BOOLEAN  BY <3>1, WipSizes DEF StoreSound
    <3>3. /\ flen \in Nat /\ maxsize \in Nat /\ maxsize > flen /\ wip.off < flen
          /\ members' = Append(members, Member(flen, wip.sound, TRUE))
      BY <2>2 DEF GzipStored, StoreSound, LayoutInv, TypeOK
    <3>4. flen <= maxsize  BY <3>3
    <3> QED  BY <3>2, <3>3, <3>4, Zenon
  <2> QED  BY <2>1, <2>2
<1>2. /\ ~Idle /\ open /\ ret' = "ok" /\ maxsize' = maxsize
  BY DEF WriteTrailer, GzipStored, Return, Idle, LayoutInv, Durable
<1>3. maxsize # 0 /\ ret = "none"  BY <1>2 DEF StoreSound
<1>4. /\ members \in Seq(MemberType) /\ wip.rec \in Record /\ wip.off \in Nat
      /\ wip.off = FileEnd(members)
  BY <1>2, WipSizes DEF LayoutInv, TypeOK, Layout
<1> DEFINE ms == Append(members, Member(e, whole, TRUE))
<1>5. /\ ms \in Seq(MemberType) /\ FileEnd(ms) = e /\ Len(ms) = Len(members) + 1
      /\ \A i \in 1 .. Len(members) : ms[i] = members[i]
  <2>1. wip.off <= e  BY <1>1, <1>4
  <2> QED  BY <1>2, <2>1, MemberExtends
<1>6. ms[Len(ms)].rec = wip.rec /\ ms[Len(ms)].whole = TRUE
  <2>1. ms[Len(ms)] = Member(e, whole, TRUE)
    <3> DEFINE m == Member(e, whole, TRUE)
    <3>1. m \in MemberType  BY <1>1, <1>4 DEF Member, MemberType
    <3> HIDE DEF m
    <3>2. Append(members, m)[Len(Append(members, m))] = m  BY <1>4, <3>1
    <3> QED  BY <3>2 DEF m
  <2> QED  BY <1>1, <2>1 DEF Member
<1> HIDE DEF ms
<1>7. LogOf(ms) = Append(LogOf(members), [rec |-> wip.rec, whole |-> TRUE])
  BY <1>4, <1>5, <1>6, LogGrows
<1>8. members' = ms  BY <1>1 DEF ms
<1>9. /\ LogOf(members)' = Append(LogOf(members), [rec |-> wip.rec, whole |-> TRUE])
      /\ FileEnd(members) < FileEnd(members)' /\ FileEnd(members)' <= maxsize
  <2>1. LogOf(members)' = LogOf(members') /\ FileEnd(members)' = FileEnd(members')
    BY DEF LogOf, FileEnd, EndOf
  <2> QED  BY <1>1, <1>4, <1>5, <1>7, <1>8, <2>1
<1>10. Archive!Accept(wip.rec)  BY <1>2, <1>3, <1>9 DEF Archive!Accept
<1> QED  BY <1>4, <1>10

\* A crash of the writer is a crash of the archive.
LEMMA CrashMapped ==
  ASSUME LayoutInv, StoreSound, Crash
  PROVE  Archive!Crash
<1>1. /\ maxsize # 0 /\ maxsize' = 0 /\ ret' = "none"
      /\ members \in Seq(MemberType) /\ members' \in Seq(MemberType)
      /\ LogOf(members)' = LogOf(members') /\ FileEnd(members) \in Nat
      /\ FileEnd(members)' = flen' /\ flen' \in Nat
  <2>1. maxsize # 0 /\ maxsize' = 0 /\ ret' = "none" /\ flen' \in Nat
    BY CrashLayout DEF Crash, Return, StoreSound, LayoutInv, TypeOK
  <2>2. LogOf(members)' = LogOf(members')  BY DEF LogOf
  <2> QED  BY <2>1, <2>2, CrashLeaves, FileEndType DEF LayoutInv, TypeOK
<1>2. CASE Idle /\ members' = members
  <2>1. LogOf(members)' = LogOf(members) /\ FileEnd(members)' = FileEnd(members)
    BY <1>2, SameLog
  <2> QED  BY <1>1, <2>1 DEF Archive!Crash
<1>3. CASE Idle /\ members' # members
  <2>1. /\ LogOf(members) # << >>
        /\ LogOf(members') =
             [LogOf(members) EXCEPT ![Len(LogOf(members))] =
                [rec |-> LogOf(members)[Len(LogOf(members))].rec, whole |-> FALSE]]
    BY <1>1, <1>3, CrashLeaves, LogDamaged
  <2>2. FileEnd(members)' <= FileEnd(members)  BY <1>1, <1>3, CrashLeaves
  <2> QED  BY <1>1, <2>1, <2>2 DEF Archive!Crash
<1>4. CASE ~Idle
  <2>1. /\ Len(members') = Len(members) + 1
        /\ \A i \in 1 .. Len(members) : members'[i] = members[i]
        /\ members'[Len(members')].rec = wip.rec
        /\ FileEnd(members) <= flen'
    BY <1>4, CrashLeaves
  <2>2. wip.rec \in Record /\ members'[Len(members')].whole \in BOOLEAN
    <3>1. Len(members') \in 1 .. Len(members')  BY <1>1, <2>1
    <3>2. members'[Len(members')].whole \in BOOLEAN
      BY <1>1, <3>1, MemberAt DEF MemberType
    <3>3. wip.rec \in Record  BY <1>4, WipSizes
    <3> QED  BY <3>2, <3>3
  <2>3. LogOf(members') = Append(LogOf(members),
                            [rec |-> wip.rec, whole |-> members'[Len(members')].whole])
    BY <1>1, <2>1, LogGrows
  <2> QED  BY <1>1, <2>1, <2>2, <2>3 DEF Archive!Crash
<1> QED  BY <1>2, <1>3, <1>4

\* WFile_storeRecord appends the whole record or changes nothing, within the
\* maximum size, and a crash costs the last record at most, when writes do not
\* fail and no size wraps around.
THEOREM ArchiveCorrect ==
  ASSUME NoWrap, "io" \notin Faults PROVE Spec => ArchiveSpec
<1> DEFINE Inv == LayoutInv /\ LimitInv /\ StoreSound
<1>1. Init => Inv
  <2>1. Init => StoreSound  BY DEF Init, StoreSound, Idle
  <2> QED  BY <2>1, InitLayout, InitLimit
<1>2. Inv /\ [Next]_vars => Inv'
  BY StepKeeps, LimitStep, StoreSoundStep
<1>3. Init => Archive!Init
  <2> SUFFICES ASSUME Init PROVE Archive!Init
    OBVIOUS
  <2>1. members = << >> /\ maxsize = 0 /\ ret = "none"  BY DEF Init
  <2>2. LogOf(members) = << >>  BY <2>1 DEF LogOf
  <2>3. FileEnd(members) = 0  BY <2>1 DEF FileEnd
  <2> QED  BY <2>1, <2>2, <2>3 DEF Archive!Init
<1>4. Inv /\ [Next]_vars => [Archive!Next]_(Archive!avars)
  <2> SUFFICES ASSUME LayoutInv, LimitInv, StoreSound, [Next]_vars
               PROVE  [Archive!Next]_(Archive!avars)
    OBVIOUS
  <2> USE DEF Archive!Next, Archive!avars
  <2>0. /\ maxsize \in Nat /\ FileEnd(members) \in Nat /\ flen \in Nat
        /\ ~open => Idle /\ maxsize = 0
        /\ Idle => flen = FileEnd(members)
        /\ open => maxsize # 0
    BY FileEndType DEF LayoutInv, TypeOK, Durable, Layout, StoreSound
  <2>1. ASSUME members' = members, maxsize' = maxsize, ret' = ret
        PROVE  UNCHANGED Archive!avars
    BY <2>1, SameLog
  <2>2. ASSUME members' = members, maxsize' = maxsize, ret' = "error"
        PROVE  Archive!Refuse
    BY <2>2, SameLog DEF Archive!Refuse
  <2>3. CASE UNCHANGED vars  BY <2>1, <2>3 DEF vars
  <2>4. CASE WriteHeader \/ WriteData \/ WritePlaceholder \/ Deflate
    BY <2>1, <2>4 DEF WriteHeader, WriteData, WritePlaceholder, Deflate, object
  <2>5. CASE Patch
    <3>1. members' = members  BY <2>5, PatchLayout
    <3> QED  BY <2>1, <2>5, <3>1 DEF Patch, object
  <2>6. CASE WriteTrailer \/ GzipStored  BY <2>6, StoreAccepted
  <2>7. CASE DeflateInitFails \/ GzipTooBig
    <3>1. members' = members  BY <2>7, CutOffLayout
    <3> QED  BY <2>2, <2>7, <3>1 DEF DeflateInitFails, GzipTooBig, object, Return
  <2>8. ASSUME NEW m \in MaxSizes, NEW c \in Comps, Construct(m, c)
        PROVE  Archive!Next
    <3>1. /\ ~open /\ m # 0 /\ flen < m /\ maxsize' = m /\ ret' = "ok"
          /\ members' = members
      BY <2>8 DEF Construct, file
    <3>2. maxsize = 0 /\ FileEnd(members) < m  BY <2>0, <3>1
    <3>3. Archive!Open(m)  BY <3>1, <3>2, SameLog DEF Archive!Open
    <3> QED  BY <3>1, <3>3
  <2>9. ASSUME NEW m \in MaxSizes, ConstructRefused(m)
        PROVE  Archive!Next
    BY <2>2, <2>9 DEF ConstructRefused, file, object
  <2>10. ASSUME NEW m \in MaxSizes, SetMaxSize(m)
         PROVE  Archive!Next
    <3>1. members' = members  BY <2>10 DEF SetMaxSize, file
    <3>2. CASE maxsize # 0 /\ maxsize < m
      <4>1. maxsize' = m /\ ret' = "ok"  BY <2>10, <3>2 DEF SetMaxSize
      <4>2. Archive!Raise(m)  BY <3>1, <3>2, <4>1, SameLog DEF Archive!Raise
      <4> QED  BY <4>1, <4>2
    <3>3. CASE ~(maxsize # 0 /\ maxsize < m)
      BY <2>2, <2>10, <3>1, <3>3 DEF SetMaxSize
    <3> QED  BY <3>2, <3>3
  <2>11. ASSUME NEW r \in Record, StoreRefused(r)
         PROVE  Archive!Next
    BY <2>2, <2>11 DEF StoreRefused
  <2>12. ASSUME NEW r \in Record, StorePlain(r) \/ StoreGzip(r)
         PROVE  Archive!Next
    <3>1. PICK step \in {"header", "placeholder"} : StoreBegin(r, step)
      BY <2>12 DEF StorePlain, StoreGzip
    <3>2. open /\ members' = members /\ maxsize' = maxsize /\ ret' = "none"
      BY <3>1 DEF StoreBegin, Ready, object
    <3>3. Archive!Call  BY <2>0, <3>2, SameLog DEF Archive!Call
    <3> QED  BY <3>3
  <2>13. CASE Destroy
    <3>1. open /\ members' = members /\ maxsize' = 0 /\ ret' = "none"
      BY <2>13 DEF Destroy, Ready
    <3>2. Archive!Close  BY <2>0, <3>1, SameLog DEF Archive!Close
    <3> QED  BY <3>2
  <2>14. CASE Crash  BY <2>14, CrashMapped
  <2> QED
    BY <2>3, <2>4, <2>5, <2>6, <2>7, <2>8, <2>9, <2>10, <2>11, <2>12, <2>13, <2>14
    DEF Next, Step
<1> QED
  <2> HIDE DEF Inv
  <2> QED  BY <1>1, <1>2, <1>3, <1>4, PTL DEF Spec, ArchiveSpec, Archive!Spec

=============================================================================
