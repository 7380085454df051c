-------------------------- MODULE ApplyHookProofs ---------------------------
(***************************************************************************)
(* Theorems about ApplyHook, for every set of object files, every first    *)
(* alignment and hooks of any length.                                      *)
(***************************************************************************)
EXTENDS ApplyHook, SequenceTheorems, TLAPS

(***************************************************************************)
(* What the linker makes of an object file begins with a null byte, or is  *)
(* empty, whatever the alignment and the fill, or never.                   *)
(***************************************************************************)
DeadHead(b) == b = <<>> \/ b[1] = 0

DeadObject(o) ==
  IF o.text # <<>> THEN o.text[1] = 0 ELSE o.rdata # <<>> => o.rdata[1] = 0

LEMMA ZerosType ==
  ASSUME NEW n \in Nat
  PROVE  Zeros(n) \in Seq(Nat) /\ Len(Zeros(n)) = n /\ \A k \in 1..n : Zeros(n)[k] = 0
<1>1. Zeros(n) \in [1..n -> Nat]
  BY DEF Zeros
<1>2. Zeros(n) \in Seq(Nat)
  BY <1>1, SeqDef
<1>3. DOMAIN Zeros(n) = 1..n /\ DOMAIN Zeros(n) = 1..Len(Zeros(n)) /\ Len(Zeros(n)) \in Nat
  BY <1>1, <1>2, LenProperties
<1> QED
  BY <1>2, <1>3 DEF Zeros

LEMMA GapType ==
  ASSUME NEW n \in Nat, NEW a \in Nat
  PROVE  Gap(n, a) \in Nat /\ Gap(0, a) = 0
<1>1. a # 0 => n % a \in 0..(a - 1) /\ 0 % a = 0
  OBVIOUS
<1> QED
  BY <1>1 DEF Gap

LEMMA HeadOfConcat ==
  ASSUME NEW s \in Seq(Nat), NEW t \in Seq(Nat)
  PROVE  /\ s \o t \in Seq(Nat)
         /\ s # <<>> => s \o t # <<>> /\ (s \o t)[1] = s[1]
         /\ s = <<>> => s \o t = t
<1>1. Len(s) \in Nat /\ Len(t) \in Nat /\ (s # <<>> => Len(s) > 0)
  BY LenProperties, EmptySeq
<1>2. /\ s \o t \in Seq(Nat)
      /\ Len(s \o t) = Len(s) + Len(t)
      /\ \A k \in 1..(Len(s) + Len(t)) :
           (s \o t)[k] = IF k <= Len(s) THEN s[k] ELSE t[k - Len(s)]
  BY ConcatProperties
<1>3. s # <<>> => Len(s \o t) # 0 /\ (s \o t)[1] = s[1]
  BY <1>1, <1>2
<1>4. s = <<>> => s \o t = t
  BY ConcatEmptySeq
<1> QED
  BY <1>2, <1>3, <1>4, EmptySeq

LEMMA LinkedHead ==
  ASSUME NEW o \in ObjectFile, NEW a \in Nat, NEW tail \in Nat
  PROVE  /\ Linked(o, a, tail) \in Seq(Nat)
         /\ DeadHead(Linked(o, a, tail)) <=> DeadObject(o)
<1> DEFINE z == Zeros(Gap(Len(o.text), a))
           m == o.text \o z
           c == IF o.rdata = <<>> THEN o.text ELSE m \o o.rdata
<1>1. o.text \in Seq(Nat) /\ o.rdata \in Seq(Nat) /\ Len(o.text) \in Nat
  BY LenProperties DEF ObjectFile
<1>2. z \in Seq(Nat) /\ (o.text = <<>> => z = <<>>)
  <2>1. Gap(Len(o.text), a) \in Nat /\ Gap(0, a) = 0
    BY <1>1, GapType
  <2>2. o.text = <<>> => Gap(Len(o.text), a) = 0
    BY <2>1
  <2> QED
    BY <2>1, <2>2, ZerosType, EmptySeq
<1>3. Zeros(tail) \in Seq(Nat) /\ DeadHead(Zeros(tail))
  <2>1. /\ Zeros(tail) \in Seq(Nat) /\ Len(Zeros(tail)) = tail
        /\ \A k \in 1..tail : Zeros(tail)[k] = 0
    BY ZerosType
  <2>2. tail = 0 => Zeros(tail) = <<>>
    BY <2>1, EmptySeq
  <2>3. tail # 0 => Zeros(tail)[1] = 0
    BY <2>1
  <2> QED
    BY <2>1, <2>2, <2>3 DEF DeadHead
<1>4. Linked(o, a, tail) = c \o Zeros(tail)
  BY DEF Linked
<1>5. /\ m \in Seq(Nat)
      /\ o.text # <<>> => m # <<>> /\ m[1] = o.text[1]
      /\ o.text = <<>> => m = <<>>
  BY <1>1, <1>2, HeadOfConcat
<1> HIDE DEF m
<1>6. /\ c \in Seq(Nat)
      /\ o.text # <<>> => c # <<>> /\ c[1] = o.text[1]
      /\ o.text = <<>> => c = o.rdata
  BY <1>1, <1>5, HeadOfConcat
<1> HIDE DEF c
<1>7. /\ c \o Zeros(tail) \in Seq(Nat)
      /\ c # <<>> => c \o Zeros(tail) # <<>> /\ (c \o Zeros(tail))[1] = c[1]
      /\ c = <<>> => c \o Zeros(tail) = Zeros(tail)
  BY <1>3, <1>6, HeadOfConcat
<1> QED
  BY <1>3, <1>4, <1>6, <1>7 DEF DeadHead, DeadObject

(***************************************************************************)
(* The inductive invariant.                                                *)
(***************************************************************************)
Shortest(d, v) == Fits(d, v) /\ v <= Len(d) /\ \A n \in 1..(v - 1) : ~Fits(d, n)

(* No measure of this stream gives anything but 0.                         *)
Hopeless == failed \/ DeadHead(bin)

(* A measure taken before any relink: 0 says that none will ever succeed.  *)
GoodMeasure(v) == IF v = 0 THEN Hopeless ELSE Shortest(bin, v)

ScanInv ==
  (pc = "scan" /\ ~failed) =>
    /\ pos <= Len(bin)
    /\ count + null = pos
    /\ IsCodeEnd(bin, pos, count)
    /\ pos = 0 \/ count > null
    /\ \A n \in 1..pos : 2 * n <= pos => ~Fits(bin, n)

FirstInv ==
  ~retried =>
    /\ pc # "align" /\ caller = "measured" /\ errorRet
    /\ pc # "open" => hook = bin
    /\ pc = "measured" => GoodMeasure(result)
    /\ pc = "test" => GoodMeasure(bytes)
    /\ pc = "done" => Shortest(hook, bytes) /\ written = SubSeq(hook, 1, bytes)
    /\ pc \in {"open", "scan"} => ~failed

RetryInv ==
  retried =>
    /\ Hopeless
    /\ pc \notin {"open", "done"}
    /\ pc = "scan" => count = 0 /\ (failed \/ pos = 0)
    /\ pc \in {"measured", "align"} => result = 0
    /\ pc = "test" => bytes = 0

BinInv == DeadHead(bin) <=> DeadObject(obj)

IInv == TypeOK /\ ScanInv /\ FirstInv /\ RetryInv /\ BinInv

LEMMA InitInv == Init => IInv
<1> SUFFICES ASSUME Init PROVE IInv
  OBVIOUS
<1>1. bin \in Seq(Nat) /\ BinInv
  <2>1. PICK tail \in Tails : bin = Linked(obj, FirstAlign, tail)
    BY DEF Init
  <2> QED
    BY <2>1, LinkedHead, HookAssumption DEF Init, BinInv
<1>2. TypeOK
  BY <1>1, EmptySeq DEF Init, TypeOK
<1> QED
  BY <1>1, <1>2 DEF Init, IInv, ScanInv, FirstInv, RetryInv

(* The arithmetic of one more byte, for the counters after it: c bytes of   *)
(* code, z null bytes since, p bytes in all.                               *)
LEMMA NoneFits ==
  ASSUME NEW d, NEW c \in Nat, NEW z \in Nat, NEW p \in Nat, c - z > 0,
         \A n \in 1..p : 2 * n <= p /\ Fits(d, n) => n = c /\ n = z
  PROVE  \A n \in 1..p : 2 * n <= p => ~Fits(d, n)
<1>1. c # z
  OBVIOUS
<1> QED
  BY <1>1

LEMMA NoneShorter ==
  ASSUME NEW d, NEW c \in Nat, NEW z \in Nat, NEW p \in Nat, 2 * c = p,
         \A n \in 1..p : 2 * n <= p /\ Fits(d, n) => n = c /\ n = z
  PROVE  \A n \in 1..(c - 1) : ~Fits(d, n)
<1> SUFFICES ASSUME NEW n \in 1..(c - 1), Fits(d, n) PROVE FALSE
  OBVIOUS
<1>1. n \in 1..p /\ 2 * n <= p /\ n # c
  OBVIOUS
<1> QED
  BY <1>1

LEMMA ReadByteInv == ASSUME IInv, ReadByte PROVE IInv'
<1> DEFINE ch == bin[pos + 1]
<1>1. /\ pc = "scan" /\ ~failed /\ pos < Len(bin) /\ pos' = pos + 1
      /\ count' = IF ch = 0 THEN count ELSE count + 1 + null
      /\ null' = IF ch = 0 THEN null + 1 ELSE 0
      /\ UNCHANGED <<bin, failed, errorRet, caller, hook, bytes, align, written, retried, obj>>
  BY DEF ReadByte, local
<1>2. /\ pos \in Nat /\ count \in Nat /\ null \in Nat /\ Len(bin) \in Nat
      /\ bin \in Seq(Nat) /\ ch \in Nat
  BY <1>1, LenProperties, ElementOfSeq DEF IInv, TypeOK
<1>3. /\ count + null = pos /\ IsCodeEnd(bin, pos, count)
      /\ pos = 0 \/ count > null
      /\ \A n \in 1..pos : 2 * n <= pos => ~Fits(bin, n)
  BY <1>1 DEF IInv, ScanInv
<1>4. count' + null' = pos' /\ pos' <= Len(bin)
  BY <1>1, <1>2, <1>3
<1>5. IsCodeEnd(bin, pos', count')
  <2>1. CASE ch = 0
    <3>1. \A k \in (count + 1)..(pos + 1) : k \in (count + 1)..pos \/ k = pos + 1
      BY <1>2
    <3> QED
      BY <1>1, <1>2, <1>3, <2>1, <3>1 DEF IsCodeEnd
  <2>2. CASE ch # 0
    BY <1>1, <1>2, <1>3, <2>2 DEF IsCodeEnd
  <2> QED
    BY <2>1, <2>2
<1>6. \A n \in 1..pos' : 2 * n <= pos' /\ Fits(bin, n) => n = count' /\ n = null'
  <2> SUFFICES ASSUME NEW n \in 1..pos', 2 * n <= pos', Fits(bin, n)
               PROVE  n = count' /\ n = null'
    OBVIOUS
  <2>1. 2 * n = pos'
    <3>1. ~(2 * n <= pos)
      <4> SUFFICES ASSUME 2 * n <= pos PROVE FALSE
        OBVIOUS
      <4>1. n \in 1..pos
        BY <1>2
      <4> QED
        BY <1>3, <4>1
    <3> QED
      BY <1>1, <1>2, <3>1
  <2>2. IsCodeEnd(bin, pos', n)
    BY <2>1 DEF Fits
  <2>3. n = count'
    BY <1>1, <1>2, <1>5, <2>2 DEF IsCodeEnd
  <2> QED
    BY <1>1, <1>2, <1>4, <2>1, <2>3
<1>7. count' \in Nat /\ null' \in Nat /\ pos' \in Nat
  BY <1>1, <1>2
<1>8. CASE count' - null' > 0
  <2>1. UNCHANGED <<pc, result>>
    BY <1>8 DEF ReadByte
  <2>2. ~retried
    <3> SUFFICES ASSUME retried PROVE FALSE
      OBVIOUS
    <3>1. count = 0 /\ pos = 0 /\ DeadHead(bin)
      BY <1>1 DEF IInv, RetryInv, Hopeless
    <3>2. ch = 0
      BY <1>1, <1>2, <3>1, EmptySeq DEF DeadHead
    <3> QED
      BY <1>1, <1>2, <1>8, <3>1, <3>2
  <2>3. TypeOK'
    BY <1>1, <1>7, <2>1 DEF IInv, TypeOK
  <2>4. \A n \in 1..pos' : 2 * n <= pos' => ~Fits(bin, n)
    BY <1>6, <1>7, <1>8, NoneFits
  <2>5. ScanInv'
    BY <1>1, <1>4, <1>5, <1>7, <1>8, <2>4 DEF ScanInv
  <2> QED
    BY <1>1, <2>1, <2>2, <2>3, <2>5 DEF IInv, FirstInv, RetryInv, BinInv, Hopeless
<1>9. CASE ~(count' - null' > 0)
  <2>1. result' = count' /\ pc' = caller
    BY <1>9 DEF ReadByte, Return
  <2>2. TypeOK'
    BY <1>1, <1>7, <2>1 DEF IInv, TypeOK
  <2>3. count' = 0 => DeadHead(bin)
    BY <1>1, <1>2, <1>5 DEF IsCodeEnd, DeadHead
  <2>4. count' # 0 => 2 * count' = pos'
    BY <1>1, <1>2, <1>3, <1>4, <1>9
  <2>5. count' # 0 => Shortest(bin, count')
    <3> SUFFICES ASSUME count' # 0 PROVE Shortest(bin, count')
      OBVIOUS
    <3>1. IsCodeEnd(bin, 2 * count', count') /\ 2 * count' <= Len(bin)
      BY <1>4, <1>5, <2>4
    <3>2. Fits(bin, count') /\ count' <= Len(bin)
      BY <1>2, <1>7, <3>1 DEF Fits
    <3>3. \A n \in 1..(count' - 1) : ~Fits(bin, n)
      BY <1>6, <1>7, <2>4, NoneShorter
    <3> QED
      BY <3>2, <3>3 DEF Shortest
  <2>6. FirstInv'
    <3> SUFFICES ASSUME ~retried PROVE FirstInv'
      BY <1>1 DEF FirstInv
    <3>1. pc' = "measured" /\ hook = bin
      BY <1>1, <2>1 DEF IInv, FirstInv
    <3>2. GoodMeasure(count')
      BY <2>3, <2>5 DEF GoodMeasure, Hopeless
    <3>3. GoodMeasure(result)'
      BY <1>1, <2>1, <3>2 DEF GoodMeasure, Hopeless
    <3> QED
      BY <1>1, <3>1, <3>3 DEF IInv, FirstInv
  <2>7. RetryInv'
    <3> SUFFICES ASSUME retried PROVE RetryInv'
      BY <1>1 DEF RetryInv
    <3>1. Hopeless /\ pos = 0 /\ count = 0 /\ DeadHead(bin)
      BY <1>1 DEF IInv, RetryInv, Hopeless
    <3>2. ch = 0
      BY <1>1, <1>2, <3>1, EmptySeq DEF DeadHead
    <3>3. result' = 0 /\ pc' \in {"measured", "align"}
      BY <1>1, <2>1, <3>1, <3>2 DEF IInv, TypeOK
    <3> QED
      BY <1>1, <3>1, <3>3 DEF RetryInv, Hopeless
  <2>8. pc' # "scan"
    BY <2>1 DEF IInv, TypeOK
  <2> QED
    BY <1>1, <2>2, <2>6, <2>7, <2>8 DEF IInv, ScanInv, BinInv
<1> QED
  BY <1>8, <1>9

LEMMA EndOfFileInv == ASSUME IInv, EndOfFile PROVE IInv'
<1>1. /\ pc = "scan" /\ failed' = TRUE
      /\ pc' = caller /\ result' = IF errorRet THEN 0 ELSE count
      /\ UNCHANGED <<bin, pos, count, null, errorRet, caller,
                     hook, bytes, align, written, retried, obj>>
  BY DEF EndOfFile, Return, scan, local
<1>2. TypeOK'
  BY <1>1 DEF IInv, TypeOK
<1>3. pc' \in {"measured", "align"} /\ Hopeless'
  BY <1>1 DEF IInv, TypeOK, Hopeless
<1>4. result' = 0
  BY <1>1 DEF IInv, FirstInv, RetryInv
<1>5. FirstInv'
  BY <1>1, <1>3, <1>4 DEF IInv, FirstInv, GoodMeasure
<1> QED
  BY <1>1, <1>2, <1>3, <1>4, <1>5 DEF IInv, ScanInv, RetryInv, BinInv

(* A call of get_bytes starts a scan that has read nothing.                *)
LEMMA CallInv ==
  ASSUME IInv, NEW from \in {"measured", "align"}, NEW er \in BOOLEAN,
         CallGetBytes(from, er), bin' \in Seq(Nat)
  PROVE  /\ ScanInv'
         /\ count' = 0 /\ null' = 0 /\ pc' = "scan" /\ (failed' \/ pos' = 0)
         /\ pos' \in Nat /\ UNCHANGED <<failed, result>>
         /\ errorRet' = er /\ caller' = from
<1>1. /\ count' = 0 /\ null' = 0 /\ pc' = "scan" /\ (failed' \/ pos' = 0)
      /\ pos' \in Nat /\ UNCHANGED <<failed, result>>
      /\ errorRet' = er /\ caller' = from
  BY DEF IInv, TypeOK, CallGetBytes
<1>2. Len(bin') \in Nat
  BY LenProperties
<1>3. ScanInv'
  BY <1>1, <1>2 DEF ScanInv, IsCodeEnd
<1> QED
  BY <1>1, <1>3

LEMMA OpenInv == ASSUME IInv, Open PROVE IInv'
<1>1. /\ pc = "open" /\ hook' = bin /\ CallGetBytes("measured", TRUE)
      /\ UNCHANGED <<bin, bytes, align, written, retried, obj>>
  BY DEF Open
<1>2. bin' \in Seq(Nat)
  BY <1>1 DEF IInv, TypeOK
<1>3. /\ ScanInv'
      /\ count' = 0 /\ null' = 0 /\ pc' = "scan" /\ (failed' \/ pos' = 0)
      /\ pos' \in Nat /\ UNCHANGED <<failed, result>>
      /\ errorRet' = TRUE /\ caller' = "measured"
  BY <1>1, <1>2, CallInv
<1>4. TypeOK'
  BY <1>1, <1>3 DEF IInv, TypeOK
<1>5. ~retried
  BY <1>1 DEF IInv, RetryInv
<1> QED
  BY <1>1, <1>3, <1>4, <1>5 DEF IInv, FirstInv, RetryInv, BinInv

LEMMA MeasuredInv == ASSUME IInv, Measured PROVE IInv'
<1>1. /\ pc = "measured" /\ pc' = "test" /\ bytes' = result
      /\ UNCHANGED <<bin, pos, failed, count, null, errorRet, caller, result,
                     hook, align, written, retried, obj>>
  BY DEF Measured, stream, scan
<1>2. TypeOK'
  BY <1>1 DEF IInv, TypeOK
<1>3. FirstInv'
  BY <1>1 DEF IInv, FirstInv, GoodMeasure, Hopeless
<1>4. RetryInv'
  BY <1>1 DEF IInv, RetryInv, Hopeless
<1> QED
  BY <1>1, <1>2, <1>3, <1>4 DEF IInv, ScanInv, BinInv

LEMMA MeasureAgainInv == ASSUME IInv, MeasureAgain PROVE IInv'
<1>1. /\ pc = "test" /\ bytes = 0 /\ CallGetBytes("align", FALSE) /\ retried' = TRUE
      /\ UNCHANGED <<bin, hook, bytes, align, written, obj>>
  BY DEF MeasureAgain
<1>2. bin' \in Seq(Nat)
  BY <1>1 DEF IInv, TypeOK
<1>3. /\ ScanInv'
      /\ count' = 0 /\ null' = 0 /\ pc' = "scan" /\ (failed' \/ pos' = 0)
      /\ pos' \in Nat /\ UNCHANGED <<failed, result>>
      /\ errorRet' = FALSE /\ caller' = "align"
  BY <1>1, <1>2, CallInv
<1>4. TypeOK'
  BY <1>1, <1>3 DEF IInv, TypeOK
<1>5. Hopeless
  BY <1>1 DEF IInv, FirstInv, RetryInv, GoodMeasure
<1>6. RetryInv'
  BY <1>1, <1>3, <1>5 DEF RetryInv, Hopeless
<1> QED
  BY <1>1, <1>3, <1>4, <1>6 DEF IInv, FirstInv, BinInv

LEMMA AlignInv == ASSUME IInv, NEW tail \in Tails, Align(tail) PROVE IInv'
<1>1. /\ pc = "align" /\ align' = result * 2 /\ CallGetBytes("measured", FALSE)
      /\ bin' = Linked(obj, align', tail) \/ bin' = bin
      /\ UNCHANGED <<hook, bytes, written, retried, obj>>
  BY DEF Align
<1>2. align' \in Nat /\ tail \in Nat /\ obj \in ObjectFile
  BY <1>1, HookAssumption DEF IInv, TypeOK
<1>3. bin' \in Seq(Nat) /\ BinInv'
  BY <1>1, <1>2, LinkedHead DEF IInv, TypeOK, BinInv
<1>4. /\ ScanInv'
      /\ count' = 0 /\ null' = 0 /\ pc' = "scan" /\ (failed' \/ pos' = 0)
      /\ pos' \in Nat /\ UNCHANGED <<failed, result>>
      /\ errorRet' = FALSE /\ caller' = "measured"
  BY <1>1, <1>3, CallInv
<1>5. TypeOK'
  BY <1>1, <1>2, <1>3, <1>4 DEF IInv, TypeOK
<1>6. retried /\ Hopeless
  BY <1>1 DEF IInv, FirstInv, RetryInv
<1>7. Hopeless'
  BY <1>1, <1>3, <1>4, <1>6 DEF IInv, BinInv, Hopeless
<1> QED
  BY <1>1, <1>3, <1>4, <1>5, <1>6, <1>7 DEF IInv, FirstInv, RetryInv

LEMMA LinkErrorInv == ASSUME IInv, LinkError PROVE IInv'
<1>1. /\ pc = "align" /\ pc' = "menu"
      /\ UNCHANGED <<bin, pos, failed, count, null, errorRet, caller, result,
                     hook, bytes, align, written, retried, obj>>
  BY DEF LinkError, stream, scan, local
<1>2. TypeOK'
  BY <1>1 DEF IInv, TypeOK
<1> QED
  BY <1>1, <1>2 DEF IInv, ScanInv, FirstInv, RetryInv, BinInv, Hopeless

LEMMA WriteInv == ASSUME IInv, Write PROVE IInv'
<1>1. /\ pc = "test" /\ bytes # 0 /\ written' = SubSeq(hook, 1, bytes) /\ pc' = "done"
      /\ UNCHANGED <<bin, pos, failed, count, null, errorRet, caller, result,
                     hook, bytes, align, retried, obj>>
  BY DEF Write, stream, scan
<1>2. ~retried
  BY <1>1 DEF IInv, RetryInv
<1>3. hook = bin /\ Shortest(hook, bytes)
  BY <1>1, <1>2 DEF IInv, FirstInv, GoodMeasure
<1>4. written' \in Seq(Nat)
  <2>1. bytes \in Nat /\ bytes <= Len(hook) /\ Len(hook) \in Nat /\ hook \in Seq(Nat)
    BY <1>3, LenProperties DEF IInv, TypeOK, Shortest
  <2>2. \A k \in 1..bytes : hook[k] \in Nat
    BY <2>1, ElementOfSeq
  <2> QED
    BY <1>1, <2>1, <2>2, SubSeqProperties
<1>5. TypeOK'
  BY <1>1, <1>4 DEF IInv, TypeOK
<1> QED
  BY <1>1, <1>2, <1>3, <1>5 DEF IInv, ScanInv, FirstInv, RetryInv, BinInv

LEMMA NextInv == ASSUME IInv, [Next]_vars PROVE IInv'
<1>1. CASE Scan
  BY <1>1, ReadByteInv, EndOfFileInv DEF Scan
<1>2. CASE Apply
  BY <1>2, OpenInv, MeasuredInv, MeasureAgainInv, AlignInv, WriteInv DEF Apply
<1>3. CASE LinkError
  BY <1>3, LinkErrorInv
<1>4. CASE UNCHANGED vars
  BY <1>4 DEF vars, stream, scan, local, IInv, TypeOK, ScanInv, FirstInv, RetryInv,
     BinInv, Hopeless, GoodMeasure
<1> QED
  BY <1>1, <1>2, <1>3, <1>4 DEF Next, Ended

LEMMA Invariance == Spec => []IInv
  BY InitInv, NextInv, PTL DEF Spec

(***************************************************************************)
(* Theorems.                                                               *)
(***************************************************************************)
(* No step of a measure, a relink or a write takes a variable out of its   *)
(* type: no length or counter becomes negative, for any object file.       *)
THEOREM TypeCorrect == Spec => []TypeOK
<1>1. IInv => TypeOK
  BY DEF IInv
<1> QED
  BY <1>1, Invariance, PTL

(* The counters of parse_binary_end mean what their names say at every     *)
(* byte of a file of any length and content.                               *)
THEOREM ScanIsCorrect == Spec => []CountersMeasure
<1>1. IInv => CountersMeasure
  BY DEF IInv, ScanInv, CountersMeasure
<1> QED
  BY <1>1, Invariance, PTL

(* apply_Hook writes the shortest prefix of the hook that as many null     *)
(* bytes follow, and never reads behind the end of its buffer.             *)
THEOREM WritesWhatItMeasured == Spec => []WrittenIsMeasured
<1>1. IInv => WrittenIsMeasured
  BY DEF IInv, FirstInv, RetryInv, WrittenIsMeasured, Shortest
<1> QED
  BY <1>1, Invariance, PTL

(* No relink, at any alignment, of any object file, rescues a hook whose   *)
(* first measure gave 0: the loop of apply_Hook cannot lead to the write.  *)
THEOREM RelinkNeverHelps == Spec => []RetryIsHopeless
<1>1. IInv => RetryIsHopeless
  BY DEF IInv, RetryInv, RetryIsHopeless
<1> QED
  BY <1>1, Invariance, PTL
=============================================================================
