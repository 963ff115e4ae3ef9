--------------------------- MODULE RpmParserProofs ---------------------------
(***************************************************************************)
(* The safety properties of RpmParser, for packages and streams of any     *)
(* size and every way in which a source may deliver the bytes. The walk    *)
(* over the entries of a header is taken as it is: what it computes is an  *)
(* induction over data.                                                    *)
(***************************************************************************)
EXTENDS RpmParser, FiniteSetTheorems, SequenceTheorems, TLAPS

(* A function on 1..n is a sequence of length n. *)
LEMMA SequenceOf ==
    ASSUME NEW S, NEW n \in Nat, NEW f \in [1..n -> S]
    PROVE  f \in Seq(S) /\ Len(f) = n
<1>1. f \in Seq(S)
  BY SeqDef
<1>2. Len(f) \in Nat /\ DOMAIN f = 1..Len(f) /\ DOMAIN f = 1..n
  BY <1>1, LenProperties
<1> QED
  BY <1>1, <1>2

InSig  == {"sigIntro", "sigIndex", "sigStore"}
InMain == {"mainIntro", "mainIndex", "mainStore"}
Before == {"start", "lead", "padding"} \cup InSig
Stages == Before \cup InMain \cup {"payload"}

(* The payload the parser asks for behind the main header. *)
PayloadSize(p) == ((Signed(p.size) - HeaderLen(p.main)) % (Word * Word)) % Word

(* Where a stage ends in the stream. *)
Target(p, s) ==
    IF s = "start" THEN 0
    ELSE IF s = "lead" THEN LeadLen
    ELSE IF s = "sigIntro" THEN LeadLen + IntroLen
    ELSE IF s = "sigIndex" THEN LeadLen + IntroLen + Len(p.sig.entries) * EntryLen
    ELSE IF s = "sigStore" THEN SigEnd(p)
    ELSE IF s = "padding" THEN MainStart(p)
    ELSE IF s = "mainIntro" THEN MainStart(p) + IntroLen
    ELSE IF s = "mainIndex" THEN MainStart(p) + IntroLen + Len(p.main.entries) * EntryLen
    ELSE IF s = "mainStore" THEN MainEnd(p)
    ELSE MainEnd(p) + IF p.validate THEN PayloadSize(p) ELSE 0

(* Acceptable, with the walk in place of what it is to find out. *)
Passes(p) ==
    /\ p.lead.magic /\ p.lead.known /\ p.sig.magic /\ p.main.magic
    /\ Walk(p.sig) = "ok" /\ Walk(p.main) = "ok"
    /\ p.sizeFmt = "int32"
    /\ p.length >= MainEnd(p)
    /\ p.validate => /\ p.length >= MainEnd(p) + p.payload
                     /\ p.payload < Word /\ p.size = (HeaderLen(p.main) + p.payload) % Word

-----------------------------------------------------------------------------
Shape ==
    /\ rpm \in Inputs /\ length = rpm.length
    /\ pos \in 0..length
    /\ job \in [kind: {"ok", "error", "fill", "ahead"}, left: Nat]
    /\ job.kind \in {"ok", "error"} <=> job.left = 0
    /\ stage \in Stages \cup {"end"}
    /\ active \subseteq Digests
    /\ fed = [d \in Digests |-> fed[d]]
    /\ capturing \in BOOLEAN
    /\ fault \in {"none", "short", "failed"}

(* A call that has not failed gets the parser to the end of its stage. *)
Aim == stage # "end" /\ job.kind # "error" => pos + job.left = Target(rpm, stage)

(* The capturing reader has seen every byte delivered. *)
Captured ==
    /\ captured = Positions(0, pos)
    /\ capturing <=> stage # "end"

(* The digest readers have seen what follows the start of the main header: SHA to  *)
(* its end, MD5 everything.                                                        *)
Hashed ==
    /\ stage \in Before => active = {} /\ \A d \in Digests : fed[d] = <<>>
    /\ stage \in InMain \cup {"payload"} => start = MainStart(rpm) /\ pos >= start
    /\ stage \in InMain => active = Digests /\ \A d \in Digests : fed[d] = Positions(start, pos - start)
    /\ stage = "payload" =>
          /\ active = IF rpm.validate THEN {"md5"} ELSE {}
          /\ fed["sha"] = Positions(start, HeaderLen(rpm.main))
          /\ rpm.validate => fed["md5"] = Positions(start, pos - start)

(* What a stage relies on has been checked. *)
Checked ==
    /\ stage \in InSig \cup {"padding", "payload"} \cup InMain => rpm.lead.magic
    /\ stage \in {"sigIndex", "sigStore", "padding", "payload"} \cup InMain => rpm.sig.magic
    /\ stage \in {"padding", "payload"} \cup InMain => Walk(rpm.sig) = "ok"
    /\ stage \in {"mainIndex", "mainStore", "payload"} => rpm.main.magic
    /\ stage = "payload" => Walk(rpm.main) = "ok" /\ rpm.sizeFmt = "int32"

(* Why a call fails: the stream is too short, or a fault that is not forgotten. *)
Faults ==
    /\ job.kind = "ahead" => stage = "payload" /\ rpm.validate
    /\ fault = "short" => rpm.validate /\ \/ stage = "payload" /\ job.kind = "error"
                                          \/ stage = "end" /\ result = "panic"
    /\ fault = "failed" => job.kind = "error"
    /\ fault = "none" /\ job.kind = "error" /\ stage # "end" =>
          pos = length /\ pos < Target(rpm, stage)

Ending ==
    /\ stage # "end" => result = "none"
    /\ stage = "end" => job.kind \in {"ok", "error"}
    /\ stage = "end" /\ result = "ok" => pos = Target(rpm, "payload")
    /\ stage = "end" /\ fault = "none" => (result = "ok" <=> Passes(rpm))

IInv == Shape /\ Aim /\ Captured /\ Hashed /\ Checked /\ Faults /\ Ending

-----------------------------------------------------------------------------
(* What a Read may return. *)
LEMMA ReadResult ==
    ASSUME NEW size \in Nat, length \in Nat, pos \in 0..length, NEW r \in Reads(size)
    PROVE  /\ r[1] \in 0..size /\ pos + r[1] <= length /\ r[2] \in BOOLEAN
           /\ r[2] => pos + r[1] = length
<1>1. r \in (0..Smaller(size, length - pos)) \X BOOLEAN
  BY DEF Reads
<1>2. IF r[1] = 0 THEN r[2] /\ pos = length ELSE r[2] => pos + r[1] = length
  BY DEF Reads
<1>3. Smaller(size, length - pos) <= size /\ Smaller(size, length - pos) <= length - pos
  BY DEF Smaller
<1> QED
  BY <1>1, <1>2, <1>3 DEF Smaller

(* One turn of FillBuffer or readAhead: k bytes are delivered, and the call goes on,  *)
(* returns, or fails, at the end of the stream or on a short read.                    *)
LEMMA Turn ==
    ASSUME Shape, FillBuffer \/ ReadAhead
    PROVE  \E k \in Nat :
              /\ Deliver(k) /\ k <= job.left /\ pos + k <= length
              /\ \/ job' = Returned /\ k = job.left
                 \/ job' = [kind |-> job.kind, left |-> job.left - k] /\ k < job.left
                 \/ job' = Failed /\ k < job.left
              /\ \/ fault' = fault /\ (job' = Failed => pos + k = length)
                 \/ fault' = "short" /\ job' = Failed /\ job.kind = "ahead"
<1>1. job.left \in Nat /\ job = [kind |-> job.kind, left |-> job.left] /\ length \in Nat /\ pos \in 0..length
  BY InputsAssumption DEF Shape
<1>2. CASE FillBuffer
  <2>1. PICK r \in Reads(job.left) :
           /\ Deliver(r[1])
           /\ job' = IF job.left - r[1] = 0 THEN Returned ELSE IF r[2] THEN Failed ELSE Fill(job.left - r[1])
    BY <1>2 DEF FillBuffer
  <2>2. /\ r[1] \in 0..job.left /\ pos + r[1] <= length /\ r[2] \in BOOLEAN
        /\ r[2] => pos + r[1] = length
    BY <1>1, ReadResult
  <2>3. job.kind = "fill" /\ fault' = fault
    BY <1>2 DEF FillBuffer
  <2>4. \/ job' = Returned /\ r[1] = job.left
        \/ job' = [kind |-> job.kind, left |-> job.left - r[1]] /\ r[1] < job.left
        \/ job' = Failed /\ r[1] < job.left /\ r[2]
    BY <1>1, <2>1, <2>2, <2>3 DEF Fill
  <2>5. Returned # Failed /\ job' = [kind |-> job.kind, left |-> job.left - r[1]] => job' # Failed
    BY <2>3 DEF Returned, Failed
  <2>6. job' = Failed => r[2]
    BY <2>3, <2>4 DEF Returned, Failed
  <2> QED
    BY <1>1, <2>1, <2>2, <2>3, <2>4, <2>6
<1>3. CASE ReadAhead
  <2> DEFINE size == Smaller(Chunk, job.left)
  <2>1. PICK r \in Reads(size) :
           /\ Deliver(r[1])
           /\ job' = IF r[1] < size THEN Failed
                     ELSE IF job.left - r[1] = 0 THEN Returned ELSE [job EXCEPT !.left = job.left - r[1]]
           /\ fault' = IF r[1] < size /\ pos + r[1] < length THEN "short" ELSE fault
    BY <1>3 DEF ReadAhead
  <2>2. size \in Nat /\ size <= job.left
    BY <1>1, ChunkAssumption DEF Smaller
  <2> HIDE DEF size
  <2>3. r[1] \in 0..size /\ pos + r[1] <= length
    BY <1>1, <2>2, ReadResult
  <2>4. job.kind = "ahead"
    BY <1>3 DEF ReadAhead
  <2>5. CASE r[1] < size
    <3>1. job' = Failed /\ r[1] < job.left /\ r[1] \in Nat /\ r[1] <= job.left
      BY <1>1, <2>1, <2>2, <2>3, <2>5
    <3>2. \/ fault' = fault /\ pos + r[1] = length
          \/ fault' = "short"
      BY <1>1, <2>1, <2>3, <2>5
    <3> QED
      BY <2>1, <2>3, <2>4, <3>1, <3>2
  <2>6. CASE ~(r[1] < size)
    <3>1. r[1] = size /\ fault' = fault
      BY <2>1, <2>2, <2>3, <2>6
    <3>2. \/ job' = Returned /\ r[1] = job.left
          \/ job' = [kind |-> job.kind, left |-> job.left - r[1]] /\ r[1] < job.left
      <4>1. [job EXCEPT !.left = job.left - r[1]] = [kind |-> job.kind, left |-> job.left - r[1]]
        BY <1>1
      <4> QED
        BY <1>1, <2>1, <2>2, <3>1, <4>1
    <3>3. job' # Failed
      BY <2>4, <3>2 DEF Returned, Failed
    <3> QED
      BY <2>1, <2>2, <2>3, <3>1, <3>2, <3>3
  <2> QED
    BY <2>5, <2>6
<1> QED
  BY <1>2, <1>3

-----------------------------------------------------------------------------
(* The bytes from one position on, put together from two pieces. *)
LEMMA PositionsJoin ==
    ASSUME NEW from \in Nat, NEW n \in Nat, NEW k \in Nat
    PROVE  Positions(from, n) \o Positions(from + n, k) = Positions(from, n + k)
<1> DEFINE a == Positions(from, n)
           b == Positions(from + n, k)
           r == a \o b
<1>1. a \in Seq(Nat) /\ Len(a) = n /\ \A i \in 1..n : a[i] = from + i
  <2>1. a \in [1..n -> Nat] /\ \A i \in 1..n : a[i] = from + i
    BY DEF Positions
  <2> HIDE DEF a
  <2> QED
    BY <2>1, SequenceOf
<1>2. b \in Seq(Nat) /\ Len(b) = k /\ \A i \in 1..k : b[i] = from + n + i
  <2>1. b \in [1..k -> Nat] /\ \A i \in 1..k : b[i] = from + n + i
    BY DEF Positions
  <2> HIDE DEF b
  <2> QED
    BY <2>1, SequenceOf
<1> HIDE DEF a, b
<1>3. /\ r \in Seq(Nat) /\ Len(r) = n + k
      /\ \A i \in 1..(n + k) : r[i] = IF i <= n THEN a[i] ELSE b[i - n]
  <2>1. /\ a \o b \in Seq(Nat) /\ Len(a \o b) = Len(a) + Len(b)
        /\ \A i \in 1..(Len(a) + Len(b)) :
              (a \o b)[i] = IF i <= Len(a) THEN a[i] ELSE b[i - Len(a)]
    BY <1>1, <1>2, ConcatProperties
  <2>2. Len(a) = n /\ Len(b) = k
    BY <1>1, <1>2
  <2> QED
    BY <2>1, <2>2
<1>4. r \in [1..(n + k) -> Nat]
  <2> HIDE DEF r
  <2> QED
    BY <1>3, LenProperties
<1>5. \A i \in 1..(n + k) : r[i] = from + i
  <2> SUFFICES ASSUME NEW i \in 1..(n + k) PROVE r[i] = from + i
    OBVIOUS
  <2> HIDE DEF r
  <2>1. CASE i <= n
    BY <1>1, <1>3, <2>1
  <2>2. CASE i > n
    <3>1. i - n \in 1..k /\ r[i] = b[i - n]
      BY <1>3, <2>2
    <3> QED
      BY <1>2, <3>1
  <2> QED
    BY <2>1, <2>2
<1>6. r = Positions(from, n + k)
  <2> HIDE DEF r
  <2> QED
    BY <1>4, <1>5 DEF Positions
<1> QED
  BY <1>6 DEF a, b

LEMMA PositionsLen ==
    ASSUME NEW from \in Nat, NEW n \in Nat, NEW m \in Nat, Positions(from, n) = Positions(from, m)
    PROVE  n = m
<1>1. DOMAIN Positions(from, n) = 1..n /\ DOMAIN Positions(from, m) = 1..m
  BY DEF Positions
<1>2. 1..n = 1..m
  BY <1>1
<1> QED
  BY <1>2

-----------------------------------------------------------------------------
(* Division with remainder, by any number. *)
LEMMA ModForm ==
    ASSUME NEW x \in Int, NEW w \in Nat \ {0}
    PROVE  x % w \in 0..(w - 1) /\ x = w * (x \div w) + (x % w) /\ x \div w \in Int
OBVIOUS

LEMMA ModUnique ==
    ASSUME NEW x \in Int, NEW w \in Nat \ {0}, NEW q \in Int, NEW r \in 0..(w - 1), x = w * q + r
    PROVE  x % w = r
<1> DEFINE p == x \div w
           s == x % w
<1>1. s \in 0..(w - 1) /\ x = w * p + s /\ p \in Int
  BY ModForm
<1> HIDE DEF p, s
<1>2. p = q => s = r
  BY <1>1
<1>3. ASSUME p > q PROVE FALSE
  <2>1. p - q \in Nat /\ p - q >= 1
    BY <1>1, <1>3
  <2>2. w * (p - q) >= w
    BY <2>1
  <2>3. w * (p - q) = w * p - w * q
    BY <1>1
  <2> QED
    BY <1>1, <2>2, <2>3
<1>4. ASSUME q > p PROVE FALSE
  <2>1. q - p \in Nat /\ q - p >= 1
    BY <1>1, <1>4
  <2>2. w * (q - p) >= w
    BY <2>1
  <2>3. w * (q - p) = w * q - w * p
    BY <1>1
  <2> QED
    BY <1>1, <2>2, <2>3
<1>5. s = r
  BY <1>1, <1>2, <1>3, <1>4
<1> QED
  BY <1>5 DEF s

(* Truncating twice is truncating once. *)
LEMMA ModMod ==
    ASSUME NEW x \in Int, NEW w \in Nat \ {0}
    PROVE  (x % (w * w)) % w = x % w
<1> DEFINE v == w * w
           y == x % v
           q == x \div v
<1>1. v \in Nat \ {0}
  OBVIOUS
<1>2. y \in Nat /\ q \in Int /\ x = (w * w) * q + y
  <2> HIDE DEF v
  <2>1. y \in 0..(v - 1) /\ q \in Int /\ x = v * q + y
    BY <1>1, ModForm
  <2> QED
    BY <2>1 DEF v
<1> HIDE DEF y, q
<1> DEFINE z == y % w
           t == y \div w
<1>3. z \in 0..(w - 1) /\ t \in Int /\ y = w * t + z
  BY <1>2, ModForm
<1> HIDE DEF z, t
<1>4. (w * w) * q = w * (w * q) /\ w * q \in Int
  BY <1>2
<1>5. w * (w * q + t) = w * (w * q) + w * t
  BY <1>3, <1>4
<1>6. x = w * (w * q + t) + z /\ w * q + t \in Int
  BY <1>2, <1>3, <1>4, <1>5
<1>7. x % w = z
  BY <1>3, <1>6, ModUnique
<1> QED
  BY <1>7 DEF y, z

(* The 32-bit arithmetic finds the size of the payload exactly if the size that is *)
(* recorded is right, although it goes through a signed number.                    *)
LEMMA PayloadSizeRight ==
    ASSUME NEW p \in Inputs, HeaderLen(p.main) \in Nat
    PROVE  /\ PayloadSize(p) \in 0..(Word - 1)
           /\ PayloadSize(p) = p.payload
                 <=> p.payload < Word /\ p.size = (HeaderLen(p.main) + p.payload) % Word
<1> DEFINE h == HeaderLen(p.main)
           n == p.payload
           sz == p.size
           x == Signed(sz) - h
<1>1. Word \in Nat \ {0} /\ sz \in 0..(Word - 1) /\ n \in Nat /\ h \in Nat
  BY ParserAssumption, InputsAssumption
<1>2. PICK e \in {0, 1} : Signed(sz) = sz - Word * e
  <2>1. Word * 0 = 0 /\ Word * 1 = Word
    BY <1>1
  <2> QED
    BY <1>1, <2>1 DEF Signed
<1> HIDE DEF h, n, sz
<1>3. x \in Int
  <2>1. Word * e \in Int
    BY <1>1
  <2> QED
    BY <1>1, <1>2, <2>1
<1>4. PayloadSize(p) = x % Word
  <2>1. PayloadSize(p) = (x % (Word * Word)) % Word
    BY DEF PayloadSize, h, sz
  <2> HIDE DEF x
  <2> QED
    BY <1>1, <1>3, <2>1, ModMod
<1>5. x % Word \in 0..(Word - 1)
  <2> HIDE DEF x
  <2> QED
    BY <1>1, <1>3, ModForm
<1>6. ASSUME x % Word = n PROVE n < Word /\ sz = (h + n) % Word
  <2> DEFINE q == x \div Word
  <2>1. x = Word * q + n /\ q \in Int
    <3> HIDE DEF x
    <3> QED
      BY <1>1, <1>3, <1>6, ModForm
  <2> HIDE DEF q
  <2>2. h + n = Word * (0 - q - e) + sz
    <3>1. Word * (0 - q - e) = 0 - Word * q - Word * e
      BY <1>1, <2>1
    <3> DEFINE u == Word * q
               v == Word * e
    <3>2. u \in Int /\ v \in Int
      BY <1>1, <2>1
    <3>3. sz - v - h = u + n
      BY <1>2, <2>1
    <3> HIDE DEF u, v, x
    <3>4. h + n = 0 - u - v + sz
      BY <1>1, <3>2, <3>3
    <3> QED
      BY <3>1, <3>4 DEF u, v
  <2>3. 0 - q - e \in Int /\ h + n \in Int
    BY <1>1, <2>1
  <2>4. (h + n) % Word = sz
    BY <1>1, <2>2, <2>3, ModUnique
  <2> QED
    BY <1>1, <1>5, <1>6, <2>4
<1>7. ASSUME n < Word, sz = (h + n) % Word PROVE x % Word = n
  <2> DEFINE q == (h + n) \div Word
  <2>1. h + n = Word * q + sz /\ q \in Int
    BY <1>1, <1>7, ModForm
  <2> HIDE DEF q
  <2>2. x = Word * (0 - q - e) + n
    <3>1. Word * (0 - q - e) = 0 - Word * q - Word * e
      BY <1>1, <2>1
    <3> DEFINE u == Word * q
               v == Word * e
    <3>2. u \in Int /\ v \in Int
      BY <1>1, <2>1
    <3>3. h + n = u + sz /\ x = sz - v - h
      BY <1>2, <2>1
    <3> HIDE DEF u, v, x
    <3>4. x = 0 - u - v + n
      BY <1>1, <3>2, <3>3
    <3> QED
      BY <3>1, <3>4 DEF u, v
  <2>3. 0 - q - e \in Int /\ n \in 0..(Word - 1)
    BY <1>1, <1>7, <2>1
  <2> HIDE DEF x
  <2> QED
    BY <1>1, <1>3, <2>2, <2>3, ModUnique
<1> QED
  BY <1>4, <1>5, <1>6, <1>7 DEF h, n, sz

-----------------------------------------------------------------------------
(* The layout of a package, stage by stage. *)
LEMMA Layout ==
    ASSUME NEW p \in Inputs
    PROVE  /\ \A s \in Stages : Target(p, s) \in Nat
           /\ \A s \in Before \cup InMain : Target(p, s) <= MainEnd(p)
           /\ HeaderLen(p.main) \in Nat /\ MainStart(p) \in Nat
           /\ MainEnd(p) = MainStart(p) + HeaderLen(p.main) /\ MainEnd(p) \in Nat
           /\ Len(p.sig.entries) * EntryLen \in Nat /\ Len(p.main.entries) * EntryLen \in Nat
           /\ p.sig.store \in Nat /\ p.main.store \in Nat
           /\ (-SigEnd(p)) % Alignment \in 0..(Alignment - 1)
           /\ LeadLen \in Nat \ {0} /\ IntroLen \in Nat \ {0} /\ Alignment \in Nat \ {0}
<1>1. /\ p.sig.store \in Nat /\ p.main.store \in Nat
      /\ Len(p.sig.entries) \in Nat /\ Len(p.main.entries) \in Nat
  <2>1. p.sig \in Headers /\ p.main \in Headers
    BY InputsAssumption
  <2>2. ASSUME NEW h \in Headers PROVE h.store \in Nat /\ Len(h.entries) \in Nat
    BY LenProperties DEF Headers
  <2> QED
    BY <2>1, <2>2
<1>2. /\ LeadLen \in Nat \ {0} /\ IntroLen \in Nat \ {0} /\ Alignment \in Nat \ {0}
      /\ EntryLen \in Nat \ {0}
  BY ParserAssumption
<1> DEFINE a == Len(p.sig.entries) * EntryLen
           b == Len(p.main.entries) * EntryLen
           g == (-SigEnd(p)) % Alignment
           sa == p.sig.store
           sb == p.main.store
           z == IF p.validate THEN PayloadSize(p) ELSE 0
<1>3. a \in Nat /\ b \in Nat
  BY <1>1, <1>2
<1> HIDE DEF a, b, sa, sb
<1>0. sa \in Nat /\ sb \in Nat
  BY <1>1 DEF sa, sb
<1>4. /\ HeaderLen(p.sig) = IntroLen + a + sa /\ HeaderLen(p.sig) \in Nat
      /\ HeaderLen(p.main) = IntroLen + b + sb /\ HeaderLen(p.main) \in Nat
  <2>1. /\ HeaderLen(p.sig) = IntroLen + a + sa
        /\ HeaderLen(p.main) = IntroLen + b + sb
    BY DEF HeaderLen, a, b, sa, sb
  <2> QED
    BY <1>0, <1>2, <1>3, <2>1
<1>5. SigEnd(p) = LeadLen + HeaderLen(p.sig) /\ SigEnd(p) \in Nat
  BY <1>2, <1>4 DEF SigEnd
<1>6. g \in 0..(Alignment - 1)
  BY <1>2, <1>5
<1> HIDE DEF g
<1>7. MainStart(p) = SigEnd(p) + g /\ MainStart(p) \in Nat
  BY <1>2, <1>5, <1>6 DEF MainStart, g
<1>8. MainEnd(p) = MainStart(p) + HeaderLen(p.main) /\ MainEnd(p) \in Nat
  BY <1>4, <1>7 DEF MainEnd
<1>9. z \in Nat
  BY <1>4, PayloadSizeRight
<1> HIDE DEF z
<1>10. /\ \A s \in Stages : Target(p, s) \in Nat
       /\ \A s \in Before \cup InMain : Target(p, s) <= MainEnd(p)
  <2>1. \A s : Target(p, s) \in {0, LeadLen, LeadLen + IntroLen, LeadLen + IntroLen + a, SigEnd(p), MainStart(p),
                                 MainStart(p) + IntroLen, MainStart(p) + IntroLen + b, MainEnd(p), MainEnd(p) + z}
    BY DEF Target, a, b, z
  <2>2. \A s \in Before \cup InMain :
           Target(p, s) \in {0, LeadLen, LeadLen + IntroLen, LeadLen + IntroLen + a, SigEnd(p), MainStart(p),
                             MainStart(p) + IntroLen, MainStart(p) + IntroLen + b, MainEnd(p)}
    BY DEF Target, a, b, Before, InMain, InSig
  <2>3. /\ {0, LeadLen, LeadLen + IntroLen, LeadLen + IntroLen + a, SigEnd(p), MainStart(p)} \subseteq 0..MainEnd(p)
        /\ {MainStart(p) + IntroLen, MainStart(p) + IntroLen + b, MainEnd(p)} \subseteq 0..MainEnd(p)
    <3>1. SigEnd(p) = LeadLen + IntroLen + a + sa
      BY <1>0, <1>2, <1>3, <1>4, <1>5
    <3>2. MainEnd(p) = MainStart(p) + IntroLen + b + sb
      BY <1>0, <1>2, <1>3, <1>4, <1>7, <1>8
    <3>3. SigEnd(p) <= MainStart(p) /\ MainStart(p) <= MainEnd(p)
      BY <1>0, <1>2, <1>3, <1>5, <1>6, <1>7, <3>2
    <3> QED
      BY <1>0, <1>2, <1>3, <1>5, <1>7, <1>8, <3>1, <3>2, <3>3
  <2>4. MainEnd(p) + z \in Nat
    BY <1>8, <1>9
  <2>5. ASSUME NEW s \in Stages PROVE Target(p, s) \in Nat
    BY <1>8, <2>1, <2>3, <2>4
  <2>6. ASSUME NEW s \in Before \cup InMain PROVE Target(p, s) <= MainEnd(p)
    BY <1>8, <2>2, <2>3
  <2> QED
    BY <2>5, <2>6
<1> QED
  BY <1>1, <1>2, <1>3, <1>4, <1>6, <1>7, <1>8, <1>10 DEF a, b, g, sa, sb

(* How far each stage is from the one before it. *)
LEMMA Distances ==
    ASSUME NEW p \in Inputs
    PROVE  /\ Target(p, "lead") = Target(p, "start") + LeadLen
           /\ Target(p, "sigIntro") = Target(p, "lead") + IntroLen
           /\ Target(p, "sigIndex") = Target(p, "sigIntro") + Len(p.sig.entries) * EntryLen
           /\ Target(p, "sigStore") = Target(p, "sigIndex") + p.sig.store
           /\ Target(p, "padding") = Target(p, "sigStore") + ((-Target(p, "sigStore")) % Alignment)
           /\ Target(p, "mainIntro") = Target(p, "padding") + IntroLen
           /\ Target(p, "mainIndex") = Target(p, "mainIntro") + Len(p.main.entries) * EntryLen
           /\ Target(p, "mainStore") = Target(p, "mainIndex") + p.main.store
           /\ Target(p, "payload") = Target(p, "mainStore") + IF p.validate THEN PayloadSize(p) ELSE 0
           /\ Target(p, "padding") = MainStart(p) /\ Target(p, "mainStore") = MainEnd(p)
           /\ Target(p, "sigStore") = SigEnd(p)
<1> DEFINE a == Len(p.sig.entries) * EntryLen
           b == Len(p.main.entries) * EntryLen
<1>1. /\ a \in Nat /\ b \in Nat /\ p.sig.store \in Nat /\ p.main.store \in Nat
      /\ LeadLen \in Nat /\ IntroLen \in Nat /\ MainStart(p) \in Nat
  BY Layout
<1>2. /\ Target(p, "start") = 0 /\ Target(p, "lead") = LeadLen
      /\ Target(p, "sigIntro") = LeadLen + IntroLen
      /\ Target(p, "sigIndex") = LeadLen + IntroLen + a
      /\ Target(p, "sigStore") = SigEnd(p)
      /\ Target(p, "padding") = MainStart(p)
      /\ Target(p, "mainIntro") = MainStart(p) + IntroLen
      /\ Target(p, "mainIndex") = MainStart(p) + IntroLen + b
      /\ Target(p, "mainStore") = MainEnd(p)
      /\ Target(p, "payload") = MainEnd(p) + IF p.validate THEN PayloadSize(p) ELSE 0
  BY DEF Target
<1>3. SigEnd(p) = LeadLen + (IntroLen + a + p.sig.store)
  BY DEF SigEnd, HeaderLen
<1>4. MainEnd(p) = MainStart(p) + (IntroLen + b + p.main.store)
  BY DEF MainEnd, HeaderLen
<1>5. MainStart(p) = SigEnd(p) + ((-SigEnd(p)) % Alignment)
  BY DEF MainStart
<1> HIDE DEF a, b
<1>6. /\ Target(p, "lead") = Target(p, "start") + LeadLen
      /\ Target(p, "sigIntro") = Target(p, "lead") + IntroLen
      /\ Target(p, "sigIndex") = Target(p, "sigIntro") + a
      /\ Target(p, "sigStore") = Target(p, "sigIndex") + p.sig.store
      /\ Target(p, "mainIntro") = Target(p, "padding") + IntroLen
      /\ Target(p, "mainIndex") = Target(p, "mainIntro") + b
      /\ Target(p, "mainStore") = Target(p, "mainIndex") + p.main.store
  BY <1>1, <1>2, <1>3, <1>4
<1>7. Target(p, "padding") = Target(p, "sigStore") + ((-Target(p, "sigStore")) % Alignment)
  BY <1>2, <1>5
<1> QED
  BY <1>2, <1>6, <1>7 DEF a, b

-----------------------------------------------------------------------------
(* One turn of a call. *)
LEMMA TurnStep ==
    ASSUME IInv, FillBuffer \/ ReadAhead, UNCHANGED <<rpm, stage, start, result>>
    PROVE  IInv'
<1>1. PICK k \in Nat :
         /\ Deliver(k) /\ k <= job.left /\ pos + k <= length
         /\ \/ job' = Returned /\ k = job.left
            \/ job' = [kind |-> job.kind, left |-> job.left - k] /\ k < job.left
            \/ job' = Failed /\ k < job.left
         /\ \/ fault' = fault /\ (job' = Failed => pos + k = length)
            \/ fault' = "short" /\ job' = Failed /\ job.kind = "ahead"
  BY Turn DEF IInv
<1>2. /\ pos' = pos + k /\ UNCHANGED <<length, active, capturing>>
      /\ fed' = [d \in Digests |-> IF d \in active THEN fed[d] \o Positions(pos, k) ELSE fed[d]]
      /\ captured' = IF capturing THEN captured \o Positions(pos, k) ELSE captured
  BY <1>1 DEF Deliver
<1>3. /\ job.kind \in {"fill", "ahead"} /\ job.left \in Nat /\ job.left > 0
      /\ length \in Nat /\ pos \in Nat /\ rpm \in Inputs /\ stage # "end" /\ stage \in Stages
  BY InputsAssumption DEF IInv, Shape, Ending, FillBuffer, ReadAhead
<1>4. \/ job'.kind = "ok" /\ job'.left = 0 /\ k = job.left
      \/ job'.kind = job.kind /\ job'.left = job.left - k /\ k < job.left
      \/ job'.kind = "error" /\ job'.left = 0 /\ k < job.left
  BY <1>1 DEF Returned, Failed
<1>5. job' \in [kind: {"ok", "error", "fill", "ahead"}, left: Nat]
  BY <1>1, <1>3 DEF Returned, Failed
<1>6. Shape'
  <2>1. pos' \in 0..length'
    BY <1>1, <1>2, <1>3
  <2>2. job'.kind \in {"ok", "error"} <=> job'.left = 0
    BY <1>3, <1>4
  <2>3. fed' = [d \in Digests |-> fed'[d]]
    BY <1>2
  <2>4. fault' \in {"none", "short", "failed"}
    BY <1>1 DEF IInv, Shape
  <2> QED
    BY <1>2, <1>5, <2>1, <2>2, <2>3, <2>4 DEF IInv, Shape
<1>7. Aim'
  <2>1. pos + job.left = Target(rpm, stage)
    BY <1>3 DEF IInv, Aim
  <2>2. job'.kind # "error" => pos' + job'.left = pos + job.left
    BY <1>2, <1>3, <1>4
  <2> QED
    BY <2>1, <2>2 DEF Aim
<1>8. Captured'
  <2>1. capturing /\ captured = Positions(0, pos)
    BY <1>3 DEF IInv, Captured
  <2>2. captured' = Positions(0, pos) \o Positions(0 + pos, k)
    BY <1>2, <1>3, <2>1
  <2>3. captured' = Positions(0, pos + k)
    BY <1>3, <2>2, PositionsJoin
  <2> QED
    BY <1>2, <1>3, <2>1, <2>3 DEF Captured
<1>9. Hashed'
  <2>1. ASSUME stage \in InMain \cup {"payload"}, NEW d \in active, fed[d] = Positions(start, pos - start)
        PROVE  fed'[d] = Positions(start, pos' - start)
    <3>1. start \in Nat /\ pos - start \in Nat /\ d \in Digests
      BY <1>3, <2>1, Layout DEF IInv, Hashed, Shape
    <3>2. pos = start + (pos - start) /\ pos' - start = (pos - start) + k
      BY <1>2, <1>3, <3>1
    <3>3. fed'[d] = Positions(start, pos - start) \o Positions(start + (pos - start), k)
      BY <1>2, <2>1, <3>1, <3>2
    <3> DEFINE m == pos - start
    <3>4. m \in Nat /\ fed'[d] = Positions(start, m) \o Positions(start + m, k) /\ pos' - start = m + k
      BY <3>1, <3>2, <3>3
    <3> HIDE DEF m
    <3>5. fed'[d] = Positions(start, m + k)
      BY <3>1, <3>4, PositionsJoin
    <3> QED
      BY <3>4, <3>5
  <2>2. \A d \in Digests \ active : fed'[d] = fed[d]
    BY <1>2
  <2>3. CASE stage \in Before
    BY <1>2, <2>2, <2>3 DEF IInv, Hashed, Before, InSig, InMain
  <2>4. CASE stage \in InMain
    <3>1. start = MainStart(rpm) /\ pos >= start /\ active = Digests
      BY <2>4 DEF IInv, Hashed
    <3>2. \A d \in Digests : fed'[d] = Positions(start, pos' - start)
      BY <2>1, <2>4, <3>1 DEF IInv, Hashed
    <3>3. pos' >= start
      BY <1>2, <1>3, <3>1, Layout
    <3> QED
      BY <1>2, <2>4, <3>1, <3>2, <3>3 DEF Hashed, Before, InSig, InMain
  <2>5. CASE stage = "payload"
    <3>1. /\ start = MainStart(rpm) /\ pos >= start /\ active = IF rpm.validate THEN {"md5"} ELSE {}
          /\ fed["sha"] = Positions(start, HeaderLen(rpm.main))
      BY <2>5 DEF IInv, Hashed
    <3>2. fed'["sha"] = fed["sha"]
      BY <2>2, <3>1 DEF Digests
    <3>3. rpm.validate => fed'["md5"] = Positions(start, pos' - start)
      BY <2>1, <2>5, <3>1 DEF IInv, Hashed
    <3>4. pos' >= start
      BY <1>2, <1>3, <3>1, Layout
    <3> QED
      BY <1>2, <2>5, <3>1, <3>2, <3>3, <3>4 DEF Hashed, Before, InSig, InMain
  <2> QED
    BY <1>3, <2>3, <2>4, <2>5 DEF Stages
<1>10. Checked'
  BY DEF IInv, Checked
<1>11. Faults'
  <2>1. fault = "none"
    BY <1>3 DEF IInv, Faults, Shape
  <2>2. job.kind = "ahead" => stage = "payload" /\ rpm.validate
    BY DEF IInv, Faults
  <2>3. job'.kind = "error" <=> job' = Failed
    BY <1>1, <1>3 DEF Returned, Failed
  <2>4. job' = Failed /\ fault' = "none" => pos' = length /\ pos' < Target(rpm, stage)
    <3>1. pos + job.left = Target(rpm, stage)
      BY <1>3 DEF IInv, Aim
    <3>2. job' = Failed => k < job.left
      BY <1>3, <1>4, <2>3
    <3> QED
      BY <1>1, <1>2, <1>3, <3>1, <3>2
  <2> QED
    BY <1>1, <1>2, <1>3, <1>4, <2>1, <2>2, <2>3, <2>4 DEF Faults
<1>12. Ending'
  BY <1>3 DEF IInv, Ending
<1> QED
  BY <1>6, <1>7, <1>8, <1>9, <1>10, <1>11, <1>12 DEF IInv

(* The source returns an error. *)
LEMMA ReadFailsStep ==
    ASSUME IInv, ReadFails, UNCHANGED <<rpm, stage, start, result>>
    PROVE  IInv'
<1>1. /\ job.kind \in {"fill", "ahead"} /\ job' = Failed /\ fault' = "failed"
      /\ UNCHANGED <<length, pos, active, fed, capturing, captured>>
  BY DEF ReadFails
<1>2. stage # "end" /\ job'.kind = "error" /\ job'.left = 0 /\ job' \in [kind: {"error"}, left: Nat]
  BY <1>1 DEF IInv, Ending, Failed
<1>3. Shape'
  BY <1>1, <1>2 DEF IInv, Shape
<1>4. Aim' /\ Captured' /\ Checked'
  BY <1>1, <1>2 DEF IInv, Aim, Captured, Checked
<1>5. Hashed'
  BY <1>1 DEF IInv, Hashed
<1>6. Faults' /\ Ending'
  BY <1>1, <1>2 DEF IInv, Faults, Ending
<1> QED
  BY <1>3, <1>4, <1>5, <1>6 DEF IInv

(* Where the parser is when a call has returned. *)
LEMMA AtStage ==
    ASSUME IInv, NEW s \in Stages, At(s)
    PROVE  /\ stage = s /\ job.kind = "ok" /\ job.left = 0 /\ fault = "none" /\ rpm \in Inputs
           /\ pos = Target(rpm, s) /\ pos \in Nat /\ pos <= length /\ length = rpm.length
<1>1. stage = s /\ job.kind = "ok" /\ stage # "end"
  BY DEF At, Stages, Before, InSig, InMain
<1>2. /\ job.left = 0 /\ rpm \in Inputs /\ pos \in 0..length /\ length = rpm.length /\ length \in Nat
      /\ fault \in {"none", "short", "failed"}
  BY <1>1, InputsAssumption DEF IInv, Shape
<1>3. fault = "none"
  BY <1>1, <1>2 DEF IInv, Faults
<1>4. pos = Target(rpm, s)
  BY <1>1, <1>2 DEF IInv, Aim
<1> QED
  BY <1>1, <1>2, <1>3, <1>4

(* The next call, apart from the digests and the checks before it. *)
LEMMA CallStep ==
    ASSUME IInv, NEW s \in Stages, NEW t \in Stages, NEW n \in Nat, NEW call, NEW digests,
           At(s), Read(t, call, digests), call \in {Fill(n), Ahead(n)},
           Target(rpm, t) = Target(rpm, s) + n,
           call.kind = "ahead" => t = "payload" /\ rpm.validate,
           digests \subseteq Digests
    PROVE  Shape' /\ Aim' /\ Captured' /\ Faults' /\ Ending'
<1>1. /\ stage = s /\ job.kind = "ok" /\ fault = "none" /\ rpm \in Inputs
      /\ pos = Target(rpm, s) /\ pos \in Nat
  BY AtStage
<1>2. /\ stage' = t /\ job' = call /\ active' = digests
      /\ UNCHANGED <<length, pos, fed, capturing, captured, fault, rpm, result>>
  BY DEF Read
<1>3. /\ call \in [kind: {"ok", "fill", "ahead"}, left: Nat] /\ call.left = n
      /\ call.kind = "ok" <=> n = 0
  BY ChunkAssumption DEF Fill, Ahead, Returned
<1>4. t # "end" /\ s # "end"
  BY DEF Stages, Before, InSig, InMain
<1>5. Shape'
  BY <1>2, <1>3 DEF IInv, Shape
<1>6. Aim'
  BY <1>1, <1>2, <1>3 DEF Aim
<1>7. Captured'
  BY <1>1, <1>2, <1>4 DEF IInv, Captured
<1>8. Faults'
  BY <1>1, <1>2, <1>3, <1>4 DEF Faults
<1>9. Ending'
  BY <1>1, <1>2, <1>4 DEF IInv, Ending
<1> QED
  BY <1>5, <1>6, <1>7, <1>8, <1>9

(* Every action that calls FillBuffer or readAhead. *)
LEMMA CallsKeep ==
    ASSUME IInv, ParseLead \/ ReadIntro \/ ReadIndex \/ ReadStore \/ SkipPadding \/ ReadPayload
    PROVE  IInv'
<1> USE DEF Stages, Before, InSig, InMain
<1>0. /\ rpm \in Inputs /\ Digests \subseteq Digests /\ {} \subseteq Digests /\ {"md5"} \subseteq Digests
      /\ \A n : Fill(n).kind # "ahead"
  BY DEF IInv, Shape, Digests, Fill, Returned
<1>1. CASE ParseLead
  <2>1. At("start") /\ Read("lead", Fill(LeadLen), {}) /\ UNCHANGED start
    BY <1>1 DEF ParseLead
  <2>2. LeadLen \in Nat /\ Target(rpm, "lead") = Target(rpm, "start") + LeadLen
    BY <1>0, Layout, Distances
  <2>3. Shape' /\ Aim' /\ Captured' /\ Faults' /\ Ending'
    BY <1>0, <2>1, <2>2, CallStep
  <2>4. Hashed' /\ Checked'
    BY <2>1, AtStage DEF IInv, Hashed, Checked, Read
  <2> QED
    BY <2>3, <2>4 DEF IInv
<1>2. CASE ReadIntro
  <2>1. CASE At("lead") /\ rpm.lead.magic /\ Read("sigIntro", Fill(IntroLen), {}) /\ UNCHANGED start
    <3>1. IntroLen \in Nat /\ Target(rpm, "sigIntro") = Target(rpm, "lead") + IntroLen
      BY <1>0, Layout, Distances
    <3>2. Shape' /\ Aim' /\ Captured' /\ Faults' /\ Ending'
      BY <1>0, <2>1, <3>1, CallStep
    <3>3. Hashed' /\ Checked'
      BY <2>1, AtStage DEF IInv, Hashed, Checked, Read
    <3> QED
      BY <3>2, <3>3 DEF IInv
  <2>2. CASE At("padding") /\ Read("mainIntro", Fill(IntroLen), Digests) /\ start' = pos
    <3>1. IntroLen \in Nat /\ Target(rpm, "mainIntro") = Target(rpm, "padding") + IntroLen
      BY <1>0, Layout, Distances
    <3>2. Shape' /\ Aim' /\ Captured' /\ Faults' /\ Ending'
      BY <1>0, <2>2, <3>1, CallStep
    <3>3. /\ stage' = "mainIntro" /\ start' = pos /\ active' = Digests /\ UNCHANGED <<pos, fed, rpm>>
          /\ stage = "padding"
      BY <2>2 DEF Read, At
    <3>4. pos = MainStart(rpm) /\ pos \in Nat
      BY <1>0, <2>2, AtStage, Distances
    <3>5. Positions(pos, pos - pos) = <<>>
      BY <3>4 DEF Positions
    <3>6. Hashed'
      BY <3>3, <3>4, <3>5 DEF IInv, Hashed
    <3>7. Checked'
      BY <3>3 DEF IInv, Checked
    <3> QED
      BY <3>2, <3>6, <3>7 DEF IInv
  <2> QED
    BY <1>2, <2>1, <2>2 DEF ReadIntro
<1>3. CASE ReadIndex
  <2>1. CASE At("sigIntro") /\ rpm.sig.magic /\ Read("sigIndex", Fill(Len(rpm.sig.entries) * EntryLen), {})
    <3> DEFINE n == Len(rpm.sig.entries) * EntryLen
    <3>1. n \in Nat /\ Target(rpm, "sigIndex") = Target(rpm, "sigIntro") + n
      BY <1>0, Layout, Distances
    <3>2. At("sigIntro") /\ Read("sigIndex", Fill(n), {})
      BY <2>1
    <3> HIDE DEF n
    <3>3. Shape' /\ Aim' /\ Captured' /\ Faults' /\ Ending'
      BY <1>0, <3>1, <3>2, CallStep
    <3>4. Hashed' /\ Checked'
      BY <2>1, <3>2, AtStage DEF IInv, Hashed, Checked, Read
    <3> QED
      BY <3>3, <3>4 DEF IInv
  <2>2. CASE At("mainIntro") /\ rpm.main.magic /\ Read("mainIndex", Fill(Len(rpm.main.entries) * EntryLen), Digests)
    <3> DEFINE n == Len(rpm.main.entries) * EntryLen
    <3>1. n \in Nat /\ Target(rpm, "mainIndex") = Target(rpm, "mainIntro") + n
      BY <1>0, Layout, Distances
    <3>2. At("mainIntro") /\ Read("mainIndex", Fill(n), Digests) /\ UNCHANGED start
      BY <1>3, <2>2 DEF ReadIndex
    <3> HIDE DEF n
    <3>3. Shape' /\ Aim' /\ Captured' /\ Faults' /\ Ending'
      BY <1>0, <3>1, <3>2, CallStep
    <3>4. Hashed' /\ Checked'
      BY <2>2, <3>2, AtStage DEF IInv, Hashed, Checked, Read
    <3> QED
      BY <3>3, <3>4 DEF IInv
  <2> QED
    BY <1>3, <2>1, <2>2 DEF ReadIndex
<1>4. CASE ReadStore
  <2>1. CASE At("sigIndex") /\ Read("sigStore", Fill(rpm.sig.store), {})
    <3>1. rpm.sig.store \in Nat /\ Target(rpm, "sigStore") = Target(rpm, "sigIndex") + rpm.sig.store
      BY <1>0, Layout, Distances
    <3>2. Shape' /\ Aim' /\ Captured' /\ Faults' /\ Ending'
      BY <1>0, <2>1, <3>1, CallStep
    <3>3. Hashed' /\ Checked'
      BY <2>1, AtStage DEF IInv, Hashed, Checked, Read
    <3> QED
      BY <3>2, <3>3 DEF IInv
  <2>2. CASE At("mainIndex") /\ Read("mainStore", Fill(rpm.main.store), Digests)
    <3>1. rpm.main.store \in Nat /\ Target(rpm, "mainStore") = Target(rpm, "mainIndex") + rpm.main.store
      BY <1>0, Layout, Distances
    <3>2. Shape' /\ Aim' /\ Captured' /\ Faults' /\ Ending'
      BY <1>0, <2>2, <3>1, CallStep
    <3>3. UNCHANGED start
      BY <1>4 DEF ReadStore
    <3>4. Hashed' /\ Checked'
      BY <2>2, <3>3, AtStage DEF IInv, Hashed, Checked, Read
    <3> QED
      BY <3>2, <3>4 DEF IInv
  <2> QED
    BY <1>4, <2>1, <2>2 DEF ReadStore
<1>5. CASE SkipPadding
  <2> DEFINE n == (-pos) % Alignment
  <2>1. At("sigStore") /\ Walk(rpm.sig) = "ok" /\ Read("padding", Ahead(n), {})
    BY <1>5 DEF SkipPadding
  <2>2. pos = SigEnd(rpm) /\ Target(rpm, "sigStore") = SigEnd(rpm)
    BY <1>0, <2>1, AtStage, Distances
  <2>3. /\ n \in 0..(Alignment - 1) /\ Alignment \in Nat
        /\ Target(rpm, "padding") = Target(rpm, "sigStore") + n
    BY <1>0, <2>2, Layout, Distances
  <2> HIDE DEF n
  <2>4. n \in Nat /\ n <= Chunk
    BY <2>3, ChunkAssumption, ParserAssumption
  <2>5. Ahead(n) = Fill(n)
    BY <2>4 DEF Ahead
  <2>6. Shape' /\ Aim' /\ Captured' /\ Faults' /\ Ending'
    BY <1>0, <2>1, <2>3, <2>4, <2>5, CallStep
  <2>7. Hashed' /\ Checked'
    BY <2>1, AtStage DEF IInv, Hashed, Checked, Read
  <2> QED
    BY <2>6, <2>7 DEF IInv
<1>6. CASE ReadPayload
  <2>1. At("mainStore") /\ Walk(rpm.main) = "ok" /\ rpm.sizeFmt = "int32" /\ UNCHANGED start
    BY <1>6 DEF ReadPayload
  <2>2. /\ pos = MainEnd(rpm) /\ start = MainStart(rpm) /\ stage = "mainStore" /\ pos >= start
        /\ pos - start = HeaderLen(rpm.main)
        /\ \A d \in Digests : fed[d] = Positions(start, pos - start)
    <3>1. pos = MainEnd(rpm) /\ stage = "mainStore"
      BY <1>0, <2>1, AtStage, Distances
    <3>2. start = MainStart(rpm) /\ pos >= start /\ \A d \in Digests : fed[d] = Positions(start, pos - start)
      BY <3>1 DEF IInv, Hashed
    <3>3. pos - start = HeaderLen(rpm.main)
      <4>1. MainEnd(rpm) = MainStart(rpm) + HeaderLen(rpm.main)
            /\ MainStart(rpm) \in Nat /\ HeaderLen(rpm.main) \in Nat
        BY <1>0, Layout
      <4> QED
        BY <3>1, <3>2, <4>1
    <3> QED
      BY <3>1, <3>2, <3>3
  <2>3. Checked'
    BY <1>6, <2>1, <2>2 DEF IInv, Checked, ReadPayload, Read
  <2>4. CASE rpm.validate
    <3>1. Read("payload", Ahead(PayloadToRead), {"md5"})
      BY <1>6, <2>4 DEF ReadPayload
    <3>2. PayloadToRead = PayloadSize(rpm)
      BY <2>2 DEF PayloadToRead, CompressedPayloadSize, PayloadSize
    <3>3. PayloadSize(rpm) \in Nat
      BY <1>0, Layout, PayloadSizeRight
    <3>4. Target(rpm, "payload") = Target(rpm, "mainStore") + PayloadSize(rpm)
      BY <1>0, <2>4, Distances
    <3>5. Shape' /\ Aim' /\ Captured' /\ Faults' /\ Ending'
      BY <1>0, <2>1, <2>4, <3>1, <3>2, <3>3, <3>4, CallStep
    <3>6. Hashed'
      BY <2>1, <2>2, <2>4, <3>1 DEF Hashed, Read, Digests
    <3> QED
      BY <2>3, <3>5, <3>6 DEF IInv
  <2>5. CASE ~rpm.validate
    <3>1. Read("payload", Returned, {}) /\ Returned = Fill(0)
      BY <1>6, <2>5 DEF ReadPayload, Fill
    <3>2. Target(rpm, "payload") = Target(rpm, "mainStore") + 0
      BY <1>0, <2>5, Distances
    <3>3. Shape' /\ Aim' /\ Captured' /\ Faults' /\ Ending'
      BY <1>0, <2>1, <3>1, <3>2, CallStep
    <3>4. Hashed'
      BY <2>1, <2>2, <2>5, <3>1 DEF Hashed, Read, Digests
    <3> QED
      BY <2>3, <3>3, <3>4 DEF IInv
  <2> QED
    BY <2>4, <2>5
<1> QED
  BY <1>1, <1>2, <1>3, <1>4, <1>5, <1>6

-----------------------------------------------------------------------------
(* The end, with a given outcome. *)
LEMMA EndStep ==
    ASSUME IInv, stage # "end", job.kind \in {"ok", "error"}, NEW outcome, End(outcome),
           fault = "short" => outcome = "panic",
           outcome = "ok" => pos = Target(rpm, "payload"),
           fault = "none" => (outcome = "ok" <=> Passes(rpm))
    PROVE  IInv'
<1>1. /\ stage' = "end" /\ result' = outcome /\ active' = {} /\ capturing' = FALSE
      /\ UNCHANGED <<length, pos, job, fed, captured, fault, rpm, start>>
  BY DEF End
<1>2. Shape'
  BY <1>1 DEF IInv, Shape
<1>3. Aim' /\ Captured'
  BY <1>1 DEF IInv, Aim, Captured
<1>4. Hashed' /\ Checked'
  BY <1>1 DEF Hashed, Checked, Before, InSig, InMain
<1>5. Faults'
  BY <1>1 DEF IInv, Faults
<1>6. Ending'
  BY <1>1 DEF Ending
<1> QED
  BY <1>2, <1>3, <1>4, <1>5, <1>6 DEF IInv

LEMMA ValidateStep ==
    ASSUME IInv, Validate
    PROVE  IInv'
<1> DEFINE outcome == IF rpm.lead.known /\ DigestsMatch THEN "ok" ELSE "panic"
<1>1. At("payload") /\ End(outcome)
  BY DEF Validate
<1>2. /\ stage = "payload" /\ job.kind = "ok" /\ fault = "none" /\ rpm \in Inputs
      /\ pos = Target(rpm, "payload") /\ pos \in Nat /\ pos <= rpm.length
  BY <1>1, AtStage DEF Stages
<1>3. /\ start = MainStart(rpm) /\ pos >= start /\ fed["sha"] = Recorded("sha")
      /\ rpm.validate => fed["md5"] = Positions(start, pos - start)
  BY <1>2 DEF IInv, Hashed, Recorded
<1>4. /\ HeaderLen(rpm.main) \in Nat /\ MainStart(rpm) \in Nat /\ MainEnd(rpm) \in Nat
      /\ MainEnd(rpm) = start + HeaderLen(rpm.main)
      /\ pos = MainEnd(rpm) + IF rpm.validate THEN PayloadSize(rpm) ELSE 0
      /\ rpm.length \in Nat
  BY <1>2, <1>3, Layout, Distances, InputsAssumption
<1>5. /\ rpm.lead.magic /\ rpm.sig.magic /\ rpm.main.magic
      /\ Walk(rpm.sig) = "ok" /\ Walk(rpm.main) = "ok" /\ rpm.sizeFmt = "int32"
  BY <1>2 DEF IInv, Checked
<1>6. rpm.lead.known /\ DigestsMatch <=> Passes(rpm)
  <2>1. CASE ~rpm.validate
    <3>1. DigestsMatch /\ rpm.length >= MainEnd(rpm)
      BY <1>2, <1>3, <1>4, <2>1 DEF DigestsMatch
    <3> QED
      BY <1>5, <2>1, <3>1 DEF Passes
  <2>2. CASE rpm.validate
    <3> DEFINE n == PayloadSize(rpm)
               h == HeaderLen(rpm.main)
    <3>1. /\ n \in Nat /\ rpm.payload \in Nat
          /\ n = rpm.payload
                <=> rpm.payload < Word /\ rpm.size = (h + rpm.payload) % Word
      <4>1. n \in 0..(Word - 1) /\ Word \in Nat
        BY <1>2, <1>4, PayloadSizeRight, ParserAssumption
      <4>2. rpm.payload \in Nat
        BY <1>2, InputsAssumption
      <4>3. n = rpm.payload <=> rpm.payload < Word /\ rpm.size = (h + rpm.payload) % Word
        BY <1>2, <1>4, PayloadSizeRight
      <4> HIDE DEF n, h
      <4> QED
        BY <4>1, <4>2, <4>3
    <3>2. pos = MainEnd(rpm) + n
      BY <1>4, <2>2
    <3>3. Recorded("md5") = Positions(start, h + rpm.payload)
      BY DEF Recorded
    <3>4. h \in Nat /\ MainEnd(rpm) = start + h /\ start \in Nat
      BY <1>3, <1>4
    <3>5. DigestsMatch <=> fed["md5"] = Positions(start, h + rpm.payload)
      BY <1>3, <2>2, <3>3 DEF DigestsMatch
    <3> HIDE DEF n, h
    <3>6. pos - start = h + n
      BY <1>2, <3>1, <3>2, <3>4
    <3>7. fed["md5"] = Positions(start, h + n)
      BY <1>3, <2>2, <3>6
    <3>8. DigestsMatch <=> n = rpm.payload
      <4>1. ASSUME Positions(start, h + n) = Positions(start, h + rpm.payload) PROVE n = rpm.payload
        <5>1. h + n = h + rpm.payload
          <6>1. h + n \in Nat /\ h + rpm.payload \in Nat
            BY <3>1, <3>4
          <6> QED
            BY <3>4, <4>1, <6>1, PositionsLen
        <5> QED
          BY <3>1, <3>4, <5>1
      <4> QED
        BY <3>5, <3>7, <4>1
    <3>9. n = rpm.payload => rpm.length >= MainEnd(rpm) + rpm.payload
      BY <1>2, <3>2
    <3>10. rpm.length >= MainEnd(rpm)
      BY <1>2, <1>4, <3>1, <3>2
    <3>11. Passes(rpm) <=> /\ rpm.lead.known
                           /\ rpm.length >= MainEnd(rpm) + rpm.payload
                           /\ rpm.payload < Word /\ rpm.size = (h + rpm.payload) % Word
      BY <1>5, <2>2, <3>10 DEF Passes, h
    <3> QED
      BY <3>1, <3>8, <3>9, <3>11
  <2> QED
    BY <2>1, <2>2
<1>7. stage # "end" /\ (outcome = "ok" <=> Passes(rpm))
  BY <1>2, <1>6
<1> HIDE DEF outcome
<1> QED
  BY <1>1, <1>2, <1>7, EndStep

LEMMA GiveUpStep ==
    ASSUME IInv, GiveUp
    PROVE  IInv'
<1> USE DEF Stages, Before, InSig, InMain
<1>0. rpm \in Inputs /\ stage \in Stages \cup {"end"} /\ length = rpm.length /\ length \in Nat /\ pos \in Nat
  BY InputsAssumption DEF IInv, Shape
<1>1. CASE job.kind = "error" /\ stage # "end" /\ End(IF stage = "payload" THEN "panic" ELSE "error")
  <2> DEFINE outcome == IF stage = "payload" THEN "panic" ELSE "error"
  <2>1. fault = "short" => stage = "payload"
    BY <1>1 DEF IInv, Faults
  <2>2. ASSUME fault = "none" PROVE ~Passes(rpm)
    <3>1. rpm.length < Target(rpm, stage)
      BY <1>0, <1>1, <2>2 DEF IInv, Faults
    <3>2. CASE stage # "payload"
      <4>1. Target(rpm, stage) <= MainEnd(rpm) /\ Target(rpm, stage) \in Nat /\ MainEnd(rpm) \in Nat
        BY <1>0, <1>1, <3>2, Layout
      <4>2. ~(rpm.length >= MainEnd(rpm))
        BY <1>0, <3>1, <4>1
      <4> QED
        BY <4>2 DEF Passes
    <3>3. CASE stage = "payload"
      <4>1. Target(rpm, "payload") = MainEnd(rpm) + IF rpm.validate THEN PayloadSize(rpm) ELSE 0
        BY <1>0, Distances
      <4>2. /\ HeaderLen(rpm.main) \in Nat
            /\ PayloadSize(rpm) = rpm.payload
                  <=> rpm.payload < Word /\ rpm.size = (HeaderLen(rpm.main) + rpm.payload) % Word
        BY <1>0, Layout, PayloadSizeRight
      <4>3. CASE rpm.validate
        <5>1. rpm.length < MainEnd(rpm) + PayloadSize(rpm)
          BY <3>1, <3>3, <4>1, <4>3
        <5>2. PayloadSize(rpm) = rpm.payload => ~(rpm.length >= MainEnd(rpm) + rpm.payload)
          <6>1. rpm.payload \in Nat /\ MainEnd(rpm) \in Nat
            BY <1>0, Layout, InputsAssumption
          <6> QED
            BY <1>0, <5>1, <6>1
        <5>3. Passes(rpm) => /\ rpm.length >= MainEnd(rpm) + rpm.payload
                             /\ rpm.payload < Word /\ rpm.size = (HeaderLen(rpm.main) + rpm.payload) % Word
          BY <4>3 DEF Passes
        <5> QED
          BY <4>2, <5>2, <5>3
      <4>4. CASE ~rpm.validate
        <5>1. MainEnd(rpm) \in Nat /\ rpm.length < MainEnd(rpm)
          <6>1. MainEnd(rpm) \in Nat
            BY <1>0, Layout
          <6> QED
            BY <3>1, <3>3, <4>1, <4>4, <6>1
        <5>2. ~(rpm.length >= MainEnd(rpm))
          BY <1>0, <5>1
        <5> QED
          BY <5>2 DEF Passes
      <4> QED
        BY <4>3, <4>4
    <3> QED
      BY <3>2, <3>3
  <2>3. outcome # "ok" /\ (stage = "payload" => outcome = "panic") /\ End(outcome)
    BY <1>1
  <2> HIDE DEF outcome
  <2> QED
    BY <1>1, <2>1, <2>2, <2>3, EndStep
<1>2. ASSUME NEW s \in Stages, At(s), NEW outcome, End(outcome), outcome # "ok", ~Passes(rpm) PROVE IInv'
  <2>1. stage # "end" /\ job.kind = "ok" /\ fault = "none"
    BY <1>2, AtStage
  <2> QED
    BY <1>2, <2>1, EndStep
<1>3a. CASE At("lead") /\ ~rpm.lead.magic /\ End("error")
  BY <1>2, <1>3a DEF Passes
<1>3. CASE At("sigIntro") /\ ~rpm.sig.magic /\ End("error")
  BY <1>2, <1>3 DEF Passes
<1>4. CASE At("mainIntro") /\ ~rpm.main.magic /\ End("error")
  BY <1>2, <1>4 DEF Passes
<1>5. CASE At("sigStore") /\ Walk(rpm.sig) # "ok" /\ End(Walk(rpm.sig))
  BY <1>2, <1>5 DEF Passes
<1>6. CASE At("mainStore") /\ Walk(rpm.main) # "ok" /\ End(Walk(rpm.main))
  BY <1>2, <1>6 DEF Passes
<1>7. CASE At("mainStore") /\ Walk(rpm.main) = "ok" /\ rpm.sizeFmt # "int32" /\ End("panic")
  BY <1>2, <1>7 DEF Passes
<1> QED
  BY <1>1, <1>3a, <1>3, <1>4, <1>5, <1>6, <1>7 DEF GiveUp

-----------------------------------------------------------------------------
LEMMA InitIInv == Init => IInv
<1> SUFFICES ASSUME Init PROVE IInv
  OBVIOUS
<1>1. /\ rpm \in Inputs /\ length = rpm.length /\ pos = 0 /\ job = Returned /\ active = {}
      /\ fed = [d \in Digests |-> <<>>] /\ capturing = TRUE /\ captured = <<>> /\ fault = "none"
      /\ stage = "start" /\ result = "none"
  BY DEF Init, StreamInit
<1>2. length \in Nat
  BY <1>1, InputsAssumption
<1>3. Shape
  BY <1>1, <1>2 DEF Shape, Returned, Stages, Before
<1>4. Aim
  BY <1>1 DEF Aim, Returned, Target
<1>5. Captured
  BY <1>1 DEF Captured, Positions
<1>6. Hashed
  BY <1>1 DEF Hashed, Before, InSig, InMain
<1>7. Checked /\ Faults /\ Ending
  BY <1>1 DEF Checked, Faults, Ending, InSig, InMain, Returned
<1> QED
  BY <1>3, <1>4, <1>5, <1>6, <1>7 DEF IInv

LEMMA UnchangedIInv == IInv /\ UNCHANGED vars => IInv'
<1> SUFFICES ASSUME IInv, UNCHANGED vars PROVE IInv'
  OBVIOUS
<1>1. UNCHANGED <<length, pos, job, active, fed, capturing, captured, fault, rpm, stage, start, result>>
  BY DEF vars, streamVars
<1>2. Shape' /\ Aim' /\ Captured'
  BY <1>1 DEF IInv, Shape, Aim, Captured
<1>3. Hashed' /\ Checked'
  BY <1>1 DEF IInv, Hashed, Checked
<1>4. Faults' /\ Ending'
  BY <1>1 DEF IInv, Faults, Ending
<1> QED
  BY <1>2, <1>3, <1>4 DEF IInv

(* The inductive invariant holds throughout every behaviour. *)
THEOREM Invariance == Spec => []IInv
<1>1. IInv /\ [Next]_vars => IInv'
  <2> SUFFICES ASSUME IInv, [Next]_vars PROVE IInv'
    OBVIOUS
  <2>1. CASE (FillBuffer \/ ReadAhead) /\ UNCHANGED <<rpm, stage, start, result>>
    BY <2>1, TurnStep
  <2>2. CASE ReadFails /\ UNCHANGED <<rpm, stage, start, result>>
    BY <2>2, ReadFailsStep
  <2>3. CASE ParseLead \/ ReadIntro \/ ReadIndex \/ ReadStore \/ SkipPadding \/ ReadPayload
    BY <2>3, CallsKeep
  <2>4. CASE Validate
    BY <2>4, ValidateStep
  <2>5. CASE GiveUp
    BY <2>5, GiveUpStep
  <2>6. CASE UNCHANGED vars
    BY <2>6, UnchangedIInv
  <2> QED
    BY <2>1, <2>2, <2>3, <2>4, <2>5, <2>6 DEF Next, Proceed
<1> QED
  BY InitIInv, <1>1, PTL DEF Spec

(* The parser that does not check the payload stops at its first byte, and the     *)
(* client has captured exactly the bytes before it, whatever pieces they came in. *)
THEOREM ParserStopsAtPayload == Spec => []StopsAtPayload
<1>1. IInv => StopsAtPayload
  <2> SUFFICES ASSUME IInv, result = "ok", ~rpm.validate
               PROVE  pos = MainEnd(rpm) /\ captured = Positions(0, MainEnd(rpm))
    BY DEF StopsAtPayload
  <2>1. pos = Target(rpm, "payload")
    BY DEF IInv, Ending
  <2>2. Target(rpm, "payload") = MainEnd(rpm) + 0 /\ MainEnd(rpm) \in Nat
    BY Distances, Layout DEF IInv, Shape
  <2> QED
    BY <2>1, <2>2 DEF IInv, Captured
<1> QED
  BY <1>1, Invariance, PTL

(* readAhead takes a short read for an error only where the payload is validated,  *)
(* and the parser then never reports success.                                      *)
THEOREM ShortReadsAreHarmless == Spec => []ShortReadsHarmOnlyValidation
<1>1. IInv => ShortReadsHarmOnlyValidation
  BY DEF IInv, Faults, Ending, ShortReadsHarmOnlyValidation
<1> QED
  BY <1>1, Invariance, PTL

-----------------------------------------------------------------------------
(* Whether a package is accepted depends on its bytes and not on how the stream    *)
(* delivers them, for sizes up to 2^32 and for every width of a word, given that   *)
(* the walk accepts exactly the headers whose data fits.                           *)
THEOREM OutcomeIsInTheBytes == ASSUME WalkIsRight PROVE Spec => []OutcomeDependsOnBytesOnly
<1>1. IInv => OutcomeDependsOnBytesOnly
  <2> SUFFICES ASSUME IInv, stage = "end", fault = "none" PROVE result = "ok" <=> Acceptable(rpm)
    BY DEF OutcomeDependsOnBytesOnly
  <2>1. rpm \in Inputs /\ (result = "ok" <=> Passes(rpm))
    BY DEF IInv, Shape, Ending
  <2>2. /\ Walk(rpm.sig) = "ok" <=> SoundHeader(rpm.sig)
        /\ Walk(rpm.main) = "ok" <=> SoundHeader(rpm.main)
    BY <2>1, WalkIsRight DEF WalkIsRight
  <2>3. Passes(rpm) <=> Acceptable(rpm)
    BY <2>2 DEF Passes, Acceptable
  <2> QED
    BY <2>1, <2>3
<1> QED
  BY <1>1, Invariance, PTL
===============================================================================
