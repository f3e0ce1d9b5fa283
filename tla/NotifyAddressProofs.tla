------------------------- MODULE NotifyAddressProofs -------------------------
(***************************************************************************)
(* The address notify_systemd builds is the one NOTIFY_SOCKET names        *)
(* whenever the name is shorter than sun_path, for every size of sun_path  *)
(* (108 on Linux).  The run notifyaddress_long shows that the bound is     *)
(* exact: a name of SunPath characters is truncated.                       *)
(*                                                                         *)
(* The argument follows the two branches of the code.  For an abstract     *)
(* name su_size is not clamped, and the bytes it covers are the NUL that   *)
(* replaced '@' and the rest of the name.  For a path the whole sun_path   *)
(* is passed, and the first NUL is the one sstrncpy put after the name.    *)
(***************************************************************************)
EXTENDS NotifyAddress, SequenceTheorems, TLAPS

\* The bytes of sun_path: the name's characters and NUL.
Bytes == Chars \cup {NUL}

\* sun_path as the code leaves it, byte by byte, for a name that fits.
LEMMA SunPathBytes ==
    ASSUME SunPath \in Nat, NEW nm \in Seq(Chars), Len(nm) < SunPath
    PROVE  /\ SunPathOf(nm) \in [1..SunPath -> Bytes]
           /\ \A k \in 1..SunPath :
                 SunPathOf(nm)[k] =
                    IF k = 1 /\ nm[1] = "@" THEN NUL
                    ELSE IF k <= Len(nm) THEN nm[k] ELSE NUL
  BY DEF SunPathOf, SunPathCopy, Bytes

LEMMA NulNotChar == NUL \notin Chars
  BY DEF NUL, Chars

\* An abstract name: su_size covers exactly the name's length, and the
\* bytes are NUL followed by the name without its '@'.
LEMMA AbstractFits ==
    ASSUME SunPath \in Nat, NEW nm \in Seq(Chars), Len(nm) >= 2,
           Len(nm) < SunPath, nm[1] = "@"
    PROVE  KernelAddress(SunPathOf(nm), SizeOf(nm)) = Intended(nm)
<1> DEFINE path == SunPathOf(nm)
           n == Len(nm)
           bytes == SubSeq(path, 1, n)
           want == <<NUL>> \o Tail(nm)
<1>1. SizeOf(nm) = FamilySize + n
  BY DEF SizeOf, AbstractSize, SuSize, FamilySize
<1>2. path \in [1..SunPath -> Bytes] /\ path[1] = NUL
  BY SunPathBytes
<1>3. KernelAddress(path, SizeOf(nm)) = bytes
  BY <1>1, <1>2 DEF KernelAddress, FamilySize
<1>4. /\ bytes \in Seq(Bytes)
      /\ Len(bytes) = n
      /\ \A i \in 1..n : bytes[i] = IF i = 1 THEN NUL ELSE nm[i]
  <2>1. \A i \in 1..n : path[i] \in Bytes
    BY <1>2
  <2>2. QED
    BY <2>1, SubSeqProperties, SunPathBytes
<1>5. /\ want \in Seq(Bytes)
      /\ Len(want) = n
      /\ \A i \in 1..n : want[i] = IF i = 1 THEN NUL ELSE nm[i]
  <2>1. nm \in Seq(Bytes) /\ nm # << >>
    BY SeqMonotonic DEF Bytes
  <2>2. Tail(nm) \in Seq(Bytes) /\ Len(Tail(nm)) = n - 1
        /\ \A i \in 1..n-1 : Tail(nm)[i] = nm[i + 1]
    BY <2>1, HeadTailProperties
  <2>3. <<NUL>> \in Seq(Bytes) /\ Len(<<NUL>>) = 1
    BY DEF Bytes
  <2>4. QED
    BY <2>2, <2>3, ConcatProperties
<1>6. Intended(nm) = want
  BY DEF Intended
<1>7. QED
  BY <1>3, <1>4, <1>5, <1>6, SeqEqual

\* A path: the kernel reads sun_path up to the NUL after the name.
LEMMA PathFits ==
    ASSUME SunPath \in Nat, NEW nm \in Seq(Chars), Len(nm) >= 2,
           Len(nm) < SunPath, nm[1] = "/"
    PROVE  KernelAddress(SunPathOf(nm), SizeOf(nm)) = Intended(nm)
<1> DEFINE path == SunPathOf(nm)
           n == Len(nm)
           bytes == SubSeq(path, 1, SunPath)
           nuls == {i \in 1..Len(bytes) : bytes[i] = NUL}
<1>0. n \in Nat
  BY LenProperties
<1>1. SizeOf(nm) = SuSize
  BY DEF SizeOf
<1>2. /\ \A k \in 1..SunPath : path[k] \in Bytes
      /\ \A k \in 1..SunPath : path[k] = IF k <= n THEN nm[k] ELSE NUL
  BY SunPathBytes
<1>3. /\ bytes \in Seq(Bytes)
      /\ Len(bytes) = SunPath
      /\ \A i \in 1..SunPath : bytes[i] = path[i]
  BY <1>2, SubSeqProperties
<1>4. nuls = (n + 1)..SunPath
  <2>1. \A i \in 1..n : nm[i] \in Chars
    BY ElementOfSeq
  <2>2. QED
    BY <1>2, <1>3, <2>1, NulNotChar
<1>5. SelectInSeq(bytes, LAMBDA c : c = NUL) = n + 1
  <2>1. nuls # {} /\ n + 1 \in nuls /\ \A i \in nuls : n + 1 <= i
    BY <1>0, <1>4
  <2>2. Min(nuls) = n + 1
    <3>1. \E x \in nuls : \A y \in nuls : x <= y
      BY <2>1
    <3>2. Min(nuls) \in nuls /\ \A y \in nuls : Min(nuls) <= y
      BY <3>1 DEF Min
    <3>3. \A x \in nuls : (\A y \in nuls : x <= y) => x = n + 1
      BY <1>0, <1>4
    <3>4. QED
      BY <3>2, <3>3, <2>1, Zenon
  <2>3. QED
    BY <2>1, <2>2 DEF SelectInSeq
<1>6. path[1] # NUL
  BY <1>2 DEF NUL
<1>7. KernelAddress(path, SizeOf(nm)) = SubSeq(bytes, 1, n)
  <2>1. SubSeq(path, 1, SuSize - FamilySize) = bytes
    BY DEF SuSize, FamilySize
  <2>2. n + 1 # 0 /\ SubSeq(bytes, 1, (n + 1) - 1) = SubSeq(bytes, 1, n)
    BY <1>0
  <2>3. QED
    BY <1>1, <1>5, <1>6, <2>1, <2>2, Zenon DEF KernelAddress
<1>8. /\ SubSeq(bytes, 1, n) \in Seq(Bytes)
      /\ Len(SubSeq(bytes, 1, n)) = n
      /\ \A i \in 1..n : SubSeq(bytes, 1, n)[i] = nm[i]
  <2>1. \A i \in 1..n : bytes[i] \in Bytes
    BY <1>2, <1>3
  <2>2. QED
    BY <1>2, <1>3, <2>1, SubSeqProperties
<1>9. nm \in Seq(Bytes)
  BY SeqMonotonic DEF Bytes
<1>10. QED
  BY <1>7, <1>8, <1>9, SeqEqual DEF Intended

\* For every size of sun_path: a NOTIFY_SOCKET value that passes the check
\* at the top of notify_systemd and is shorter than sun_path reaches the
\* kernel as the socket it names, both as a path and as an abstract name.
THEOREM AddressFitsThm ==
    ASSUME SunPath \in Nat, NEW nm \in Seq(Chars), Len(nm) >= 2,
           nm[1] \in {"@", "/"}, Len(nm) < SunPath
    PROVE  KernelAddress(SunPathOf(nm), SizeOf(nm)) = Intended(nm)
  BY AbstractFits, PathFits

=============================================================================
