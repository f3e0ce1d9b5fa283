---------------------------- MODULE NotifyAddress ----------------------------
(***************************************************************************)
(* The address notify_systemd (src/daemon/collectd.c) sends READY=1 to:   *)
(* NOTIFY_SOCKET is copied into sockaddr_un.sun_path with sstrncpy; a     *)
(* name starting with '@' is a Linux abstract socket, whose first byte is *)
(* replaced by NUL and whose length is given by su_size; any other name   *)
(* is a file system path, read by the kernel up to its first NUL.          *)
(* Strings are sequences of characters; NUL is a character of its own.    *)
(***************************************************************************)
EXTENDS Integers, Sequences, SequencesExt

CONSTANTS
    SunPath,       \* sizeof (su.sun_path): 108 on Linux
    MaxNameLen     \* bound: the longest NOTIFY_SOCKET value tried

NUL == "NUL"

\* A few characters are enough: the two that select the kind of socket and
\* two ordinary ones.
Chars == {"@", "/", "a", "b"}

\* sizeof (sa_family_t) and sizeof (su).
FamilySize == 2
SuSize == FamilySize + SunPath

\* The values that pass the check at the top of notify_systemd: at least
\* two characters, the first '@' or '/'.
ValidNames ==
    {n \in SeqOf(Chars, MaxNameLen) : Len(n) >= 2 /\ n[1] \in {"@", "/"}}

\* memset (&su, 0, ...); sstrncpy (su.sun_path, notifysocket, sizeof ...):
\* strncpy copies at most SunPath characters and pads with NUL, then
\* sun_path[SunPath - 1] = '\0'.
SunPathCopy(name) ==
    [k \in 1..SunPath |-> IF k < SunPath /\ k <= Len(name) THEN name[k]
                          ELSE NUL]

\* su_size = sizeof (sa_family_t) + strlen (notifysocket), clamped to
\* sizeof (su).
AbstractSize(name) ==
    LET size == FamilySize + Len(name)
    IN  IF size > SuSize THEN SuSize ELSE size

\* The sun_path bytes (su.sun_path[0] = 0 for an abstract name) and the
\* length passed to sendto.
SunPathOf(name) ==
    [k \in 1..SunPath |-> IF k = 1 /\ name[1] = "@" THEN NUL
                          ELSE SunPathCopy(name)[k]]

SizeOf(name) == IF name[1] = "@" THEN AbstractSize(name) ELSE SuSize

\* What the kernel takes as the address: for an abstract socket all the
\* bytes su_size covers, for a path the string up to the first NUL.
KernelAddress(path, size) ==
    LET bytes == SubSeq(path, 1, size - FamilySize)
        firstNul == SelectInSeq(bytes, LAMBDA c : c = NUL)
    IN  IF path[1] = NUL THEN bytes
        ELSE IF firstNul = 0 THEN bytes ELSE SubSeq(bytes, 1, firstNul - 1)

\* The socket the environment names (spec 6: abstract addresses begin with
\* a NUL byte and their length excludes unused trailing bytes).
Intended(name) ==
    IF name[1] = "@" THEN <<NUL>> \o Tail(name) ELSE name

VARIABLES
    name,   \* getenv ("NOTIFY_SOCKET")
    sent    \* the address READY=1 went to, <<>> before sendto

vars == <<name, sent>>

Init ==
    /\ name \in ValidNames
    /\ sent = <<>>

\* Lines from memset to sendto: the address is built and used once.
Send ==
    /\ sent = <<>>
    /\ sent' = KernelAddress(SunPathOf(name), SizeOf(name))
    /\ UNCHANGED name

Spec == Init /\ [][Send]_vars

\* READY=1 goes to the socket NOTIFY_SOCKET names, for a path and for an
\* abstract name, whatever its length.
AddressIsNamed == sent # <<>> => sent = Intended(name)

=============================================================================
