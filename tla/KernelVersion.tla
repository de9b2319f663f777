---------------------------- MODULE KernelVersion ----------------------------
(***************************************************************************)
(* Package kernel: the version of the kernel, which decides whether the    *)
(* overlay driver may be used.  A release as uname gives it is the numbers *)
(* at its beginning, between dots, and the flavor behind them.             *)
(***************************************************************************)
EXTENDS Integers, Sequences

CompareKernelVersion(a, b) ==
    CASE a.kernel < b.kernel -> -1
      [] a.kernel > b.kernel -> 1
      [] a.kernel = b.kernel /\ a.major < b.major -> -1
      [] a.kernel = b.kernel /\ a.major > b.major -> 1
      [] a.kernel = b.kernel /\ a.major = b.major /\ a.minor < b.minor -> -1
      [] a.kernel = b.kernel /\ a.major = b.major /\ a.minor > b.minor -> 1
      [] OTHER -> 0

\* Two numbers are needed; the third is 0 if the flavor follows at once.
Parses(release) == Len(release) >= 2
ParseRelease(release) ==
    [kernel |-> release[1], major |-> release[2], minor |-> IF Len(release) >= 3 THEN release[3] ELSE 0]

CheckKernelVersion(release, k, major, minor) ==
    CompareKernelVersion(ParseRelease(release), [kernel |-> k, major |-> major, minor |-> minor]) >= 0
=============================================================================
