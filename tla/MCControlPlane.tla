---------------------------- MODULE MCControlPlane ----------------------------
(* Small instances of the control plane: requests r1..r4 serve every part.   *)
EXTENDS ControlPlane, TLC

CONSTANTS r1, r2, r3, r4,          \* requests
          good, lapsed, foreign, forged,   \* license texts
          c1, f1, pw1, pw2,        \* a stored connection, its fingerprint, passwords
          u1, u2,                  \* users
          k1                       \* a tunnel

(* One license lapses on day 1, within the bound on days.                    *)
MCExpiresAt == [t \in {good, lapsed, foreign, forged} |-> IF t = lapsed THEN 1 ELSE 9]

(* The two requests that every part has are interchangeable.                 *)
RequestSymmetry == Permutations({r1, r2})
===============================================================================
