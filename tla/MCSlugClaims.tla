---------------------------- MODULE MCSlugClaims ----------------------------
(* Instances of SlugClaims for TLC. *)
EXTENDS SlugClaims, TLC

CONSTANTS n1, n2, n3, u, v1, v2, v3

\* Two names become one sandbox, and one of them a second sandbox, which is a
\* third name's too; a run without a name has a sandbox of its own or, under
\* BRIG_NAME, the one of the first two.
MCNames == {n1, n2, n3, u}
MCLands == (n1 :> {v1}) @@ (n2 :> {v1, v2}) @@ (n3 :> {v2}) @@ (u :> {v1, v3})

\* Commands one at a time, with and without failing writes.
SerialEnvs == {{}, {"faults"}}
=============================================================================
