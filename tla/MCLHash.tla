------------------------------ MODULE MCLHash -------------------------------
(***************************************************************************)
(* Threads on one locked table of two buckets and four keys, one of them   *)
(* empty.  Three keys collide, and two entries have the same key.          *)
(***************************************************************************)
EXTENDS LHash

CONSTANTS kx, ky, kz, ke, x1, x2, y1, z1, e1

MCKeyOf == [e \in Entries |-> IF e \in {x1, x2} THEN kx ELSE IF e = y1 THEN ky
                            ELSE IF e = z1 THEN kz ELSE ke]
MCHashed == [k \in AllKeys |-> IF k = ky THEN 1 ELSE 0]
=============================================================================
