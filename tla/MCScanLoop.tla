----------------------------- MODULE MCScanLoop -----------------------------
(* Model values for ScanLoop: a program that is classified by what it does *)
(* and one that is classified by its name, too small to pass --min-mem.    *)
EXTENDS ScanLoop

CONSTANTS engine, helper

MCCats == {1, 2, 3}

MCCategoryOf == [x \in Kinds \X BOOLEAN |->
                    IF x[1] = helper THEN 3 ELSE IF x[2] THEN 2 ELSE 1]

MCMemOf == [k \in Kinds |-> IF k = engine THEN 1 ELSE 0]
=============================================================================
