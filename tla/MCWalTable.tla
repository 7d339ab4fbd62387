----------------------------- MODULE MCWalTable -----------------------------
(* Instances of WalTable: one video is seeded, another may be inserted. *)
EXTENDS WalTable, TLC

MCSeeds == [v \in {"seeded"} |-> 1]
MCVideos == {"seeded", "inserted"}

MCMaxTx == <<2, 1>>
MCOneEach == <<1, 1>>

Symmetry == Permutations(Threads)
=============================================================================
