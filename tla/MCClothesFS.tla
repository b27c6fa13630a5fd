----------------------------- MODULE MCClothesFS -----------------------------
(* ClothesFS on a small disk, for TLC: a block has room for two entries      *)
(* after a short name and for one after a longer one.                        *)
EXTENDS ClothesFS
==============================================================================
