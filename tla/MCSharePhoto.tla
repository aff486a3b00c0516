---------------------------- MODULE MCSharePhoto ----------------------------
(* Two JPEG photos, a HEIC photo the bytes do not tell, and one that is too  *)
(* large; products of two shops, and an older one without a usable URL.     *)
EXTENDS SharePhoto, TLC
CONSTANTS s1, s2, s3, s4, p0, p1, p2, c1, c2
MCSniffed == [ph \in Photos |-> IF ph = s3 THEN "unknown" ELSE "image/jpeg"]
MCDeclared == [ph \in Photos |-> IF ph = s3 THEN "image/heic" ELSE "application/octet-stream"]
MCCreatedAt == [p \in Products |-> CASE p = p0 -> 1 [] p = p1 -> 2 [] p = p2 -> 3]
MCPhotosOf == [p \in Products |-> CASE p = p0 -> {s1} [] p = p1 -> {s1, s4} [] p = p2 -> {s2, s3}]
MCSymmetry == Permutations(Calls)
=============================================================================
