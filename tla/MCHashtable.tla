---------------------------- MODULE MCHashtable ----------------------------
(* Four key objects, two of which are equal keys, all in two hash classes. *)
EXTENDS Hashtable

MCContent(k) == IF k = 14 THEN 1 ELSE k % 10
MCHashOf(c) == c * 2
MCRatios == {<<10, 5, 20>>}
=============================================================================
