---------------------------- MODULE MCSchedulers ----------------------------
(* Small event lists, and one that is about to outgrow its four buckets.   *)
EXTENDS Schedulers

SomeScripts == {<<>>, <<3, 3, 9>>, <<1, 2, 3, 4, 5, 6, 8, 12>>}
=============================================================================
