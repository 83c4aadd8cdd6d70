--------------------------- MODULE MCGenerateFile -----------------------------
(* Files of up to two services of up to two methods: two services make the  *)
(* per-service reset of numStreams observable, two methods a second stream  *)
(* index, and an empty service or a lone client-only method the import     *)
(* cases.                                                                   *)
EXTENDS GenerateFile

MCMaxServices == 2
MCMaxMethods == 2
=============================================================================
