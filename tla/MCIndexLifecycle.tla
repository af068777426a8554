-------------------------- MODULE MCIndexLifecycle --------------------------
(* A small index: two documents, added alone or together.                  *)
EXTENDS IndexLifecycle

MCBatches == {<<1>>, <<1, 2>>}
=============================================================================
