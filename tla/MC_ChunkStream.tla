---- MODULE MC_ChunkStream ----
(* Three chunks, with payloads that look like a magic, end like the beginning of one or are empty. *)
EXTENDS ChunkStream

SomePayloads == {<<>>, <<0, 1>>, <<1, 2>>}
====
