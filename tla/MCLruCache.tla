----------------------------- MODULE MCLruCache -----------------------------
(* LruCache with two keys and a limit that holds either small value but not a
   small and a large one.                                                    *)
EXTENDS LruCache
=============================================================================
