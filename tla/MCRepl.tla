------------------------------- MODULE MCRepl -------------------------------
(***************************************************************************)
(* Small debuggees for TLC.                                                *)
(*                                                                         *)
(*   Single:  0 (dyld, no line) -> 1: BL 4 (line 1) -> 4: store x (line 3) *)
(*            -> 2: store x (line 2) -> 3 (line 2) -> 5: exit (line 4)     *)
(*   Looping: the same, with a branch from 3 back to 2.                    *)
(***************************************************************************)
EXTENDS DocClaims, TLC

SingleAddr  == 0 .. 5
SingleSucc  == (0 :> {1}) @@ (1 :> {4}) @@ (2 :> {3}) @@ (3 :> {5}) @@ (4 :> {2}) @@ (5 :> {5})
LoopingSucc == (3 :> {2, 5}) @@ SingleSucc
SingleKind  == [a \in SingleAddr |-> IF a = 5 THEN "endprocess" ELSE "plain"]
SingleLine  == <<1, 2, 2, 3, 4>> @@ (0 :> 0)
SingleTouch == [a \in SingleAddr |-> IF a \in {2, 4} THEN "x" ELSE "none"]
SingleCall  == {1}
SingleRet   == (1 :> 2)

(***************************************************************************)
(*   Spawn: 0 -> 1: pthread_create (line 1) -> 2: store x (line 2)         *)
(*            -> 3: exit (line 3); the new thread: 4: store x (line 4)     *)
(*            -> 5: end of the thread (line 5)                             *)
(***************************************************************************)
SpawnSucc  == (0 :> {1}) @@ (1 :> {2}) @@ (2 :> {3}) @@ (3 :> {3}) @@ (4 :> {5}) @@ (5 :> {5})
SpawnKind  ==
    [a \in SingleAddr |->
        CASE a = 1 -> "spawn" [] a = 3 -> "endprocess" [] a = 5 -> "endthread"
          [] OTHER -> "plain"]
SpawnLine  == <<1, 2, 3, 4, 5>> @@ (0 :> 0)
NoRet        == [a \in {} |-> 0]

(***************************************************************************)
(*   Threads: 0 -> 1: BL 4 (line 1) -> 4: store x (line 3)                 *)
(*            -> 2: pthread_create after a store to x (line 2)             *)
(*            -> 3: exit (line 2); the new thread: 5: its end              *)
(***************************************************************************)
ThreadsSucc == (0 :> {1}) @@ (1 :> {4}) @@ (2 :> {3}) @@ (3 :> {3}) @@ (4 :> {2}) @@ (5 :> {5})
ThreadsKind ==
    [a \in SingleAddr |->
        CASE a = 2 -> "spawn" [] a = 3 -> "endprocess" [] a = 5 -> "endthread"
          [] OTHER -> "plain"]
ThreadsLine == <<1, 2, 2, 3, 0>> @@ (0 :> 0)
=============================================================================
