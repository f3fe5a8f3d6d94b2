------------------------------- MODULE TSQueue -------------------------------
(***************************************************************************)
(* TSQueue<T>, the queue both ends of a connection keep their messages in. *)
(* Every operation holds the queue's mutex from its first statement to its *)
(* last, so each is one step; pop waits on a predicate, so no notification *)
(* is lost and a thread in pop goes on exactly when the queue is not empty.*)
(***************************************************************************)
EXTENDS Sequences

push(q, item) == Append(q, item)

push_front(q, item) == <<item>> \o q

empty(q) == q = <<>>

(* What pop returns, and what it leaves; it waits while the queue is empty. *)
front(q) == Head(q)
pop(q) == Tail(q)
=============================================================================
