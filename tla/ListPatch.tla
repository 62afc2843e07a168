------------------------------ MODULE ListPatch ------------------------------
(***************************************************************************)
(* The lists of a media session as CRootItem keeps them, and the line      *)
(* diffs that daemon and clients exchange.  A list is a sequence of items  *)
(* (the lines of one category); a diff is a sequence of hunks.  What a     *)
(* hunk's header says is kept as the line it starts at (one more than      *)
(* printed when it removes nothing) and by how much it shifts the hunks    *)
(* behind it; its lines first remove, then insert.                         *)
(*                                                                         *)
(* The content of a removed line is only compared for the log, so a hunk   *)
(* does not have it.                                                       *)
(***************************************************************************)
EXTENDS Integers, Sequences, SequencesExt

Hunk(at, by, rm, ins) == [at |-> at, by |-> by, rm |-> rm, ins |-> ins]

\* A header whose numbers cannot be read.
BadHunk == Hunk(-9, 0, 0, <<>>)

(***************************************************************************)
(* CRootItem::patch.  It ends in a list, in an exception with the hunks    *)
(* before it applied, or in a crash: an insertion outside of the vector,   *)
(* or the text of the item behind the last, which is a null pointer the    *)
(* range check lets pass.  An insertion at line 0 appends.                 *)
(***************************************************************************)
Done(l) == [how |-> "ok", list |-> l]
Thrown(l) == [how |-> "malformed", list |-> l]
Crash == [how |-> "crash", list |-> <<>>]

RemoveLines(l, pos, n) ==
  IF n = 0 THEN Done(l)
  ELSE IF pos < 0 \/ pos > Len(l) THEN Thrown(l)
  ELSE IF pos + n > Len(l) THEN Crash
  ELSE Done(SubSeq(l, 1, pos) \o SubSeq(l, pos + n + 1, Len(l)))

InsertLines(l, pos, ins) ==
  IF ins = <<>> THEN Done(l)
  ELSE IF pos = -1 THEN Done(Tail(ins) \o l \o <<Head(ins)>>)
  ELSE IF pos < -1 \/ pos > Len(l) THEN Crash
  ELSE Done(SubSeq(l, 1, pos) \o ins \o SubSeq(l, pos + 1, Len(l)))

ApplyHunk(sofar, h) ==
  LET pos == h.at + sofar.shift - 1
      removed == RemoveLines(sofar.res.list, pos, h.rm)
  IN [shift |-> sofar.shift + h.by,
      res |-> IF sofar.res.how # "ok" THEN sofar.res
              ELSE IF h = BadHunk THEN Thrown(sofar.res.list)
              ELSE IF removed.how # "ok" THEN removed
              ELSE InsertLines(removed.list, pos, h.ins)]

patch(list, diff) ==
  FoldLeft(ApplyHunk, [shift |-> 0, res |-> Done(list)], diff).res

(***************************************************************************)
(* CCmdDispatcher::addIdToPlaylistDiff: what a client inserted is replaced *)
(* by the items of the new list at the lines the hunks count to.  Here     *)
(* lines that remove count too, and an item that is not there is a null    *)
(* pointer.                                                                *)
(***************************************************************************)
Lines(h, shift) == {h.at + shift + h.rm + i : i \in 0 .. Len(h.ins) - 1}

WithItems(sofar, h) ==
  LET first == h.at + sofar.shift + h.rm
      ins == [i \in 1 .. Len(h.ins) |-> sofar.new[first + i - 1]]
      missing == ~ Lines(h, sofar.shift) \subseteq DOMAIN sofar.new
  IN IF sofar.crash \/ missing THEN [sofar EXCEPT !.crash = TRUE]
     ELSE [sofar EXCEPT !.shift = @ + h.by, !.diff = Append(@, [h EXCEPT !.ins = ins])]

addIdToPlaylistDiff(diff, new) ==
  LET end == FoldLeft(WithItems,
                      [shift |-> 0, new |-> new, diff |-> <<>>, crash |-> FALSE], diff)
  IN [crash |-> end.crash, diff |-> end.diff]

(***************************************************************************)
(* CCategoryItem::diff with xdiff and no context lines: nothing for equal  *)
(* lists, else here one hunk for all that differs.                         *)
(***************************************************************************)
SameEnds(a, b, p, s) ==
  /\ p + s <= Len(a) /\ p + s <= Len(b)
  /\ \A i \in 1 .. p : a[i] = b[i]
  /\ \A i \in 0 .. s - 1 : a[Len(a) - i] = b[Len(b) - i]

LineDiff(a, b) ==
  LET p == Max({i \in 0 .. Len(a) : SameEnds(a, b, i, 0)})
      s == Max({i \in 0 .. Len(a) - p : SameEnds(a, b, p, i)})
  IN IF a = b THEN <<>>
     ELSE <<Hunk(p + 1, Len(b) - Len(a), Len(a) - p - s, SubSeq(b, p + 1, Len(b) - s))>>

(***************************************************************************)
(* CDiffBuilder::diff: rows (a set here, in the order of the list) and     *)
(* their items as they were when the drag began, dropped on the row insTo. *)
(* Only the first row and the number of rows say what is removed.          *)
(***************************************************************************)
Insertion(insTo, items) == Hunk(insTo + 1, Len(items), 0, items)
Removal(row, n) == Hunk(row + 1, -n, n, <<>>)

Move(drag, insTo) ==
  LET n == Len(drag)
      from == drag[1].row
      items == [i \in 1 .. n |-> drag[i].item]
  IN IF from < insTo /\ drag[n].row > insTo THEN {}
     ELSE IF from > insTo THEN {<<Insertion(insTo, items), Removal(from, n)>>}
     ELSE {<<Removal(from, n), Insertion(insTo, items)>>}

TakeOut(drag) == {<<Removal(drag[1].row, Len(drag))>>}

PutIn(item, insTo) == {<<Insertion(insTo, <<item>>)>>}
=============================================================================
