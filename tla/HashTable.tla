------------------------------ MODULE HashTable ------------------------------
(***************************************************************************)
(* Hash (ruby/hash.c) on the chained tables of ruby/st.c.                  *)
(*                                                                         *)
(* A table is an array of bins, each a linked list of entries; a new entry *)
(* goes to the head of its bin.  The block of an iteration may change the  *)
(* table, and so may another thread while the block runs: an iterator      *)
(* keeps a pointer into a list meanwhile.  Hash#delete therefore only      *)
(* blanks the entry (st_delete_safe) while iter_lev > 0, and an iterator   *)
(* fails that finds another table or other bins after its block.           *)
(***************************************************************************)
EXTENDS Naturals, Sequences, SequencesExt, FiniteSets

CONSTANTS Keys, Vals,
          HashOf,        \* the hash value of a key
          Sizes,         \* numbers of bins, in the order of new_size
          MaxDensity,    \* ST_DEFAULT_MAX_DENSITY
          Iterators,     \* running each, each_pair, delete_if ...: nested or in threads
          BlockOps,      \* operations of the blocks
          Nil,
          MaxEntries,    \* bound on the entries allocated at a time
          AddressesReused  \* TRUE: a second new table, or second new bins, of one
                         \* block may have the address of the first ones

Never == "undef"         \* Qundef in a deleted entry
Idle == [kind |-> Nil]

VARIABLES
  entry,        \* key, value and hash of each allocated entry, or Nil
  bins,         \* a list of entries for each bin
  size,         \* index of num_bins in Sizes
  num_entries,
  iter_lev,
  deleted,      \* HASH_DELETED
  iter,         \* of each iterator: its kind, the entry whose block runs (ptr of
                \* st_foreach; 0 if freed), whether last is 0, and what has become
                \* of tbl and bins since the block began
  stays,        \* entries in the table since the iteration began
  seen,         \* entries whose block has run
  faults        \* "missed", "twice": what a completed iteration did wrong

tableVars == <<entry, bins, size, num_entries>>
iterVars == <<iter_lev, iter, stays, seen, faults>>
vars == <<tableVars, deleted, iterVars>>

-----------------------------------------------------------------------------
(* st.c                                                                    *)

num_bins == Sizes[size]
Bin(k, n) == (HashOf[k] % n) + 1
Entries(b) == UNION {Range(b[i]) : i \in DOMAIN b}

\* FIND_ENTRY: the entry of a key, or 0.
Find(k) ==
  LET i == SelectInSeq(bins[Bin(k, num_bins)], LAMBDA e : entry[e].key = k)
  IN IF i = 0 THEN 0 ELSE bins[Bin(k, num_bins)][i]

\* The entries of b in the order in which st_foreach meets them.
InOrder(b) == FoldLeft(LAMBDA a, l : a \o l, <<>>, b)

\* Entries es are put one after the other at the heads of n bins.
Chained(es, n, ent) ==
  FoldLeft(LAMBDA b, e : [b EXCEPT ![Bin(ent[e].hash, n)] = <<e>> \o @],
           [i \in 1..n |-> <<>>], es)

Init ==
  /\ entry = [e \in 1..MaxEntries |-> Nil]
  /\ bins = [i \in 1..Sizes[1] |-> <<>>]
  /\ size = 1 /\ num_entries = 0
  /\ iter_lev = 0 /\ deleted = FALSE
  /\ iter = [i \in Iterators |-> Idle]
  /\ stays = [i \in Iterators |-> {}]
  /\ seen = [i \in Iterators |-> {}]
  /\ faults = {}

Running == {i \in Iterators : iter[i] # Idle}

\* What an iterator may find after its block when the bins have been replaced, or
\* the table.  What is new is allocated before what it replaces is freed, so one
\* change is always seen; but the address freed may be allocated by the next.
Changed(was, what) ==
  CASE was = "same" -> what
    [] was = "bins" /\ what = "table" -> "table"
    [] was = "table" /\ what = "bins" -> "table"
    [] OTHER -> "again"

\* A new table has new entries, and the old ones are freed.
Replaced(what) ==
  [i \in Iterators |->
     IF i \in Running
     THEN [iter[i] EXCEPT !.changed = Changed(@, what),
                          !.e = IF what = "table" THEN 0 ELSE @]
     ELSE Idle]

\* Mutant: only a new table is noticed.
BinsUnchanged == iter

BinsChanged == Replaced("bins")

\* rehash into n bins
rehash(n) == Chained(InOrder(bins), n, entry)

\* ADD_DIRECT with rehash: the lists are built anew when there are too many
\* entries for the bins.
AddDirect(k, v, e) ==
  LET full == num_entries \div num_bins > MaxDensity
      n == IF full THEN Sizes[size + 1] ELSE num_bins
      rehashed == IF full THEN rehash(n) ELSE bins
  IN /\ entry' = [entry EXCEPT ![e] = [key |-> k, val |-> v, hash |-> k]]
     /\ bins' = [rehashed EXCEPT ![Bin(k, n)] = <<e>> \o @]
     /\ size' = IF full THEN size + 1 ELSE size
     /\ iter' = IF full THEN BinsChanged ELSE iter
     /\ num_entries' = num_entries + 1

\* The bins without the entries of set es.
Without(es) == [i \in DOMAIN bins |-> SelectSeq(bins[i], LAMBDA e : e \notin es)]

Blank == {e \in Entries(bins) : entry[e].key = Never}

\* Entries es, unlinked, are freed.
Freed(es) == [e \in DOMAIN entry |-> IF e \in es THEN Nil ELSE entry[e]]

\* No iteration owes a block call for entries that have left the table.
Left(es) == /\ stays' = [i \in Iterators |-> stays[i] \ es]
            /\ seen' = [i \in Iterators |-> seen[i] \ es]

-----------------------------------------------------------------------------
(* hash.c: operations outside of and in the blocks of iterations.          *)

\* Blocks perform the operations of BlockOps; the block of delete_if none,
\* because st_foreach unlinks the entry by a pointer that they make stale.
Allowed(op) ==
  /\ iter_lev > 0 => op \in BlockOps
  /\ (\E i \in Running : iter[i].kind = "delete_if") => "delete_if" \in BlockOps

rb_hash_aset(k, v) ==
  /\ Allowed("aset")
  /\ \/ /\ Find(k) # 0
        /\ entry' = [entry EXCEPT ![Find(k)].val = v]
        /\ UNCHANGED <<bins, size, num_entries, iter>>
     \/ /\ Find(k) = 0
        /\ \E e \in DOMAIN entry : /\ entry[e] = Nil /\ \A f \in 1..(e - 1) : entry[f] # Nil
                                  /\ AddDirect(k, v, e)
  /\ UNCHANGED <<deleted, iter_lev, stays, seen, faults>>

\* Mutant: the entry is unlinked although an iterator may point to it.
DeleteUnsafe(e) ==
  /\ bins' = Without({e})
  /\ entry' = Freed({e})
  /\ UNCHANGED deleted

\* Mutant: the keys of the bin are not compared.
DeleteHead(e) ==
  LET head == CHOOSE x \in Entries(bins) \ Blank :
                \E n \in DOMAIN bins : e \in Range(bins[n]) /\ bins[n][1] = x
      d == IF \E n \in DOMAIN bins : e \in Range(bins[n]) /\ bins[n][1] \in Blank
           THEN e ELSE head
  IN \/ /\ iter_lev > 0
        /\ entry' = [entry EXCEPT ![d].key = Never, ![d].val = Never]
        /\ deleted' = TRUE
        /\ UNCHANGED bins
     \/ /\ iter_lev = 0
        /\ bins' = Without({d})
        /\ entry' = Freed({d})
        /\ UNCHANGED deleted

\* st_delete_safe while iterators run, st_delete otherwise.
DeleteEntry(e) ==
  \/ /\ iter_lev > 0
     /\ entry' = [entry EXCEPT ![e].key = Never, ![e].val = Never]
     /\ deleted' = TRUE
     /\ UNCHANGED bins
  \/ /\ iter_lev = 0
     /\ bins' = Without({e})
     /\ entry' = Freed({e})
     /\ UNCHANGED deleted

rb_hash_delete(k) ==
  /\ Allowed("delete")
  /\ Find(k) # 0
  /\ DeleteEntry(Find(k))
  /\ Left({Find(k)})
  /\ num_entries' = num_entries - 1
  /\ UNCHANGED <<size, iter_lev, iter, faults>>

\* The first entry is unlinked, whether iterators run or not.
rb_hash_shift ==
  /\ Allowed("shift")
  /\ Entries(bins) \ Blank # {}
  /\ LET e == SelectSeq(InOrder(bins), LAMBDA x : x \notin Blank)[1] IN
     bins' = Without({e}) /\ entry' = Freed({e}) /\ Left({e})
  /\ num_entries' = num_entries - 1
  /\ UNCHANGED <<size, deleted, iter_lev, iter, faults>>

\* Every entry is unlinked and counted, the blank ones too.
rb_hash_clear ==
  /\ Allowed("clear")
  /\ bins' = [i \in DOMAIN bins |-> <<>>]
  /\ entry' = Freed(Entries(bins))
  /\ num_entries' = num_entries - Cardinality(Entries(bins))
  /\ Left(Entries(bins))
  /\ UNCHANGED <<size, deleted, iter_lev, iter, faults>>

\* Hash#rehash: the entries that are not blank are inserted into a new table
\* of the size for num_entries.
rb_hash_rehash ==
  LET live == SelectSeq(InOrder(bins), LAMBDA e : e \notin Blank)
      fits == {i \in 1..Len(Sizes) : Sizes[i] > num_entries}
      sz == CHOOSE i \in fits : \A j \in fits : i <= j
  IN /\ Allowed("rehash")
     /\ fits # {}
     /\ entry' = Freed(Blank)
     /\ bins' = Chained(live, Sizes[sz], entry)
     /\ size' = sz
     /\ iter' = Replaced("table")
     /\ num_entries' = Len(live)
     /\ Left(Blank)
     /\ UNCHANGED <<deleted, iter_lev, faults>>

-----------------------------------------------------------------------------
(* Iteration.                                                              *)

\* The entries that st_foreach meets behind e in bins b.
Behind(e, b) ==
  LET all == InOrder(b) IN
  SubSeq(all, SelectInSeq(all, LAMBDA x : x = e) + 1, Len(all))

Ended(i) == /\ stays' = [stays EXCEPT ![i] = {}]
            /\ seen' = [seen EXCEPT ![i] = {}]

\* The iterator's next block call, among entries es still to come, or its end.
\* head tells whether st_foreach has no last entry for the bin of the first.
Proceed(i, es, b, kind, head) ==
  LET todo == SelectSeq(es, LAMBDA e : entry[e].key # Never)
      e == todo[1]
  IN IF todo = <<>> THEN
       /\ iter' = [iter EXCEPT ![i] = Idle]
       /\ iter_lev' = iter_lev - 1
       /\ faults' = faults \cup (IF stays[i] \ seen[i] # {} THEN {"missed"} ELSE {})
       /\ Ended(i)
     ELSE
       /\ iter' = [iter EXCEPT ![i] =
                     [kind |-> kind, e |-> e, changed |-> "same",
                      head |-> \/ \E n \in DOMAIN b : b[n] # <<>> /\ b[n][1] = e
                               \/ head /\ e = es[1]]]
       /\ iter_lev' = iter_lev
       /\ seen' = [seen EXCEPT ![i] = @ \cup {e}]
       /\ UNCHANGED stays
       /\ faults' = faults \cup (IF e \in seen[i] THEN {"twice"} ELSE {})

\* rb_hash_foreach_ensure: st_cleanup_safe when the last iteration has ended.
\* freed has been unlinked by the step itself.
Cleanup(b, freed) ==
  LET last == iter_lev' = 0 /\ deleted
      gone == IF last THEN Blank ELSE {}
  IN /\ bins' = [n \in DOMAIN b |-> SelectSeq(b[n], LAMBDA e : e \notin gone)]
     /\ entry' = Freed(gone \cup freed)
     /\ deleted' = (deleted /\ ~last)

\* each, each_pair, select ... or delete_if begins; its first block is called.
rb_hash_foreach(i, kind) ==
  /\ iter[i] = Idle
  /\ Allowed(kind)
  /\ Entries(bins) \ Blank # {}
  /\ stays' = [stays EXCEPT ![i] = Entries(bins) \ Blank]
  /\ LET first == SelectSeq(InOrder(bins), LAMBDA e : e \notin Blank)[1] IN
     /\ iter' = [iter EXCEPT ![i] =
                   [kind |-> kind, e |-> first, changed |-> "same",
                    head |-> \E n \in DOMAIN bins : bins[n] # <<>> /\ bins[n][1] = first]]
     /\ seen' = [seen EXCEPT ![i] = {first}]
  /\ iter_lev' = iter_lev + 1
  /\ UNCHANGED <<tableVars, deleted, faults>>

\* "rehash occurred during iteration": the addresses of tbl or bins differ.
Rehashed(i) == \/ iter[i].changed \in {"bins", "table"}
               \/ iter[i].changed = "again" /\ ~AddressesReused

\* The block returns, and the iterator goes on with ST_CONTINUE.
Continue(i) ==
  /\ iter[i] # Idle /\ ~Rehashed(i)
  /\ Proceed(i, Behind(iter[i].e, bins), bins, iter[i].kind, FALSE)
  /\ Cleanup(bins, {})
  /\ UNCHANGED <<size, num_entries>>

\* The block of delete_if returns true: ST_DELETE unlinks the entry, at the
\* head of the bin if there was no last entry.
DeleteIf(i) ==
  LET e == iter[i].e
      n == CHOOSE n \in DOMAIN bins : e \in Range(bins[n])
      after == [bins EXCEPT ![n] =
                  IF iter[i].head THEN SubSeq(@, SelectInSeq(@, LAMBDA x : x = e) + 1, Len(@))
                  ELSE SelectSeq(@, LAMBDA x : x # e)]
  IN /\ iter[i] # Idle /\ iter[i].kind = "delete_if" /\ ~Rehashed(i)
     /\ Proceed(i, Behind(e, bins), after, "delete_if", iter[i].head)
     /\ Cleanup(after, {e})
     /\ num_entries' = num_entries - 1
     /\ UNCHANGED size

\* The exception of Rehashed, break or an exception of the block.
Abort(i) ==
  /\ iter[i] # Idle
  /\ iter' = [iter EXCEPT ![i] = Idle]
  /\ iter_lev' = iter_lev - 1
  /\ Ended(i)
  /\ Cleanup(bins, {})
  /\ UNCHANGED <<size, num_entries, faults>>

Next ==
  \/ \E k \in Keys : rb_hash_delete(k) \/ \E v \in Vals : rb_hash_aset(k, v)
  \/ rb_hash_shift \/ rb_hash_clear \/ rb_hash_rehash
  \/ \E i \in Iterators : Continue(i) \/ DeleteIf(i) \/ Abort(i)
  \/ \E i \in Iterators, kind \in {"each", "delete_if"} : rb_hash_foreach(i, kind)

Spec == Init /\ [][Next]_vars

-----------------------------------------------------------------------------
(* Properties.                                                             *)

Live(k) == {e \in Entries(bins) : entry[e].key = k}

Contents == [k \in Keys |-> IF Live(k) = {} THEN Nil
                           ELSE entry[CHOOSE e \in Live(k) : TRUE].val]

Map == INSTANCE HashMap WITH map <- Contents

\* The hash implements HashMap, operation by operation: each changes the entry
\* of its key as HashMap says and no other one, and neither rehashing, the steps
\* and the end of iterations, blanked entries nor their cleanup add, lose or
\* change one.
MapSpec ==
  /\ Map!Init
  /\ [][\/ \E k \in Keys : \/ rb_hash_delete(k) /\ Map!Delete(k)
                           \/ \E v \in Vals : rb_hash_aset(k, v) /\ Map!Store(k, v)
        \/ rb_hash_clear /\ Map!Clear
        \/ rb_hash_shift /\ \E k \in Keys : Map!Delete(k)
        \/ \E i \in Running : DeleteIf(i) /\ Map!Delete(entry[iter[i].e].key)
        \/ (\/ rb_hash_rehash
            \/ \E i \in Iterators : \/ Continue(i) \/ Abort(i)
                                   \/ rb_hash_foreach(i, "each")
                                   \/ rb_hash_foreach(i, "delete_if")) /\ UNCHANGED Contents
       ]_vars

\* Every entry is where st_lookup looks for its key, and the only one with it:
\* also after the bins have grown or entries have been blanked.
LookupFinds == \A e \in Entries(bins) \ Blank : Find(entry[e].key) = e /\ Live(entry[e].key) = {e}

\* The entry at which an iterator stands is in the table, or the iterator will
\* notice a rehash: st_foreach never follows the pointer of a freed entry, unless
\* two changes of one block have brought the old addresses back
\* (AddressesReused).
IteratorOnEntry ==
  \A i \in Running : Rehashed(i) \/ iter[i].e \in Entries(bins)

\* A completed iteration has run its block exactly once for every entry that
\* stayed in the table, whatever was stored and deleted meanwhile, when it has
\* noticed every rehash (not AddressesReused).
EachVisitsAll == faults = {}

\* Hash#size counts the entries that are not blank, and no blank entry outlives
\* the iterations.
SizeExact ==
  /\ num_entries = Cardinality(Entries(bins) \ Blank)
  /\ iter_lev = 0 => Blank = {}

\* The table is sound at every step of any number of running iterations.
TableSound == LookupFinds /\ IteratorOnEntry /\ SizeExact
=============================================================================
