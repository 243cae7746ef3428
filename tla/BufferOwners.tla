---------------------------- MODULE BufferOwners ----------------------------
(***************************************************************************)
(* Who frees what: vector_downward, DetachedBuffer and the allocators they *)
(* share.  An object (a vector or a detached buffer) is a record of its    *)
(* allocator, whether it owns that allocator, and the block of memory it   *)
(* holds; what is in the block is VectorDownward's subject.                *)
(***************************************************************************)
EXTENDS Integers, FiniteSets

CONSTANTS Vectors,      \* names of vector_downward objects
          Boxes,        \* names of DetachedBuffer objects
          Blocks,       \* the memory blocks there can be at once
          Allocators,   \* the caller's Allocator objects
          NoBlock,      \* a null buf_
          Default,      \* a null allocator_: new and delete
          Nobody        \* the maker of a block that is free

ASSUME OwnersConstants == /\ Vectors \cap Boxes = {}
                          /\ NoBlock \notin Blocks
                          /\ Default \notin Allocators
                          /\ Nobody \notin Allocators \cup {Default}

VARIABLES holder,   \* the objects
          maker,    \* the allocator a live block came from
          alive,    \* the allocators not deleted yet
          raw       \* blocks release_raw() gave to the caller

owners == <<holder, maker, alive, raw>>

Objects == Vectors \cup Boxes
Lives == {"none", "live", "moved"}
Gone == [life |-> "none", alloc |-> Default, own |-> FALSE, buf |-> NoBlock]

Is(o, life) == holder[o].life = life

Free == {b \in Blocks : maker[b] = Nobody}

Holding(h, b) == [life |-> h.life, alloc |-> h.alloc, own |-> h.own, buf |-> b]

\* Deallocate() of the block an object has, if any.
Freed(m, h) == [b \in Blocks |-> IF b = h.buf THEN Nobody ELSE m[b]]

\* "if (own_allocator_ && allocator_) delete allocator_".
Deleted(as, h) == IF h.own THEN as \ {h.alloc} ELSE as

OwnersInit == /\ holder = [o \in Objects |-> Gone]
              /\ maker = [b \in Blocks |-> Nobody]
              /\ alive = Allocators
              /\ raw = {}

\* The constructor; a caller that hands over an allocator uses it nowhere else.
Construct(v) ==
    /\ Is(v, "none")
    /\ \E a \in alive \cup {Default}, own \in BOOLEAN :
          /\ own => a # Default
          /\ \A o \in Objects : holder[o].alloc = a => a = Default
          /\ holder' = [holder EXCEPT
                ![v] = [life |-> "live", alloc |-> a, own |-> own, buf |-> NoBlock]]
    /\ UNCHANGED <<maker, alive, raw>>

\* reallocate(): a block from the vector's allocator, the old one back to it.
\* An object that was moved from is only destroyed or assigned to.
Grow(v) ==
    /\ Is(v, "live")
    /\ \E b \in Free :
          /\ holder' = [holder EXCEPT ![v] = Holding(@, b)]
          /\ maker' = [Freed(maker, holder[v]) EXCEPT ![b] = holder[v].alloc]
    /\ UNCHANGED <<alive, raw>>

\* What a move constructor leaves behind: allocator_ still points to the
\* allocator, no longer owned.
MovedFrom(h) == [life |-> "moved", alloc |-> h.alloc, own |-> FALSE, buf |-> NoBlock]

MoveConstruct(v, w) ==
    /\ Is(v, "none") /\ Is(w, "live")
    /\ holder' = [holder EXCEPT ![v] = holder[w], ![w] = MovedFrom(holder[w])]
    /\ UNCHANGED <<maker, alive, raw>>

\* temp(std::move(other)); swap(temp): the old contents die with temp.  To
\* itself it changes nothing.
MoveAssign(v, w) ==
    /\ v # w /\ ~Is(v, "none") /\ Is(w, "live")
    /\ holder' = [holder EXCEPT ![v] = holder[w], ![w] = MovedFrom(holder[w])]
    /\ maker' = Freed(maker, holder[v])
    /\ alive' = Deleted(alive, holder[v])
    /\ UNCHANGED raw

Swap(v, w) ==
    /\ ~Is(v, "none") /\ ~Is(w, "none")
    /\ holder' = [holder EXCEPT ![v] = holder[w], ![w] = holder[v]]
    /\ UNCHANGED <<maker, alive, raw>>

\* grpc::MessageBuilder(FlatBufferBuilder &&src): Swap(), SwapBufAllocator(),
\* and the slice allocator of m adopts the block of src, whose allocator has
\* to be the default one.
Adopt(m, src) ==
    /\ m # src /\ Is(m, "live") /\ Is(src, "live")
    /\ holder[m].alloc # Default /\ ~holder[m].own /\ holder[m].buf = NoBlock
    /\ holder[src].alloc = Default
    /\ holder' = [holder EXCEPT ![m] = Holding(@, holder[src].buf), ![src] = Holding(@, NoBlock)]
    /\ maker' = [b \in Blocks |-> IF b = holder[src].buf THEN holder[m].alloc ELSE maker[b]]
    /\ UNCHANGED <<alive, raw>>

\* Mutant: the detached buffer does not learn who made the block.
ReleaseNameless(v, d) ==
    /\ Is(v, "live") /\ Is(d, "none")
    /\ holder' = [holder EXCEPT
          ![d] = [life |-> "live", alloc |-> Default, own |-> FALSE, buf |-> holder[v].buf],
          ![v] = Holding(@, NoBlock)]
    /\ UNCHANGED <<maker, alive, raw>>

\* release(): the block goes to a new detached buffer, with the allocator if
\* the vector owned it.
Release(v, d) ==
    /\ Is(v, "live") /\ Is(d, "none")
    /\ holder' = [holder EXCEPT
          ![d] = holder[v],
          ![v] = [life |-> "live", alloc |-> IF holder[v].own THEN Default ELSE holder[v].alloc,
                  own |-> FALSE, buf |-> NoBlock]]
    /\ UNCHANGED <<maker, alive, raw>>

\* release_raw(): the block alone goes to the caller.
ReleaseRaw(v) ==
    /\ Is(v, "live") /\ holder[v].buf # NoBlock
    /\ raw' = raw \cup {holder[v].buf}
    /\ holder' = [holder EXCEPT ![v] = Holding(@, NoBlock)]
    /\ UNCHANGED <<maker, alive>>

FreeRaw(b) == /\ b \in raw
              /\ raw' = raw \ {b}
              /\ maker' = [maker EXCEPT ![b] = Nobody]
              /\ UNCHANGED <<holder, alive>>

Reset(v) == /\ Is(v, "live")
            /\ maker' = Freed(maker, holder[v])
            /\ holder' = [holder EXCEPT ![v] = Holding(@, NoBlock)]
            /\ UNCHANGED <<alive, raw>>

\* Either destructor.  A caller destroys what uses its allocator before the
\* allocator, so no object is left when a lent allocator goes away: nothing to
\* model but the owned ones.
Destroy(o) == /\ ~Is(o, "none")
              /\ maker' = Freed(maker, holder[o])
              /\ alive' = Deleted(alive, holder[o])
              /\ holder' = [holder EXCEPT ![o] = Gone]
              /\ UNCHANGED raw

\* Mutant: the old contents are overwritten.
BoxMoveLeaks(d, e) == /\ d # e /\ Is(e, "live")
                      /\ holder' = [holder EXCEPT ![d] = holder[e], ![e] = Gone]
                      /\ UNCHANGED <<maker, alive, raw>>

\* DetachedBuffer's move assignment (its move constructor assigns to an empty
\* one): destroy(), take the members, reset() the other, which is then as if
\* it had never been made.
BoxMove(d, e) ==
    /\ d # e /\ Is(e, "live")
    /\ maker' = Freed(maker, holder[d])
    /\ alive' = Deleted(alive, holder[d])
    /\ holder' = [holder EXCEPT ![d] = holder[e], ![e] = Gone]
    /\ UNCHANGED raw

OwnersNext ==
    \/ \E v \in Vectors : Construct(v) \/ Grow(v) \/ ReleaseRaw(v) \/ Reset(v)
    \/ \E v, w \in Vectors : \/ MoveConstruct(v, w) \/ MoveAssign(v, w)
                             \/ Swap(v, w) \/ Adopt(v, w)
    \/ \E v \in Vectors, d \in Boxes : Release(v, d)
    \/ \E d, e \in Boxes : BoxMove(d, e)
    \/ \E o \in Objects : Destroy(o)
    \/ \E b \in Blocks : FreeRaw(b)

OwnersSpec == OwnersInit /\ [][OwnersNext]_owners
-----------------------------------------------------------------------------
HoldersOf(b) == {o \in Objects : holder[o].buf = b}
OwnersOf(a) == {o \in Objects : holder[o].own /\ holder[o].alloc = a}

(* vector_downward and DetachedBuffer: however buffers and allocators are
   moved, swapped, adopted, released and reset, every live block has exactly
   one holder, so it is freed once and not lost, and a freed block has none;
   and an allocator that was handed over is deleted by its one owner. *)
OneHolder ==
    /\ \A b \in Blocks :
          Cardinality(HoldersOf(b)) + (IF b \in raw THEN 1 ELSE 0)
              = (IF maker[b] = Nobody THEN 0 ELSE 1)
    /\ \A a \in Allocators : /\ Cardinality(OwnersOf(a)) <= 1
                             /\ OwnersOf(a) # {} => a \in alive

(* ... and the allocator an object will give its block back to is the one the
   block came from, and it still exists. *)
BackToItsMaker ==
    \A o \in Objects : holder[o].buf # NoBlock =>
        /\ holder[o].alloc = maker[holder[o].buf]
        /\ holder[o].alloc \in alive \cup {Default}
=============================================================================
