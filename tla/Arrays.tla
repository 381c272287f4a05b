-------------------------------- MODULE Arrays --------------------------------
(***************************************************************************)
(* The allocator and the arrays (fstd/system/allocator.cpp and             *)
(* fstd/memory/array.hpp), which the strings and the stacks are.           *)
(*                                                                         *)
(* A heap is the blocks that are allocated, by address, and the next       *)
(* address: an address is never used again, and a reallocation always      *)
(* moves the block, as HeapReAlloc may do.  Every operation returns the    *)
(* heap and the array.                                                     *)
(***************************************************************************)
EXTENDS Integers, Sequences

Unset == -2
nullptr == 0
EmptyHeap == [block |-> <<>>, next |-> 1]
Allocated(heap) == DOMAIN heap.block
init == [ptr |-> nullptr, size |-> 0]

----------------------------------------------------------------------------
(* The allocator *)

Without(heap, ptr) ==
  [heap EXCEPT !.block = [p \in Allocated(heap) \ {ptr} |-> heap.block[p]]]
Resized(cells, count) ==
  [i \in 1 .. count |-> IF i <= Len(cells) THEN cells[i] ELSE Unset]
reallocate(heap, ptr, count) ==
  LET rest  == Without(heap, ptr)
      cells == IF ptr = nullptr THEN <<>> ELSE heap.block[ptr]
  IN  [heap |-> [block |-> [p \in Allocated(rest) \cup {heap.next} |->
                              IF p = heap.next THEN Resized(cells, count)
                                               ELSE heap.block[p]],
                 next  |-> heap.next + 1],
       ptr  |-> heap.next]
free(heap, ptr) == IF ptr = nullptr THEN heap ELSE Without(heap, ptr)

----------------------------------------------------------------------------
(* Arrays *)

Reserved(heap, array) ==
  IF array.ptr = nullptr THEN 0 ELSE Len(heap.block[array.ptr])
Elements(heap, array) ==
  IF array.ptr = nullptr THEN <<>>
  ELSE SubSeq(heap.block[array.ptr], 1, array.size)

reserve_array(heap, array, count) ==
  IF Reserved(heap, array) >= count THEN [heap |-> heap, array |-> array]
  ELSE LET moved == reallocate(heap, array.ptr, count)
       IN  [heap |-> moved.heap, array |-> [array EXCEPT !.ptr = moved.ptr]]

resize_array(heap, array, count) ==
  LET reserved == reserve_array(heap, array, count)
  IN  [reserved EXCEPT !.array.size = count]

release(heap, array) == [heap |-> free(heap, array.ptr), array |-> init]

\* The elements of the array from index on, which starts at 0.
Written(state, index, values) ==
  IF values = <<>> THEN state
  ELSE [state EXCEPT !.heap.block[state.array.ptr] =
          [i \in DOMAIN @ |-> IF i - index \in DOMAIN values
                                THEN values[i - index] ELSE @[i]]]

array_push_back(heap, array, value) ==
  LET reserved == reserve_array(heap, array, array.size + 1)
  IN  [Written(reserved, array.size, <<value>>) EXCEPT !.array.size = @ + 1]

array_copy(heap, array, index, values) ==
  Written(resize_array(heap, array, index + Len(values)), index, values)

\* Strings, which are arrays of bytes: from a literal, that ends with a zero
\* which is not copied, and from another string.
assign(heap, string, literal) == array_copy(heap, string, 0, literal)
copy(heap, string, position, bytes) == array_copy(heap, string, position, bytes)
=============================================================================
