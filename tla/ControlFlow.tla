----------------------------- MODULE ControlFlow -----------------------------
(***************************************************************************)
(* The control-flow analysis of app/analyze_main.c: a worklist of points,  *)
(* walked along one path at a time and bounded by a number of decoded      *)
(* instructions.  A point is an address with the static width state and    *)
(* the return words the path is known to have pushed.                      *)
(***************************************************************************)
EXTENDS Decoder, Sequences

CONSTANTS Size,       \* addresses of the bank, which wrap around
          Code,       \* opcodes a program may hold; -1 is unmapped memory
          Masks,      \* operand bytes of its REP and SEP
          Limits,     \* values of the command line's instruction limit
          MaxWords    \* return words a point can hold (8 in the code)

ASSUME FlowAssumption ==
  /\ Size \in Nat \ {0} /\ Limits \subseteq Nat \ {0} /\ MaxWords \in Nat
  /\ Code \subseteq -1 .. 255

VARIABLES program,     \* what each address holds, chosen when it is first read
          options,     \* limit and follow_calls
          queue, queue_head, visited, calls, edge_count,
          point,       \* where the path is
          stage,       \* "next" path, on a "path", or "done"
          blocked      \* blocked_count

flowVars == <<program, options, queue, queue_head, visited, calls, edge_count, point, stage, blocked>>

Addresses == 0 .. Size - 1
Unread == [op |-> 256, mask |-> 0, target |-> 0]
Instructions ==
  {[op |-> op, mask |-> m, target |-> t] :
     op \in Code, m \in Masks, t \in Addresses}
\* One choice for an operand the opcode does not have.
Plain(i) ==
  /\ i.op \notin {\hC2, \hE2} => \A m \in Masks : i.mask <= m
  /\ FlowOf(i.op) \notin {"conditional", "branch", "jump", "call"} /\ i.op \notin {\hF4, \h62} => i.target = 0
Readable == {i \in Instructions : Plain(i)}

NoWords == <<>>
Points ==
  [address : Addresses, state : Static, depth : Nat, known : 0 .. 1, words : Seq(Addresses)]

\* Mutant: one entry for each instruction of the limit.
QueueCapacitySmall == options.limit
QueueCapacity == options.limit * 4 + 16
EdgeCapacity == options.limit * 2 + 16

\* The start's return_depth is never written: any byte.  The vector's address
\* is 0: the bank wraps around, so all are alike.
FlowInit ==
  /\ program = [a \in Addresses |-> Unread]
  /\ options \in [limit : Limits, follow : BOOLEAN]
  /\ \E state \in {ResetEntry, NativeEntry}, depth \in {0, 255} :
       queue = <<[address |-> 0, state |-> state, depth |-> depth, known |-> 0, words |-> NoWords]>>
  /\ queue_head = 0 /\ visited = <<>> /\ calls = <<>> /\ edge_count = 0
  /\ point = queue[1] /\ stage = "next" /\ blocked = 0

-----------------------------------------------------------------------------
WithStack(p, known, words, depth) == [p EXCEPT !.known = known, !.words = words, !.depth = depth]

Pushed(p, word) ==
  IF p.known = 1 /\ p.depth < MaxWords THEN WithStack(p, 1, Append(p.words, word), p.depth + 1)
  ELSE WithStack(p, 0, NoWords, p.depth)

\* track_stack_effect: TXS and TCS, PEA and PER, and the other pushes and pulls.
Tracked(p, i) ==
  CASE i.op \in {\h9A, \h1B} -> WithStack(p, 1, NoWords, 0)
    [] i.op \in {\hF4, \h62} -> Pushed(p, i.target)
    [] i.op \in {\h08, \h0B, \h28, \h2B, \h48, \h4B, \h5A, \h68, \h7A, \h8B, \hAB, \hD4, \hDA, \hFA} ->
         WithStack(p, 0, NoWords, p.depth)
    [] OTHER -> p

\* The path's state after the instruction, at the same address.
After(p, i) == Tracked([p EXCEPT !.state = Apply(p.state, i.op, i.mask)], i)

At(p, address) == [p EXCEPT !.address = address % Size]
Onward(p, i) == At(After(p, i), p.address + DecodedLength(i.op, p.state))
Taken(p, i) == At(After(p, i), i.target)
Callee(p, i) == WithStack(Taken(p, i), 0, NoWords, 0)

\* An RTS to a word the path has pushed.
Returned(p) ==
  At(WithStack(p, 1, SubSeq(p.words, 1, Len(p.words) - 1), p.depth - 1), p.words[Len(p.words)] + 1)
ReturnsToWord(p, i) == i.op = \h60 /\ p.known = 1 /\ p.depth > 0

\* dkc2_decode_instruction fails: unmapped bytes or an unknown width.
Undecodable(p, i) == i.op # -1 => DecodedLength(i.op, p.state) = 0

\* Mutant: a point is known by its address.
AlreadyVisitedByAddress(p) == \E k \in DOMAIN visited : visited[k].address = p.address
AlreadyVisited(p) == \E k \in DOMAIN visited : visited[k] = p

\* Mutant: the head of the queue does not move.
TakePathAgain ==
  /\ stage = "next" /\ queue_head < Len(queue) /\ Len(visited) < options.limit
  /\ point' = queue[queue_head + 1]
  /\ stage' = "path"
  /\ UNCHANGED <<program, options, queue, queue_head, visited, calls, edge_count, blocked>>

TakePath ==
  /\ stage = "next" /\ queue_head < Len(queue) /\ Len(visited) < options.limit
  /\ point' = queue[queue_head + 1] /\ queue_head' = queue_head + 1
  /\ stage' = "path"
  /\ UNCHANGED <<program, options, queue, visited, calls, edge_count, blocked>>

Finish ==
  /\ stage = "next" /\ ~(queue_head < Len(queue) /\ Len(visited) < options.limit)
  /\ stage' = "done"
  /\ UNCHANGED <<program, options, queue, queue_head, visited, calls, edge_count, point, blocked>>

\* The inner loop ends at its limit or at a point that has been there.
Meet ==
  /\ stage = "path" /\ (Len(visited) >= options.limit \/ AlreadyVisited(point))
  /\ stage' = "next"
  /\ UNCHANGED <<program, options, queue, queue_head, visited, calls, edge_count, point, blocked>>

Reads(i) ==
  /\ IF program[point.address] = Unread THEN i \in Readable ELSE i = program[point.address]
  /\ program' = [program EXCEPT ![point.address] = i]

Decode(i) ==
  /\ stage = "path" /\ Len(visited) < options.limit /\ ~AlreadyVisited(point)
  /\ Reads(i)
  /\ visited' = Append(visited, point)
  /\ UNCHANGED <<options, queue_head>>

Continue(p, edges) ==
  /\ point' = p /\ edge_count' = IF edge_count + edges <= EdgeCapacity THEN edge_count + edges ELSE EdgeCapacity
  /\ UNCHANGED <<stage, blocked>>

EndPath == stage' = "next" /\ UNCHANGED <<point, edge_count>>
Queue(p) == queue' = IF Len(queue) < QueueCapacity THEN Append(queue, p) ELSE queue

Block(i) ==
  /\ Decode(i) /\ Undecodable(point, i)
  /\ blocked' = blocked + 1 /\ EndPath
  /\ UNCHANGED <<queue, calls>>

Conditional(i) ==
  /\ Decode(i) /\ ~Undecodable(point, i) /\ FlowOf(i.op) = "conditional"
  /\ Queue(Taken(point, i)) /\ Continue(Onward(point, i), 2)
  /\ UNCHANGED calls

Jump(i) ==
  /\ Decode(i) /\ ~Undecodable(point, i) /\ FlowOf(i.op) \in {"branch", "jump"}
  /\ Continue(Taken(point, i), 1)
  /\ UNCHANGED <<queue, calls>>

DirectCall(i) ==
  /\ Decode(i) /\ ~Undecodable(point, i) /\ FlowOf(i.op) = "call"
  /\ LET site == <<point.address, i.target>> IN
     calls' = IF site \in {calls[k] : k \in DOMAIN calls} \/ Len(calls) >= options.limit
              THEN calls ELSE Append(calls, site)
  /\ IF options.follow THEN Queue(Callee(point, i)) ELSE UNCHANGED queue
  /\ Continue(Onward(point, i), 2)

Advance(i) ==
  /\ Decode(i) /\ ~Undecodable(point, i) /\ FlowOf(i.op) \in {"next", "indirectCall"}
  /\ Continue(Onward(point, i), 1)
  /\ UNCHANGED <<queue, calls>>

StackReturn(i) ==
  /\ Decode(i) /\ ~Undecodable(point, i) /\ FlowOf(i.op) \in {"return", "indirectJump"}
  /\ ReturnsToWord(point, i)
  /\ Continue(Returned(After(point, i)), 1)
  /\ UNCHANGED <<queue, calls>>

Leave(i) ==
  /\ Decode(i) /\ ~Undecodable(point, i)
  /\ \/ FlowOf(i.op) \in {"return", "indirectJump"} /\ ~ReturnsToWord(point, i)
     \/ FlowOf(i.op) \in {"trap", "stop"}
  /\ EndPath
  /\ UNCHANGED <<queue, calls, blocked>>

Instruction(i) ==
  Block(i) \/ Conditional(i) \/ Jump(i) \/ DirectCall(i) \/ Advance(i) \/ StackReturn(i) \/ Leave(i)

FlowNext == TakePath \/ Finish \/ Meet \/ \E i \in Readable : Instruction(i)

FlowSpec == FlowInit /\ [][FlowNext]_flowVars

-----------------------------------------------------------------------------
FlowTypeOK ==
  /\ options \in [limit : Limits, follow : BOOLEAN]
  /\ queue \in Seq(Points) /\ visited \in Seq(Points) /\ point \in Points
  /\ calls \in Seq(Addresses \X Addresses)
  /\ queue_head \in 0 .. Len(queue) /\ edge_count \in 0 .. EdgeCapacity /\ blocked \in Nat
  /\ stage \in {"next", "path", "done"}

\* The arrays are sized so that queue, record_edge and record_call never find
\* theirs full: no path, edge or call site is silently dropped.
RoomIsLeft ==
  stage = "path" /\ Len(visited) < options.limit =>
    /\ Len(queue) < QueueCapacity /\ edge_count + 2 <= EdgeCapacity
    /\ Len(calls) < options.limit

\* Where execution can go from a point the analysis has decoded.
Successors(p) ==
  LET i == program[p.address] IN
  IF Undecodable(p, i) THEN {} ELSE
  CASE FlowOf(i.op) = "conditional" -> {Taken(p, i), Onward(p, i)}
    [] FlowOf(i.op) \in {"branch", "jump"} -> {Taken(p, i)}
    [] FlowOf(i.op) = "call" -> {Onward(p, i)} \cup IF options.follow THEN {Callee(p, i)} ELSE {}
    [] FlowOf(i.op) \in {"next", "indirectCall"} -> {Onward(p, i)}
    [] FlowOf(i.op) \in {"return", "indirectJump"} -> IF ReturnsToWord(p, i) THEN {Returned(After(p, i))} ELSE {}
    [] OTHER -> {}

\* An analysis that ends below its limit has decoded all that is reachable
\* from the vector; at any time it has decoded nothing else and nothing twice.
DecodesTheReachable ==
  /\ stage = "done" /\ Len(visited) < options.limit =>
       \A k \in DOMAIN visited : Successors(visited[k]) \subseteq {visited[j] : j \in DOMAIN visited}
  /\ \A k \in DOMAIN visited :
       /\ k = 1 \/ \E j \in 1 .. k - 1 : visited[k] \in Successors(visited[j])
       /\ \A j \in 1 .. k - 1 : visited[j] # visited[k]
=============================================================================
