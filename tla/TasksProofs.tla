---------------------------- MODULE TasksProofs ----------------------------
(***************************************************************************)
(* Machine-checked proofs about Tasks, for every set of coroutines, types  *)
(* of request, results and return codes.                                   *)
(*                                                                         *)
(* What makes the nested calls safe is the shape of the call stack: a      *)
(* coroutine has one call on it at most; what the library does at once is  *)
(* on top; and below the await_suspend of p there is no final_suspend that *)
(* has already resumed its awaiter and belongs to the task p awaits.       *)
(***************************************************************************)
EXTENDS Tasks, ErrorCodesProofs, SequenceTheorems

-----------------------------------------------------------------------------
(* Stacks of calls <<step, t>>, innermost first.                           *)

Frames(q) == {q[k] : k \in DOMAIN q}

\* A coroutine has one call at most.
Single(q) == \A j, k \in DOMAIN q : q[j][2] = q[k][2] => j = k

\* Steps during which other coroutines may run.
DeepSteps == {"body", "suspend", "final_rest"}
AllDeep(q) == \A k \in DOMAIN q : q[k][1] \in DeepSteps

\* All but the innermost are such steps.
Nested(q) == \A k \in DOMAIN q : k > 1 => q[k][1] \in DeepSteps

\* Below the await_suspend of p, the task p awaits (says tgt) is not past
\* resuming its awaiter.
Ordered(q, tgt) ==
  \A j, k \in DOMAIN q :
    j > k /\ q[k][1] = "suspend" /\ q[j][2] = tgt[q[k][2]] => q[j][1] # "final_rest"

-----------------------------------------------------------------------------
(* The inductive invariant.                                                *)

StackInv == Single(stack) /\ Nested(stack)

\* What a call on the stack says of its coroutine.
FrameOK(s, t) ==
  /\ s = "body" => coro[t] = "running"
  /\ s \in {"suspend", "resumed"} => coro[t] = "await"
  /\ s = "resumed" => returned[target[t]] # None /\ coro[target[t]] \in {"returning", "freed"}
  /\ s = "response" => coro[t] \in {"running", "io"}
  /\ s \in {"final_suspend", "final_rest"} => coro[t] = "returning"

FrameInv == \A f \in Frames(stack) : FrameOK(f[1], f[2])

OffStack(t) == \A f \in Frames(stack) : f[2] # t

\* A coroutine that is returning is on the stack; one that awaits holds the
\* task it awaits, which has been started.
CoroInv ==
  \A t \in Tasks :
    /\ coro[t] = "returning" => <<"final_suspend", t>> \in Frames(stack)
                                \/ <<"final_rest", t>> \in Frames(stack)
    /\ coro[t] = "await" => /\ target[t] \in Tasks /\ Owns(t, target[t])
                            /\ coro[target[t]] \notin {"none", "initial"}

\* The EvTask and its TaskStatus against the coroutine.
ObjectInv ==
  \A t \in Tasks :
    /\ object[t] = "alive" => coro[t] # "none" /\ (coro[t] = "initial" \/ started_coro[t])
    /\ started_coro[t] => coro[t] \notin {"none", "initial"}
    /\ handler_done[t] => coro[t] = "freed"
    /\ owner[t] # t

\* The code in the TaskStatus is what the coroutine has returned, if it has.
ReturnInv ==
  \A t \in Tasks :
    /\ ret_code[t] = IF returned[t] \in {None, Exception} THEN 0 ELSE returned[t]
    /\ coro[t] \notin {"returning", "freed"} => returned[t] = None
    /\ coro[t] \in {"returning", "freed"} /\ object[t] = "alive" => returned[t] # None

\* Whom final_suspend is going to resume is suspended in co_await t and not on
\* the stack.
HandleInv ==
  \A t \in Tasks :
    awaiter_handle[t] # None /\ <<"final_rest", t>> \notin Frames(stack) =>
      /\ coro[awaiter_handle[t]] = "await" /\ target[awaiter_handle[t]] = t
      /\ OffStack(awaiter_handle[t])

\* AwaiterKnown, in terms of Frames.
KnownInv ==
  \A p \in Tasks : coro[p] = "await" =>
    \/ <<"suspend", p>> \in Frames(stack) \/ <<"resumed", p>> \in Frames(stack)
    \/ /\ awaiter_handle[target[p]] = p
       /\ \/ coro[target[p]] \in {"running", "io", "await"}
          \/ <<"final_suspend", target[p]>> \in Frames(stack)

\* Without the usage await_again.
PlainInv == Admit = {} => Ordered(stack, target) /\ KnownInv

AtResponse == stack # <<>> /\ Head(stack)[1] = "response"

\* The response the coroutine on top of the stack is going to get is its own.
ResponseInv ==
  /\ DOMAIN com_data = Tasks
  /\ IF AtResponse
     THEN LET t == Head(stack)[2] IN
          \/ is_there_an_error(error) /\ op[t] # "generic"
          \/ /\ error = no_error
             /\ completion \in [type : Types, res : Results]
             /\ op[t] \in {completion.type, "generic"}
             /\ com_data[t] = response_pack(completion.type, completion.res, Fd)
     ELSE error = no_error

IInv ==
  /\ TypeOK /\ StackInv /\ FrameInv /\ CoroInv /\ ObjectInv /\ StatusAgrees /\ ReturnInv
  /\ HandleInv /\ PlainInv /\ ResponseInv /\ NoDangling

-----------------------------------------------------------------------------
(* What calls and returns do to a stack.                                   *)

\* A call returns: the rest of the stack is as it was.
LEMMA TailStack ==
  ASSUME NEW q \in Seq(Steps \X Tasks), q # <<>>, Single(q), Nested(q)
  PROVE  /\ Tail(q) \in Seq(Steps \X Tasks) /\ Single(Tail(q)) /\ AllDeep(Tail(q))
         /\ Head(q) \in Frames(q) /\ Frames(Tail(q)) = Frames(q) \ {Head(q)}
         /\ \A f \in Frames(Tail(q)) : f[2] # Head(q)[2]
         /\ \A tgt : Ordered(q, tgt) => Ordered(Tail(q), tgt)
<1> DEFINE L == Len(q)
           r == Tail(q)
<1>1. /\ r \in Seq(Steps \X Tasks) /\ L \in Nat \ {0} /\ DOMAIN q = 1..L
      /\ DOMAIN r = 1..(L - 1) /\ \A k \in 1..(L - 1) : r[k] = q[k + 1]
      /\ Head(q) = q[1]
  BY HeadTailProperties, EmptySeq, LenProperties
<1> HIDE DEF L, r
<1>2. \A k \in DOMAIN r : k + 1 \in DOMAIN q /\ k + 1 > 1 /\ r[k] = q[k + 1] /\ k \in Int
  BY <1>1
<1>3. 1 \in DOMAIN q /\ \A k \in DOMAIN q : k # 1 => k - 1 \in DOMAIN r /\ r[k - 1] = q[k]
  <2>1. \A k \in 1..L : k # 1 => k - 1 \in 1..(L - 1) /\ (k - 1) + 1 = k
    BY <1>1
  <2>. QED  BY <2>1, <1>1
<1>4. Single(r)
  <2> SUFFICES ASSUME NEW j \in DOMAIN r, NEW k \in DOMAIN r, r[j][2] = r[k][2]
               PROVE  j = k
    BY DEF Single
  <2>1. j + 1 = k + 1
    BY <1>2 DEF Single
  <2>. QED  BY <2>1, <1>2
<1>5. AllDeep(r)
  BY <1>2 DEF AllDeep, Nested
<1>6. Head(q) \in Frames(q)
  BY <1>1, <1>3 DEF Frames
<1>7. \A f \in Frames(r) : f \in Frames(q) /\ f[2] # Head(q)[2]
  <2> SUFFICES ASSUME NEW k \in DOMAIN r
               PROVE  r[k] \in Frames(q) /\ r[k][2] # q[1][2]
    BY <1>1 DEF Frames
  <2>1. k + 1 \in DOMAIN q /\ r[k] = q[k + 1] /\ k + 1 # 1
    BY <1>2
  <2>. QED  BY <2>1, <1>3 DEF Frames, Single
<1>8. \A f \in Frames(q) : f = Head(q) \/ f \in Frames(r)
  BY <1>1, <1>3 DEF Frames
<1>9. ASSUME NEW tgt, Ordered(q, tgt)
      PROVE  Ordered(r, tgt)
  <2> SUFFICES ASSUME NEW j \in DOMAIN r, NEW k \in DOMAIN r, j > k,
                      r[k][1] = "suspend", r[j][2] = tgt[r[k][2]]
               PROVE  r[j][1] # "final_rest"
    BY DEF Ordered
  <2>1. j + 1 > k + 1
    BY <1>2
  <2>. QED  BY <2>1, <1>2, <1>9 DEF Ordered
<1>. QED  BY <1>1, <1>4, <1>5, <1>6, <1>7, <1>8, <1>9 DEF r

\* A call for a coroutine that is not on the stack.
LEMMA CallStack ==
  ASSUME NEW q \in Seq(Steps \X Tasks), Single(q), AllDeep(q),
         NEW s \in Steps, NEW t \in Tasks, \A f \in Frames(q) : f[2] # t
  PROVE  /\ Call(s, t, q) \in Seq(Steps \X Tasks) /\ Call(s, t, q) # <<>>
         /\ Head(Call(s, t, q)) = <<s, t>>
         /\ Single(Call(s, t, q)) /\ Nested(Call(s, t, q))
         /\ s \in DeepSteps => AllDeep(Call(s, t, q))
         /\ Frames(Call(s, t, q)) = Frames(q) \cup {<<s, t>>}
         /\ \A tgt : Ordered(q, tgt)
                    /\ (s = "suspend" =>
                          \A f \in Frames(q) : f[2] = tgt[t] => f[1] # "final_rest")
                    => Ordered(Call(s, t, q), tgt)
<1> DEFINE e == <<s, t>>
           L == Len(q)
           c == <<e>> \o q
<1>1. e \in Steps \X Tasks /\ e[1] = s /\ e[2] = t /\ Call(s, t, q) = c
  BY DEF Call
<1> HIDE DEF e
<1>2. L \in Nat /\ DOMAIN q = 1..L /\ <<e>> \in Seq(Steps \X Tasks) /\ Len(<<e>>) = 1
      /\ <<e>>[1] = e
  BY <1>1, LenProperties
<1>3. /\ c \in Seq(Steps \X Tasks) /\ Len(c) = 1 + L
      /\ \A k \in 1..(1 + L) : c[k] = IF k <= 1 THEN <<e>>[k] ELSE q[k - 1]
  BY <1>2, ConcatProperties
<1> HIDE DEF L, c
<1>4. DOMAIN c = 1..(1 + L) /\ 1 \in DOMAIN c /\ c[1] = e
      /\ \A k \in DOMAIN c : k \in Int /\ k >= 1
                           /\ (k # 1 => k > 1 /\ k - 1 \in DOMAIN q /\ c[k] = q[k - 1])
  <2>1. DOMAIN c = 1..(1 + L)
    BY <1>3, LenProperties
  <2>2. \A k \in 1..(1 + L) : k \in Int /\ k >= 1 /\ (k # 1 => k > 1 /\ ~(k <= 1) /\ k - 1 \in 1..L)
    BY <1>2
  <2>3. 1 \in 1..(1 + L) /\ 1 <= 1
    BY <1>2
  <2>. QED  BY <2>1, <2>2, <2>3, <1>2, <1>3
<1>5. \A k \in DOMAIN q : k + 1 \in DOMAIN c /\ c[k + 1] = q[k]
  <2>1. \A k \in 1..L : k + 1 \in 1..(1 + L) /\ ~(k + 1 <= 1) /\ (k + 1) - 1 = k
    BY <1>2
  <2>. QED  BY <2>1, <1>2, <1>3, <1>4
<1>6. c # <<>> /\ Head(c) = e
  BY <1>3, <1>4, <1>2, EmptySeq, HeadTailProperties
<1>7. Single(c)
  <2> SUFFICES ASSUME NEW j \in DOMAIN c, NEW k \in DOMAIN c, c[j][2] = c[k][2]
               PROVE  j = k
    BY DEF Single
  <2>1. \A i \in DOMAIN c : i # 1 => c[i][2] # t
    BY <1>4 DEF Frames
  <2>2. CASE j = 1 \/ k = 1
    BY <2>1, <2>2, <1>1, <1>4
  <2>3. CASE j # 1 /\ k # 1
    <3>1. j - 1 = k - 1
      BY <2>3, <1>4 DEF Single
    <3>. QED  BY <3>1, <1>4
  <2>. QED  BY <2>2, <2>3
<1>8. Nested(c) /\ (s \in DeepSteps => AllDeep(c))
  BY <1>1, <1>4 DEF Nested, AllDeep
<1>9. Frames(c) = Frames(q) \cup {e}
  <2>1. \A k \in DOMAIN c : c[k] \in Frames(q) \cup {e}
    BY <1>4 DEF Frames
  <2>2. \A k \in DOMAIN q : q[k] \in Frames(c)
    BY <1>5 DEF Frames
  <2>3. e \in Frames(c)
    BY <1>4 DEF Frames
  <2>. QED  BY <2>1, <2>2, <2>3 DEF Frames
<1>10. ASSUME NEW tgt, Ordered(q, tgt),
              s = "suspend" => \A f \in Frames(q) : f[2] = tgt[t] => f[1] # "final_rest"
       PROVE  Ordered(c, tgt)
  <2> SUFFICES ASSUME NEW j \in DOMAIN c, NEW k \in DOMAIN c, j > k,
                      c[k][1] = "suspend", c[j][2] = tgt[c[k][2]]
               PROVE  c[j][1] # "final_rest"
    BY DEF Ordered
  <2>1. j # 1
    BY <1>4
  <2>2. j - 1 \in DOMAIN q /\ c[j] = q[j - 1] /\ c[j] \in Frames(q)
    BY <2>1, <1>4 DEF Frames
  <2>3. CASE k = 1
    BY <2>2, <2>3, <1>1, <1>4, <1>10
  <2>4. CASE k # 1
    <3>1. k - 1 \in DOMAIN q /\ c[k] = q[k - 1] /\ j - 1 > k - 1
      BY <2>4, <1>4
    <3>. QED  BY <3>1, <2>2, <1>10 DEF Ordered
  <2>. QED  BY <2>3, <2>4
<1>. QED  BY <1>1, <1>3, <1>6, <1>7, <1>8, <1>9, <1>10 DEF e

\* Only the targets of the coroutines in await_suspend matter to the order.
LEMMA OrderedSame ==
  ASSUME NEW q, NEW a, NEW b, Ordered(q, a),
         \A f \in Frames(q) : f[1] = "suspend" => b[f[2]] = a[f[2]]
  PROVE  Ordered(q, b)
<1>1. \A k \in DOMAIN q : q[k][1] = "suspend" => b[q[k][2]] = a[q[k][2]]
  BY DEF Frames
<1>. QED  BY <1>1 DEF Ordered

\* The innermost call and what is below it.
LEMMA TopOf ==
  ASSUME IInv, NEW s \in Steps, NEW t \in Tasks, At(s, t)
  PROVE  /\ fault = "none" /\ stack # <<>> /\ Head(stack) = <<s, t>> /\ FrameOK(s, t)
         /\ <<s, t>> \in Frames(stack) /\ Frames(stack) \subseteq Steps \X Tasks
         /\ Tail(stack) \in Seq(Steps \X Tasks) /\ Single(Tail(stack)) /\ AllDeep(Tail(stack))
         /\ Frames(Tail(stack)) = Frames(stack) \ {<<s, t>>}
         /\ \A f \in Frames(Tail(stack)) : f[2] # t
         /\ \A f \in Frames(stack) : f = <<s, t>> \/ f[2] # t
         /\ s \in DeepSteps => AllDeep(stack)
         /\ Admit = {} => Ordered(Tail(stack), target)
         /\ AtResponse <=> s = "response"
<1>1. fault = "none" /\ stack # <<>> /\ Head(stack) = <<s, t>> /\ stack \in Seq(Steps \X Tasks)
      /\ Single(stack) /\ Nested(stack)
  BY DEF IInv, TypeOK, StackInv, At
<1>2. /\ Tail(stack) \in Seq(Steps \X Tasks) /\ Single(Tail(stack)) /\ AllDeep(Tail(stack))
      /\ Head(stack) \in Frames(stack) /\ Frames(Tail(stack)) = Frames(stack) \ {Head(stack)}
      /\ \A f \in Frames(Tail(stack)) : f[2] # Head(stack)[2]
      /\ \A tgt : Ordered(stack, tgt) => Ordered(Tail(stack), tgt)
  BY <1>1, TailStack
<1>3. Frames(stack) \subseteq Steps \X Tasks
  BY <1>1 DEF Frames
<1>4. FrameOK(s, t)
  <2>1. FrameOK(<<s, t>>[1], <<s, t>>[2])
    BY <1>1, <1>2 DEF IInv, FrameInv
  <2>. QED  BY <2>1
<1>5. s \in DeepSteps => AllDeep(stack)
  <2>1. Len(stack) \in Nat \ {0} /\ DOMAIN stack = 1..Len(stack) /\ Head(stack) = stack[1]
    BY <1>1, HeadTailProperties, EmptySeq, LenProperties
  <2>2. \A k \in DOMAIN stack : k = 1 \/ k > 1
    BY <2>1
  <2>. QED  BY <2>1, <2>2, <1>1 DEF AllDeep, Nested
<1>6. Admit = {} => Ordered(Tail(stack), target)
  BY <1>2 DEF IInv, PlainInv
<1>7. AtResponse <=> s = "response"
  BY <1>1 DEF AtResponse
<1>8. /\ \A f \in Frames(Tail(stack)) : f[2] # t
      /\ \A f \in Frames(stack) : f = <<s, t>> \/ f[2] # t
  BY <1>1, <1>2
<1>. QED  BY <1>1, <1>2, <1>3, <1>4, <1>5, <1>6, <1>7, <1>8

\* The innermost call goes on to another step.
LEMMA BecomesStack ==
  ASSUME IInv, NEW s \in Steps, NEW d \in Steps \ {"suspend"}, NEW t \in Tasks,
         At(s, t), Becomes(d, t), \A u \in Tasks \ {t} : target'[u] = target[u]
  PROVE  /\ stack' \in Seq(Steps \X Tasks) /\ StackInv' /\ Head(stack') = <<d, t>>
         /\ Frames(stack') = (Frames(stack) \ {<<s, t>>}) \cup {<<d, t>>}
         /\ \A f \in Frames(stack) \ {<<s, t>>} : f[2] # t /\ f \in DeepSteps \X Tasks
         /\ Admit = {} => Ordered(stack', target')
         /\ AtResponse' <=> d = "response"
<1> DEFINE q == Tail(stack)
<1>1. /\ q \in Seq(Steps \X Tasks) /\ Single(q) /\ AllDeep(q)
      /\ Frames(q) = Frames(stack) \ {<<s, t>>} /\ \A f \in Frames(q) : f[2] # t
      /\ Admit = {} => Ordered(q, target)
  BY TopOf
<1>2. stack' = Call(d, t, q)
  BY DEF Becomes, Call
<1> HIDE DEF q
<1>3. \A f \in Frames(q) : f \in DeepSteps \X Tasks
  BY <1>1 DEF Frames, AllDeep
<1>4. Admit = {} => Ordered(q, target')
  <2>1. \A f \in Frames(q) : target'[f[2]] = target[f[2]]
    BY <1>1, <1>3
  <2>. QED  BY <1>1, <2>1, OrderedSame
<1>5. /\ stack' \in Seq(Steps \X Tasks) /\ stack' # <<>> /\ Head(stack') = <<d, t>>
      /\ Single(stack') /\ Nested(stack') /\ Frames(stack') = Frames(q) \cup {<<d, t>>}
      /\ \A tgt : Ordered(q, tgt) => Ordered(stack', tgt)
  BY <1>1, <1>2, CallStack
<1>. QED  BY <1>1, <1>3, <1>4, <1>5 DEF StackInv, AtResponse

\* The innermost call returns.
LEMMA PopStack ==
  ASSUME IInv, NEW s \in Steps, NEW t \in Tasks, At(s, t), stack' = Tail(stack),
         UNCHANGED target
  PROVE  /\ stack' \in Seq(Steps \X Tasks) /\ StackInv' /\ ~AtResponse'
         /\ Frames(stack') = Frames(stack) \ {<<s, t>>}
         /\ \A f \in Frames(stack') : f[2] # t /\ f \in DeepSteps \X Tasks
         /\ Admit = {} => Ordered(stack', target')
<1>1. /\ stack' \in Seq(Steps \X Tasks) /\ Single(stack') /\ AllDeep(stack')
      /\ Frames(stack') = Frames(stack) \ {<<s, t>>} /\ \A f \in Frames(stack') : f[2] # t
      /\ Admit = {} => Ordered(stack', target)
  BY TopOf
<1>2. \A f \in Frames(stack') : f \in DeepSteps \X Tasks
  BY <1>1 DEF Frames, AllDeep
<1>3. stack' # <<>> => Head(stack') \in Frames(stack')
  <2> SUFFICES ASSUME stack' # <<>> PROVE Head(stack') \in Frames(stack')
    OBVIOUS
  <2>1. 1 \in DOMAIN stack' /\ Head(stack') = stack'[1]
    BY <1>1, HeadTailProperties, EmptySeq, LenProperties
  <2>. QED  BY <2>1 DEF Frames
<1>4. ~AtResponse'
  BY <1>2, <1>3 DEF AtResponse, DeepSteps
<1>5. StackInv'
  BY <1>1 DEF StackInv, AllDeep, Nested
<1>. QED  BY <1>1, <1>2, <1>4, <1>5

\* While p is in await_suspend, the task it awaits is not past resuming its
\* awaiter.
LEMMA SuspendedFirst ==
  ASSUME IInv, Admit = {}, NEW p \in Tasks, At("suspend", p)
  PROVE  <<"final_rest", target[p]>> \notin Frames(stack)
<1> SUFFICES ASSUME NEW j \in DOMAIN stack, stack[j] = <<"final_rest", target[p]>>
             PROVE  FALSE
  BY DEF Frames
<1>1. stack \in Seq(Steps \X Tasks) /\ stack # <<>> /\ Head(stack) = <<"suspend", p>>
  BY DEF IInv, TypeOK, At
<1>2. 1 \in DOMAIN stack /\ stack[1] = <<"suspend", p>> /\ j \in Nat /\ j >= 1
  BY <1>1, HeadTailProperties, EmptySeq, LenProperties
<1>3. j > 1
  <2>1. j # 1
    BY <1>2
  <2>. QED  BY <2>1, <1>2
<1>. QED  BY <1>2, <1>3 DEF IInv, PlainInv, Ordered

\* The constants' sentinels are told apart from what they stand beside.
LEMMA Constants ==
  /\ None \notin Tasks /\ None \notin Codes /\ None # Exception /\ Exception \notin Codes
  /\ Types \subseteq RequestType /\ Results \subseteq Int /\ Codes \subseteq Nat
BY TasksAssumption

\* No error is an error code, and not an error.
LEMMA NoErrorType == no_error \in ErrorCodes /\ ~is_there_an_error(no_error)
BY DEF no_error, ErrorCodes, ErrorTypes, Byte, is_there_an_error

\* The empty stack has the shape the invariant asks for.
LEMMA EmptyStack ==
  /\ <<>> \in Seq(Steps \X Tasks) /\ Frames(<<>>) = {} /\ Single(<<>>) /\ AllDeep(<<>>)
  /\ \A tgt : Ordered(<<>>, tgt)
<1>1. DOMAIN <<>> = {}
  OBVIOUS
<1>. QED  BY <1>1, EmptySeq DEF Frames, Single, AllDeep, Ordered

\* A call on the empty stack, as the event loop makes it.
LEMMA CallEmpty ==
  ASSUME NEW s \in Steps, NEW t \in Tasks, s # "suspend"
  PROVE  /\ Call(s, t, <<>>) \in Seq(Steps \X Tasks) /\ Call(s, t, <<>>) # <<>>
         /\ Head(Call(s, t, <<>>)) = <<s, t>>
         /\ Single(Call(s, t, <<>>)) /\ Nested(Call(s, t, <<>>))
         /\ Frames(Call(s, t, <<>>)) = {<<s, t>>}
         /\ \A tgt : Ordered(Call(s, t, <<>>), tgt)
<1> DEFINE e == <<>>
<1>1. /\ e \in Seq(Steps \X Tasks) /\ Single(e) /\ AllDeep(e) /\ Frames(e) = {}
      /\ \A tgt : Ordered(e, tgt)
  BY EmptyStack
<1> HIDE DEF e
<1>2. \A f \in Frames(e) : f[2] # t
  BY <1>1
<1>3. /\ Call(s, t, e) \in Seq(Steps \X Tasks) /\ Call(s, t, e) # <<>>
      /\ Head(Call(s, t, e)) = <<s, t>>
      /\ Single(Call(s, t, e)) /\ Nested(Call(s, t, e))
      /\ Frames(Call(s, t, e)) = Frames(e) \cup {<<s, t>>}
      /\ \A tgt : Ordered(e, tgt) => Ordered(Call(s, t, e), tgt)
  BY <1>1, <1>2, CallStack
<1>4. /\ Frames(Call(s, t, e)) = {<<s, t>>} /\ \A tgt : Ordered(Call(s, t, e), tgt)
  BY <1>1, <1>3
<1>. QED  BY <1>3, <1>4 DEF e

\* The invariant holds before any coroutine is created.
LEMMA InitInv == Init => IInv
<1> SUFFICES ASSUME Init PROVE IInv
  OBVIOUS
<1>1. stack = <<>> /\ stack \in Seq(Steps \X Tasks) /\ DOMAIN stack = {}
  BY EmptySeq DEF Init
<1>2. TypeOK
  BY <1>1, NoErrorType DEF Init, TypeOK
<1>3. StackInv /\ FrameInv /\ Ordered(stack, target)
  BY <1>1 DEF StackInv, Single, Nested, FrameInv, Frames, Ordered
<1>4. CoroInv /\ ObjectInv /\ StatusAgrees /\ ReturnInv /\ HandleInv /\ KnownInv
  BY Constants DEF Init, CoroInv, ObjectInv, StatusAgrees, ReturnInv, HandleInv, KnownInv
<1>5. ResponseInv /\ NoDangling
  BY DEF Init, ResponseInv, AtResponse, NoDangling
<1>. QED  BY <1>2, <1>3, <1>4, <1>5 DEF IInv, PlainInv

\* A step that changes nothing keeps the invariant.
LEMMA StutterInv == IInv /\ UNCHANGED vars => IInv'
BY DEF IInv, vars, promisev, objectv, iov, TypeOK, StackInv, FrameInv, FrameOK, CoroInv, Owns,
       ObjectInv, StatusAgrees, ReturnInv, HandleInv, OffStack, PlainInv, KnownInv, ResponseInv,
       AtResponse, NoDangling

\* So does one that ends in a null TaskStatus, or in the end of event_handler.
LEMMA AsideInv ==
  ASSUME IInv, Faults("null_status") \/ event_handled
  PROVE  IInv'
<1>1. /\ UNCHANGED <<stack, coro, promisev, objectv, target, com_data, op, error, completion, returned>>
      /\ handling' \in Tasks \cup {None} /\ fault' \in {"none", "null_status"}
  BY DEF Faults, event_handled, iov, IInv, TypeOK
<1>2. TypeOK' /\ NoDangling'
  BY <1>1 DEF IInv, TypeOK, promisev, objectv, NoDangling
<1>. QED
  BY <1>1, <1>2 DEF IInv, promisev, objectv, StackInv, FrameInv, FrameOK, CoroInv, Owns, ObjectInv,
     StatusAgrees, ReturnInv, HandleInv, OffStack, PlainInv, KnownInv, ResponseInv, AtResponse

\* CoroInv is kept by a step that makes no coroutine wait or return anew.
LEMMA CoroKept ==
  ASSUME CoroInv,
         \A u \in Tasks : coro'[u] = "returning" =>
           /\ coro[u] = "returning"
           /\ <<"final_suspend", u>> \in Frames(stack) => <<"final_suspend", u>> \in Frames(stack')
           /\ <<"final_rest", u>> \in Frames(stack) => <<"final_rest", u>> \in Frames(stack'),
         \A u \in Tasks : coro'[u] = "await" =>
           /\ coro[u] = "await" /\ target'[u] = target[u]
           /\ owner'[target[u]] = owner[target[u]] /\ object'[target[u]] = object[target[u]]
           /\ coro'[target[u]] \notin {"none", "initial"}
  PROVE  CoroInv'
<1> SUFFICES ASSUME NEW u \in Tasks
             PROVE  /\ coro'[u] = "returning" => <<"final_suspend", u>> \in Frames(stack')
                                                \/ <<"final_rest", u>> \in Frames(stack')
                    /\ coro'[u] = "await" => /\ target'[u] \in Tasks
                                             /\ owner'[target'[u]] = u
                                             /\ object'[target'[u]] = "alive"
                                             /\ coro'[target'[u]] \notin {"none", "initial"}
  BY DEF CoroInv, Owns
<1>. QED  BY DEF CoroInv, Owns

-----------------------------------------------------------------------------
(* Creation and start.                                                     *)

\* A coroutine function is called: its frame and its EvTask are new.
LEMMA CreateInv ==
  ASSUME IInv, NEW p \in Tasks, NEW t \in Tasks, create(p, t)
  PROVE  IInv'
<1> USE DEF create, Created, iov
<1>1. coro[t] = "none" /\ At("body", p) /\ FrameOK("body", p) /\ p # t
      /\ ~AtResponse /\ Frames(stack) \subseteq Steps \X Tasks
  <2>1. At("body", p) /\ "body" \in Steps
    BY DEF Running, Steps
  <2>. QED  BY <2>1, TopOf DEF FrameOK
<1>2. OffStack(t)
  BY <1>1 DEF IInv, FrameInv, FrameOK, OffStack, Steps
<1>3. TypeOK'
  BY DEF IInv, TypeOK
<1>4. StackInv'
  BY DEF IInv, StackInv
<1>5. FrameInv'
  BY <1>1, <1>2 DEF IInv, TypeOK, FrameInv, FrameOK, OffStack, CoroInv
<1>6. CoroInv'
  <2>1. /\ coro'[t] = "initial" /\ \A u \in Tasks \ {t} : coro'[u] = coro[u]
        /\ \A u \in Tasks \ {t} : owner'[u] = owner[u] /\ object'[u] = object[u]
    BY DEF IInv, TypeOK
  <2>2. \A u \in Tasks : coro[u] = "await" => /\ target[u] \in Tasks \ {t}
                                              /\ coro[target[u]] \notin {"none", "initial"}
    BY <1>1 DEF IInv, CoroInv
  <2>3. UNCHANGED <<stack, target>> /\ CoroInv
    BY DEF IInv
  <2>. QED  BY <2>1, <2>2, <2>3, CoroKept
<1>7. ObjectInv' /\ StatusAgrees' /\ ReturnInv'
  BY <1>1 DEF IInv, TypeOK, ObjectInv, StatusAgrees, ReturnInv
<1>8. HandleInv'
  BY <1>1 DEF IInv, TypeOK, HandleInv, OffStack
<1>9. PlainInv'
  BY <1>1 DEF IInv, TypeOK, PlainInv, KnownInv
<1>10. ResponseInv' /\ NoDangling'
  BY <1>1 DEF IInv, ResponseInv, AtResponse, NoDangling
<1>. QED  BY <1>3, <1>4, <1>5, <1>6, <1>7, <1>8, <1>9, <1>10 DEF IInv

\* What a body pushed on the stack for a coroutine that has not begun leaves true.
LEMMA BeginInv ==
  ASSUME IInv, NEW t \in Tasks, OffStack(t), coro[t] \in {"none", "initial"},
         AllDeep(stack), ~AtResponse, stack' = Call("body", t, stack),
         coro' = [coro EXCEPT ![t] = "running"],
         UNCHANGED <<awaiter_handle, target, returned, fault, iov>>
  PROVE  /\ stack' \in Seq(Steps \X Tasks) /\ Frames(stack') = Frames(stack) \cup {<<"body", t>>}
         /\ StackInv' /\ FrameInv' /\ HandleInv' /\ PlainInv' /\ ResponseInv' /\ NoDangling'
<1>1. /\ stack' \in Seq(Steps \X Tasks) /\ Frames(stack') = Frames(stack) \cup {<<"body", t>>}
      /\ stack' # <<>> /\ Head(stack') = <<"body", t>> /\ Single(stack') /\ Nested(stack')
      /\ \A tgt : Ordered(stack, tgt) => Ordered(stack', tgt)
  <2>1. stack \in Seq(Steps \X Tasks) /\ Single(stack) /\ "body" \in Steps
        /\ \A f \in Frames(stack) : f[2] # t
    BY DEF IInv, TypeOK, StackInv, OffStack, Steps
  <2>. QED  BY <2>1, CallStack
<1>2. StackInv'
  BY <1>1 DEF StackInv
<1>3. FrameInv'
  BY <1>1 DEF IInv, TypeOK, FrameInv, FrameOK, OffStack, CoroInv
<1>4. HandleInv'
  BY <1>1 DEF IInv, TypeOK, HandleInv, OffStack
<1>5. PlainInv'
  <2>1. Admit = {} => Ordered(stack', target')
    BY <1>1 DEF IInv, PlainInv
  <2>2. Admit = {} => KnownInv'
    BY <1>1 DEF IInv, PlainInv, TypeOK, KnownInv
  <2>. QED  BY <2>1, <2>2 DEF PlainInv
<1>6. ~AtResponse' /\ ResponseInv' /\ NoDangling'
  BY <1>1 DEF IInv, ResponseInv, AtResponse, NoDangling, iov
<1>. QED  BY <1>1, <1>2, <1>3, <1>4, <1>5, <1>6

\* main() creates a coroutine and hands it to the manager.
LEMMA RegisterInv ==
  ASSUME IInv, NEW t \in Tasks, register_coro(t)
  PROVE  IInv'
<1> USE DEF register_coro, Created, iov
<1>1. OffStack(t) /\ AllDeep(stack) /\ ~AtResponse /\ coro[t] = "none"
  BY EmptyStack DEF OffStack, AtResponse
<1>2. /\ stack' \in Seq(Steps \X Tasks) /\ Frames(stack') = Frames(stack) \cup {<<"body", t>>}
      /\ StackInv' /\ FrameInv' /\ HandleInv' /\ PlainInv' /\ ResponseInv' /\ NoDangling'
  BY <1>1, BeginInv
<1>3. TypeOK'
  BY <1>2 DEF IInv, TypeOK
<1>4. CoroInv'
  BY <1>1, <1>2 DEF IInv, TypeOK, CoroInv, Owns
<1>5. ObjectInv' /\ StatusAgrees' /\ ReturnInv'
  BY <1>1, Constants DEF IInv, TypeOK, ObjectInv, StatusAgrees, ReturnInv
<1>. QED  BY <1>2, <1>3, <1>4, <1>5 DEF IInv

\* EvTask::start() resumes a coroutine that has not begun.
LEMMA StartInv ==
  ASSUME IInv, NEW p \in Tasks, NEW t \in Tasks, start(p, t)
  PROVE  IInv'
<1> USE DEF start, Owns, promisev, iov
<1>1. AllDeep(stack) /\ ~AtResponse /\ coro[t] = "initial"
      /\ Frames(stack) \subseteq Steps \X Tasks
  <2>1. At("body", p) /\ "body" \in Steps /\ "body" \in DeepSteps
    BY DEF Running, Steps, DeepSteps
  <2>2. coro[t] = "initial"
    BY DEF IInv, ObjectInv
  <2>. QED  BY <2>1, <2>2, TopOf
<1>2. OffStack(t)
  BY <1>1 DEF IInv, FrameInv, FrameOK, OffStack, Steps
<1>3. /\ stack' \in Seq(Steps \X Tasks) /\ Frames(stack') = Frames(stack) \cup {<<"body", t>>}
      /\ StackInv' /\ FrameInv' /\ HandleInv' /\ PlainInv' /\ ResponseInv' /\ NoDangling'
  BY <1>1, <1>2, BeginInv
<1>4. TypeOK'
  BY <1>3 DEF IInv, TypeOK
<1>5. CoroInv'
  BY <1>1, <1>3 DEF IInv, TypeOK, CoroInv
<1>6. ObjectInv' /\ StatusAgrees' /\ ReturnInv'
  BY <1>1 DEF IInv, TypeOK, ObjectInv, StatusAgrees, ReturnInv
<1>. QED  BY <1>3, <1>4, <1>5, <1>6 DEF IInv

-----------------------------------------------------------------------------
(* Awaiting a task.                                                        *)

\* The calls after co_await t: await_suspend of p and, if t has not begun, the
\* body of t.  No call below them is that of a t past resuming its awaiter.
LEMMA CoAwaitStack ==
  ASSUME IInv, NEW p \in Tasks, NEW t \in Tasks, co_await(p, t)
  PROVE  LET begun == IF started_coro[t] THEN {} ELSE {<<"body", t>>} IN
         /\ coro[p] = "running" /\ ~AtResponse /\ ~AtResponse' /\ p # t
         /\ ~started_coro[t] => coro[t] = "initial" /\ OffStack(t)
         /\ <<"body", p>> \in Frames(stack) /\ Frames(stack) \subseteq Steps \X Tasks
         /\ \A f \in Frames(stack) : f = <<"body", p>> \/ (f[2] # p /\ f[1] \in DeepSteps)
         /\ stack' \in Seq(Steps \X Tasks) /\ StackInv'
         /\ Frames(stack') = ((Frames(stack) \ {<<"body", p>>}) \cup {<<"suspend", p>>}) \cup begun
         /\ Admit = {} => Ordered(stack', target')
<1> USE DEF co_await, Owns
<1> DEFINE q == Tail(stack)
           rest == Call("suspend", p, q)
<1>1. At("body", p) /\ {"body", "suspend"} \subseteq Steps /\ {"body", "suspend"} \subseteq DeepSteps
      /\ ~("suspend" = "body")
  BY DEF Running, Steps, DeepSteps
<1>2. /\ stack # <<>> /\ FrameOK("body", p) /\ <<"body", p>> \in Frames(stack)
      /\ Frames(stack) \subseteq Steps \X Tasks
      /\ q \in Seq(Steps \X Tasks) /\ Single(q) /\ AllDeep(q)
      /\ Frames(q) = Frames(stack) \ {<<"body", p>>} /\ \A f \in Frames(q) : f[2] # p
      /\ Admit = {} => Ordered(q, target)
      /\ ~AtResponse
  BY <1>1, TopOf
<1>3. coro[p] = "running" /\ p # t /\ \A f \in Frames(q) : f[1] \in DeepSteps
  BY <1>2 DEF FrameOK, AllDeep, Frames, IInv, ObjectInv
<1> HIDE DEF q
<1>4. Admit = {} => Ordered(q, target')
  <2>1. \A f \in Frames(q) : target'[f[2]] = target[f[2]]
    BY <1>2 DEF IInv, TypeOK
  <2>. QED  BY <1>2, <2>1, OrderedSame
<1>5. Admit = {} => \A f \in Frames(q) : f[2] = target'[p] => f[1] # "final_rest"
  BY <1>2 DEF IInv, TypeOK, FrameInv, FrameOK
<1>6. /\ rest \in Seq(Steps \X Tasks) /\ rest # <<>> /\ Head(rest) = <<"suspend", p>>
      /\ Single(rest) /\ Nested(rest) /\ AllDeep(rest)
      /\ Frames(rest) = Frames(q) \cup {<<"suspend", p>>}
      /\ Admit = {} => Ordered(rest, target')
  <2>1. /\ rest \in Seq(Steps \X Tasks) /\ rest # <<>> /\ Head(rest) = <<"suspend", p>>
        /\ Single(rest) /\ Nested(rest) /\ AllDeep(rest)
        /\ Frames(rest) = Frames(q) \cup {<<"suspend", p>>}
    BY <1>1, <1>2, CallStack
  <2>2. \A tgt : Ordered(q, tgt) /\ (\A f \in Frames(q) : f[2] = tgt[p] => f[1] # "final_rest")
                 => Ordered(rest, tgt)
    BY <1>1, <1>2, CallStack
  <2> HIDE DEF rest
  <2>. QED  BY <1>4, <1>5, <2>1, <2>2
<1> HIDE DEF rest
<1>7. CASE started_coro[t]
  <2>1. stack' = rest
    BY <1>7 DEF rest, q
  <2>. QED  BY <2>1, <1>2, <1>3, <1>6, <1>7 DEF StackInv, AtResponse
<1>8. CASE ~started_coro[t]
  <2>1. stack' = Call("body", t, rest)
    BY <1>8 DEF rest, q
  <2>2. coro[t] = "initial"
    BY <1>8 DEF IInv, ObjectInv
  <2>3. OffStack(t)
    BY <1>2, <2>2 DEF IInv, FrameInv, FrameOK, OffStack, Steps
  <2>4. \A f \in Frames(rest) : f[2] # t
    BY <2>3, <1>2, <1>3, <1>6 DEF OffStack
  <2>5. /\ stack' \in Seq(Steps \X Tasks) /\ stack' # <<>> /\ Head(stack') = <<"body", t>>
        /\ Single(stack') /\ Nested(stack')
        /\ Frames(stack') = Frames(rest) \cup {<<"body", t>>}
        /\ Admit = {} => Ordered(stack', target')
    BY <2>1, <2>4, <1>1, <1>6, CallStack
  <2>. QED  BY <2>2, <2>3, <2>5, <1>2, <1>3, <1>6, <1>8 DEF StackInv, AtResponse
<1>. QED  BY <1>7, <1>8

\* co_await starts the other coroutine unless it has been started.
LEMMA CoAwaitInv ==
  ASSUME IInv, NEW p \in Tasks, NEW t \in Tasks, co_await(p, t)
  PROVE  IInv'
<1> DEFINE begun == IF started_coro[t] THEN {} ELSE {<<"body", t>>}
<1>1. /\ coro[p] = "running" /\ ~AtResponse /\ ~AtResponse' /\ p # t
      /\ ~started_coro[t] => coro[t] = "initial" /\ OffStack(t)
      /\ <<"body", p>> \in Frames(stack) /\ Frames(stack) \subseteq Steps \X Tasks
      /\ \A f \in Frames(stack) : f = <<"body", p>> \/ (f[2] # p /\ f[1] \in DeepSteps)
      /\ stack' \in Seq(Steps \X Tasks) /\ StackInv'
      /\ Frames(stack') = ((Frames(stack) \ {<<"body", p>>}) \cup {<<"suspend", p>>}) \cup begun
      /\ Admit = {} => Ordered(stack', target')
  BY CoAwaitStack
<1>2. /\ coro' = [coro EXCEPT ![p] = "await", ![t] = IF started_coro[t] THEN @ ELSE "running"]
      /\ started_coro' = [started_coro EXCEPT ![t] = TRUE]
      /\ target' = [target EXCEPT ![p] = t] /\ Owns(p, t)
      /\ UNCHANGED <<promisev, object, owner, handler_done, ret_code, iov, returned, fault>>
  BY <1>1 DEF co_await, IInv, TypeOK
<1>3. TypeOK'
  BY <1>1, <1>2 DEF IInv, TypeOK, promisev, iov
<1>4. FrameInv'
  BY <1>1, <1>2 DEF IInv, TypeOK, FrameInv, FrameOK, OffStack, DeepSteps
<1>5. CoroInv'
  <2> SUFFICES ASSUME NEW u \in Tasks
               PROVE  /\ coro'[u] = "returning" => <<"final_suspend", u>> \in Frames(stack')
                                                  \/ <<"final_rest", u>> \in Frames(stack')
                      /\ coro'[u] = "await" => /\ target'[u] \in Tasks
                                               /\ owner'[target'[u]] = u
                                               /\ object'[target'[u]] = "alive"
                                               /\ coro'[target'[u]] \notin {"none", "initial"}
    BY DEF CoroInv, Owns
  <2>1. CASE u = p
    BY <2>1, <1>1, <1>2 DEF IInv, TypeOK, ObjectInv, Owns
  <2>2. CASE u # p
    <3>1. coro'[u] \in {"returning", "await"} => coro[u] = coro'[u]
      BY <2>2, <1>2 DEF IInv, TypeOK
    <3>2. coro'[u] = "await" => target'[u] = target[u] /\ coro[target[u]] \notin {"none", "initial"}
      BY <2>2, <3>1, <1>2 DEF IInv, TypeOK, CoroInv
    <3>. QED  BY <3>1, <3>2, <1>1, <1>2 DEF IInv, TypeOK, CoroInv, Owns
  <2>. QED  BY <2>1, <2>2
<1>6. ObjectInv' /\ StatusAgrees' /\ ReturnInv'
  BY <1>1, <1>2 DEF IInv, TypeOK, ObjectInv, StatusAgrees, ReturnInv, Owns, promisev
<1>7. HandleInv'
  BY <1>1, <1>2 DEF IInv, TypeOK, HandleInv, OffStack, promisev
<1>8. PlainInv'
  <2>1. ASSUME Admit = {} PROVE KnownInv'
    <3> SUFFICES ASSUME NEW u \in Tasks, coro'[u] = "await"
                 PROVE  \/ <<"suspend", u>> \in Frames(stack')
                        \/ <<"resumed", u>> \in Frames(stack')
                        \/ /\ awaiter_handle'[target'[u]] = u
                           /\ \/ coro'[target'[u]] \in {"running", "io", "await"}
                              \/ <<"final_suspend", target'[u]>> \in Frames(stack')
      BY DEF KnownInv
    <3>1. CASE u = p
      BY <3>1, <1>1
    <3>2. CASE u # p
      <4>1. coro[u] = "await" /\ target'[u] = target[u] /\ target[u] \in Tasks
        BY <3>2, <1>1, <1>2 DEF IInv, TypeOK, CoroInv
      <4>2. coro[target[u]] \in {"running", "io", "await"}
              => coro'[target[u]] \in {"running", "io", "await"}
        BY <4>1, <1>2 DEF IInv, TypeOK
      <4>3. \A f \in Frames(stack) : f[1] # "body" => f \in Frames(stack')
        BY <1>1
      <4>4. \/ <<"suspend", u>> \in Frames(stack) \/ <<"resumed", u>> \in Frames(stack)
            \/ /\ awaiter_handle[target[u]] = u
               /\ \/ coro[target[u]] \in {"running", "io", "await"}
                  \/ <<"final_suspend", target[u]>> \in Frames(stack)
        BY <2>1, <4>1 DEF IInv, PlainInv, KnownInv
      <4>. QED  BY <4>1, <4>2, <4>3, <4>4, <1>2 DEF promisev
    <3>. QED  BY <3>1, <3>2
  <2>. QED  BY <1>1, <2>1 DEF PlainInv
<1>9. ResponseInv' /\ NoDangling'
  BY <1>1, <1>2 DEF IInv, ResponseInv, NoDangling, iov
<1>. QED  BY <1>1, <1>3, <1>4, <1>5, <1>6, <1>7, <1>8, <1>9 DEF IInv

\* await_suspend keeps the awaiter, or lets it go on at once.
LEMMA AwaitSuspendInv ==
  ASSUME IInv, NEW p \in Tasks, await_suspend(p)
  PROVE  IInv'
<1> DEFINE t == target[p]
<1> USE DEF await_suspend, is_done, iov, objectv
<1>1. At("suspend", p) /\ {"suspend", "resumed"} \subseteq Steps /\ "resumed" # "suspend"
  BY DEF Steps
<1>2. coro[p] = "await" /\ <<"suspend", p>> \in Frames(stack) /\ ~AtResponse
  BY <1>1, TopOf DEF FrameOK
<1>3. t \in Tasks /\ owner[t] = p /\ object[t] = "alive" /\ coro[t] \notin {"none", "initial"}
  BY <1>2 DEF IInv, CoroInv, Owns
<1>4. ~handler_done[t] => coro[t] # "freed"
  BY <1>3 DEF IInv, StatusAgrees
<1>5. CASE handler_done[t]
  <2>1. Becomes("resumed", p) /\ UNCHANGED <<awaiter_handle, fault>>
    BY <1>5
  <2>2. /\ stack' \in Seq(Steps \X Tasks) /\ StackInv' /\ ~AtResponse'
        /\ Frames(stack') = (Frames(stack) \ {<<"suspend", p>>}) \cup {<<"resumed", p>>}
        /\ \A f \in Frames(stack) \ {<<"suspend", p>>} : f[2] # p
        /\ Admit = {} => Ordered(stack', target')
    BY <1>1, <2>1, BecomesStack
  <2>3. coro[t] = "freed" /\ returned[t] # None
    BY <1>3, <1>5 DEF IInv, ObjectInv, ReturnInv
  <2>4. TypeOK' /\ ObjectInv' /\ StatusAgrees' /\ ReturnInv' /\ NoDangling'
    BY <2>1, <2>2 DEF IInv, TypeOK, ObjectInv, StatusAgrees, ReturnInv, NoDangling
  <2>5. FrameInv' /\ CoroInv'
    BY <2>1, <2>2, <2>3, <1>2 DEF IInv, FrameInv, FrameOK, CoroInv, Owns
  <2>6. HandleInv'
    BY <2>1, <2>2, <1>2 DEF IInv, HandleInv, OffStack
  <2>7. Admit = {} => KnownInv'
    BY <2>1, <2>2, <1>2 DEF IInv, PlainInv, KnownInv
  <2>8. ResponseInv'
    BY <2>2, <1>2 DEF IInv, ResponseInv
  <2>. QED  BY <2>2, <2>4, <2>5, <2>6, <2>7, <2>8 DEF IInv, PlainInv
<1>6. CASE ~handler_done[t]
  <2>1. awaiter_handle' = [awaiter_handle EXCEPT ![t] = p] /\ stack' = Tail(stack)
        /\ UNCHANGED fault
    BY <1>4, <1>6
  <2>2. /\ stack' \in Seq(Steps \X Tasks) /\ StackInv' /\ ~AtResponse'
        /\ Frames(stack') = Frames(stack) \ {<<"suspend", p>>}
        /\ \A f \in Frames(stack') : f[2] # p
        /\ Admit = {} => Ordered(stack', target')
    BY <1>1, <2>1, PopStack
  <2>3. TypeOK' /\ ObjectInv' /\ StatusAgrees' /\ ReturnInv' /\ NoDangling'
    BY <2>1, <2>2 DEF IInv, TypeOK, ObjectInv, StatusAgrees, ReturnInv, NoDangling
  <2>4. FrameInv' /\ CoroInv'
    BY <2>1, <2>2, <1>2 DEF IInv, FrameInv, FrameOK, CoroInv, Owns
  <2>5. HandleInv'
    BY <2>1, <2>2, <1>2, <1>3 DEF IInv, TypeOK, HandleInv, OffStack
  <2>6. Admit = {} => KnownInv'
    <3> SUFFICES ASSUME Admit = {}, NEW u \in Tasks, coro[u] = "await"
                 PROVE  \/ <<"suspend", u>> \in Frames(stack') \/ <<"resumed", u>> \in Frames(stack')
                        \/ /\ awaiter_handle'[target[u]] = u
                           /\ \/ coro[target[u]] \in {"running", "io", "await"}
                              \/ <<"final_suspend", target[u]>> \in Frames(stack')
      BY DEF KnownInv
    <3>1. CASE u = p
      <4>1. coro[t] = "returning" => <<"final_suspend", t>> \in Frames(stack)
        BY <1>1, <1>3, SuspendedFirst DEF IInv, CoroInv
      <4>2. coro[t] \in {"running", "io", "await", "returning"}
        BY <1>3, <1>4, <1>6 DEF IInv, TypeOK
      <4>. QED  BY <3>1, <4>1, <4>2, <2>1, <2>2, <1>3 DEF IInv, TypeOK
    <3>2. CASE u # p
      <4>1. target[u] \in Tasks /\ target[u] # t
        BY <3>2, <1>3 DEF IInv, CoroInv, Owns
      <4>. QED  BY <3>2, <4>1, <2>1, <2>2 DEF IInv, TypeOK, PlainInv, KnownInv
    <3>. QED  BY <3>1, <3>2
  <2>7. ResponseInv'
    BY <2>2, <1>2 DEF IInv, ResponseInv
  <2>. QED  BY <2>2, <2>3, <2>4, <2>5, <2>6, <2>7 DEF IInv, PlainInv
<1>. QED  BY <1>5, <1>6

\* The awaiter goes on in its body.
LEMMA AwaitResumeInv ==
  ASSUME IInv, NEW p \in Tasks, await_resume(p)
  PROVE  IInv'
<1> USE DEF await_resume, promisev, objectv, iov
<1>1. At("resumed", p) /\ {"resumed", "body"} \subseteq Steps
      /\ "body" # "suspend" /\ "body" # "response" /\ "resumed" # "response"
  BY DEF Steps
<1>2. coro[p] = "await" /\ <<"resumed", p>> \in Frames(stack) /\ ~AtResponse
  BY <1>1, TopOf DEF FrameOK
<1>3. /\ stack' \in Seq(Steps \X Tasks) /\ StackInv' /\ ~AtResponse'
      /\ Frames(stack') = (Frames(stack) \ {<<"resumed", p>>}) \cup {<<"body", p>>}
      /\ \A f \in Frames(stack) \ {<<"resumed", p>>} : f[2] # p /\ f \in DeepSteps \X Tasks
      /\ Admit = {} => Ordered(stack', target')
  <2>1. \A u \in Tasks \ {p} : target'[u] = target[u]
    BY DEF IInv, TypeOK
  <2>. QED  BY <1>1, <2>1, BecomesStack
<1>4. TypeOK' /\ ObjectInv' /\ StatusAgrees' /\ ReturnInv' /\ NoDangling'
  BY <1>2, <1>3 DEF IInv, TypeOK, ObjectInv, StatusAgrees, ReturnInv, NoDangling
<1>5. FrameInv'
  BY <1>3 DEF IInv, TypeOK, FrameInv, FrameOK, DeepSteps
<1>6. CoroInv'
  <2>1. /\ coro'[p] = "running" /\ UNCHANGED <<owner, object>>
        /\ \A u \in Tasks \ {p} : coro'[u] = coro[u] /\ target'[u] = target[u]
    BY DEF IInv, TypeOK
  <2>2. \A u \in Tasks :
          /\ <<"final_suspend", u>> \in Frames(stack) => <<"final_suspend", u>> \in Frames(stack')
          /\ <<"final_rest", u>> \in Frames(stack) => <<"final_rest", u>> \in Frames(stack')
    BY <1>3
  <2>3. /\ \A u \in Tasks : coro[u] = "await" => /\ target[u] \in Tasks
                                                 /\ coro[target[u]] \notin {"none", "initial"}
        /\ CoroInv
    BY DEF IInv, CoroInv
  <2>4. \A u \in Tasks : coro'[u] \in {"returning", "await"} => u # p /\ coro[u] = coro'[u]
    BY <2>1
  <2>5. \A u \in Tasks : coro'[u] = "await" => /\ coro[u] = "await" /\ target'[u] = target[u]
                                               /\ target[u] \in Tasks
                                               /\ coro'[target[u]] \notin {"none", "initial"}
    BY <2>1, <2>3, <2>4
  <2>6. \A u \in Tasks : coro'[u] = "returning" =>
          /\ coro[u] = "returning"
          /\ <<"final_suspend", u>> \in Frames(stack) => <<"final_suspend", u>> \in Frames(stack')
          /\ <<"final_rest", u>> \in Frames(stack) => <<"final_rest", u>> \in Frames(stack')
    BY <2>2, <2>4
  <2>7. \A u \in Tasks : coro'[u] = "await" =>
          /\ coro[u] = "await" /\ target'[u] = target[u]
          /\ owner'[target[u]] = owner[target[u]] /\ object'[target[u]] = object[target[u]]
          /\ coro'[target[u]] \notin {"none", "initial"}
    BY <2>1, <2>5
  <2>. QED  BY <2>3, <2>6, <2>7, CoroKept, Zenon
<1>7. HandleInv'
  BY <1>2, <1>3 DEF IInv, TypeOK, HandleInv, OffStack
<1>8. Admit = {} => KnownInv'
  BY <1>2, <1>3 DEF IInv, TypeOK, PlainInv, KnownInv, CoroInv
<1>9. ResponseInv'
  BY <1>2, <1>3 DEF IInv, ResponseInv
<1>. QED  BY <1>3, <1>4, <1>5, <1>6, <1>7, <1>8, <1>9 DEF IInv, PlainInv

-----------------------------------------------------------------------------
(* Responses.                                                              *)

\* A coroutine suspends for a response.
LEMMA WaitResponseInv ==
  ASSUME IInv, NEW t \in Tasks, NEW rt \in Types \cup {"generic"}, wait_response(t, rt),
         ~Faults("null_status")
  PROVE  IInv'
<1> USE DEF promisev, objectv
<1>0. /\ Running(t)
      /\ op' = [op EXCEPT ![t] = rt]
      /\ coro' = [coro EXCEPT ![t] = "io"]
      /\ stack' = Tail(stack)
      /\ UNCHANGED <<promisev, objectv, target, com_data, error, completion, handling, returned,
                     fault>>
  BY DEF wait_response, NullStatus
<1>1. At("body", t) /\ "body" \in Steps
  BY <1>0 DEF Running, Steps
<1>2. coro[t] = "running" /\ <<"body", t>> \in Frames(stack) /\ ~AtResponse
  BY <1>0, <1>1, TopOf DEF FrameOK
<1>3. /\ stack' \in Seq(Steps \X Tasks) /\ StackInv' /\ ~AtResponse'
      /\ Frames(stack') = Frames(stack) \ {<<"body", t>>}
      /\ \A f \in Frames(stack') : f[2] # t /\ f \in DeepSteps \X Tasks
      /\ Admit = {} => Ordered(stack', target')
  BY <1>0, <1>1, PopStack
<1>4. TypeOK' /\ ObjectInv' /\ StatusAgrees' /\ ReturnInv' /\ NoDangling'
  BY <1>0, <1>2, <1>3 DEF IInv, TypeOK, ObjectInv, StatusAgrees, ReturnInv, NoDangling
<1>5. FrameInv' /\ CoroInv'
  BY <1>0, <1>2, <1>3 DEF IInv, TypeOK, FrameInv, FrameOK, DeepSteps, CoroInv, Owns
<1>6. HandleInv'
  BY <1>0, <1>2, <1>3 DEF IInv, TypeOK, HandleInv, OffStack
<1>7. Admit = {} => KnownInv'
  BY <1>0, <1>2, <1>3 DEF IInv, TypeOK, PlainInv, KnownInv, CoroInv
<1>8. ResponseInv'
  BY <1>0, <1>2, <1>3 DEF IInv, ResponseInv
<1>. QED  BY <1>3, <1>4, <1>5, <1>6, <1>7, <1>8 DEF IInv, PlainInv

\* The awaitable's own errors are errors.
LEMMA AwaitableErrorsType ==
  ASSUME NEW e \in AwaitableErrors
  PROVE  e \in ErrorCodes /\ is_there_an_error(e)
BY ConversionType DEF AwaitableErrors, SubmissionErrors, Refusals, submission_error, set_error_from_enum,
     set_error_from_num, SUBMISSION_QUEUE_FULL, is_there_an_error, ErrorCodes, ErrorTypes, Byte

\* An operation that is refused is over at once.
LEMMA RefuseInv ==
  ASSUME IInv, NEW t \in Tasks, NEW rt \in Types, NEW e \in AwaitableErrors, refuse(t, rt, e),
         ~Faults("null_status")
  PROVE  IInv'
<1> USE DEF promisev, objectv
<1>0. /\ Running(t)
      /\ op' = [op EXCEPT ![t] = rt]
      /\ error' = e
      /\ Becomes("response", t)
      /\ UNCHANGED <<coro, promisev, objectv, target, com_data, completion, handling, returned,
                     fault>>
  BY DEF refuse, NullStatus
<1>1. At("body", t) /\ {"body", "response"} \subseteq Steps /\ "response" # "suspend"
  BY <1>0 DEF Running, Steps
<1>2. coro[t] = "running" /\ <<"body", t>> \in Frames(stack)
  BY <1>0, <1>1, TopOf DEF FrameOK
<1>3. /\ stack' \in Seq(Steps \X Tasks) /\ StackInv' /\ AtResponse'
      /\ Head(stack') = <<"response", t>>
      /\ Frames(stack') = (Frames(stack) \ {<<"body", t>>}) \cup {<<"response", t>>}
      /\ \A f \in Frames(stack) \ {<<"body", t>>} : f[2] # t /\ f \in DeepSteps \X Tasks
      /\ Admit = {} => Ordered(stack', target')
  BY <1>0, <1>1, BecomesStack
<1>4. TypeOK' /\ ObjectInv' /\ StatusAgrees' /\ ReturnInv' /\ NoDangling'
  BY <1>0, <1>3, AwaitableErrorsType DEF IInv, TypeOK, ObjectInv, StatusAgrees, ReturnInv, NoDangling
<1>5. FrameInv' /\ CoroInv'
  BY <1>0, <1>2, <1>3 DEF IInv, FrameInv, FrameOK, DeepSteps, CoroInv, Owns
<1>6. HandleInv'
  BY <1>0, <1>2, <1>3 DEF IInv, HandleInv, OffStack
<1>7. Admit = {} => KnownInv'
  BY <1>0, <1>2, <1>3 DEF IInv, PlainInv, KnownInv
<1>8. ResponseInv'
  <2>1. rt # "generic" /\ op'[t] = rt
    BY <1>0, Constants DEF RequestType, Transfers, PathOps, IInv, TypeOK
  <2>2. is_there_an_error(error')
    BY <1>0, AwaitableErrorsType
  <2>. QED  BY <2>1, <2>2, <1>0, <1>3 DEF IInv, ResponseInv
<1>. QED  BY <1>3, <1>4, <1>5, <1>6, <1>7, <1>8 DEF IInv, PlainInv

\* event_handler publishes a response and resumes its coroutine.
LEMMA EventHandlerInv ==
  ASSUME IInv, NEW t \in Tasks, NEW rt \in Types, NEW res \in Results,
         event_handler(t, rt, res)
  PROVE  IInv'
<1> USE DEF event_handler, promisev, objectv
<1>1. stack = <<>> /\ coro[t] = "io" /\ ~AtResponse /\ Frames(stack) = {} /\ "response" \in Steps
      /\ "response" # "suspend"
  BY EmptyStack DEF AtResponse, Steps
<1>2. /\ stack' \in Seq(Steps \X Tasks) /\ stack' # <<>> /\ Head(stack') = <<"response", t>>
      /\ Single(stack') /\ Nested(stack') /\ Frames(stack') = {<<"response", t>>}
      /\ Ordered(stack', target)
  <2>1. stack' = Call("response", t, <<>>)
    BY <1>1
  <2>. QED  BY <1>1, <2>1, CallEmpty
<1>3. StackInv' /\ AtResponse'
  BY <1>2 DEF StackInv, AtResponse
<1>4. TypeOK' /\ ObjectInv' /\ StatusAgrees' /\ ReturnInv' /\ NoDangling'
  BY <1>2 DEF IInv, TypeOK, ObjectInv, StatusAgrees, ReturnInv, NoDangling
<1>5. FrameInv' /\ CoroInv'
  <2>1. coro' = coro /\ target' = target /\ owner' = owner /\ object' = object
    OBVIOUS
  <2>2. FrameInv'
    BY <1>1, <1>2, <2>1 DEF FrameInv, FrameOK
  <2>3. CoroInv'
    <3>1. \A u \in Tasks : coro[u] # "returning"
      BY <1>1 DEF IInv, CoroInv
    <3>. QED  BY <2>1, <3>1 DEF IInv, CoroInv, Owns
  <2>. QED  BY <2>2, <2>3
<1>6. HandleInv'
  BY <1>1, <1>2 DEF IInv, HandleInv, OffStack
<1>7. PlainInv'
  BY <1>1, <1>2 DEF IInv, PlainInv, KnownInv
<1>8. ResponseInv'
  <2>1. /\ DOMAIN com_data' = Tasks
        /\ com_data'[t] = response_pack(completion'.type, completion'.res, Fd)
        /\ completion' \in [type : Types, res : Results]
        /\ op'[t] \in {completion'.type, "generic"} /\ error' = no_error
    BY <1>1 DEF IInv, ResponseInv, publish_resp_data
  <2>. QED  BY <2>1, <1>2, <1>3 DEF ResponseInv
<1>. QED  BY <1>3, <1>4, <1>5, <1>6, <1>7, <1>8 DEF IInv

\* await_resume takes the response from the channel.
LEMMA ResponseStepInv ==
  ASSUME IInv, NEW t \in Tasks, response(t)
  PROVE  IInv'
<1> USE DEF response, promisev, objectv
<1>1. At("response", t) /\ {"body", "response"} \subseteq Steps
      /\ "body" # "suspend" /\ "body" # "response"
  BY DEF Steps
<1>2. coro[t] \in {"running", "io"} /\ <<"response", t>> \in Frames(stack)
  BY <1>1, TopOf DEF FrameOK
<1>3. /\ stack' \in Seq(Steps \X Tasks) /\ StackInv' /\ ~AtResponse'
      /\ Frames(stack') = (Frames(stack) \ {<<"response", t>>}) \cup {<<"body", t>>}
      /\ \A f \in Frames(stack) \ {<<"response", t>>} : f[2] # t /\ f \in DeepSteps \X Tasks
      /\ Admit = {} => Ordered(stack', target')
  BY <1>1, BecomesStack
<1>4. TypeOK' /\ ObjectInv' /\ StatusAgrees' /\ ReturnInv' /\ NoDangling'
  BY <1>2, <1>3, NoErrorType DEF IInv, TypeOK, ObjectInv, StatusAgrees, ReturnInv, NoDangling
<1>5. FrameInv' /\ CoroInv'
  BY <1>2, <1>3 DEF IInv, TypeOK, FrameInv, FrameOK, DeepSteps, CoroInv, Owns
<1>6. HandleInv'
  BY <1>2, <1>3 DEF IInv, TypeOK, HandleInv, OffStack
<1>7. Admit = {} => KnownInv'
  BY <1>2, <1>3 DEF IInv, TypeOK, PlainInv, KnownInv, CoroInv
<1>8. ResponseInv'
  BY <1>3 DEF IInv, ResponseInv
<1>. QED  BY <1>3, <1>4, <1>5, <1>6, <1>7, <1>8 DEF IInv, PlainInv

-----------------------------------------------------------------------------
(* The end of a coroutine and of an EvTask.                                *)

\* ~EvTask never writes to a frame that is gone: an EvTask that is not marked
\* done has a frame.
LEMMA NotDangling ==
  ASSUME IInv, NEW p \in Tasks, NEW ts \in SUBSET {u \in Tasks : Owns(p, u)}
  PROVE  ~Dangling(ts)
BY DEF IInv, StatusAgrees, Dangling, detached, Owns

\* What ~EvTask of tasks of p, which runs, leaves true when p goes on or returns.
LEMMA DestroyedInv ==
  ASSUME IInv, NEW p \in Tasks, coro[p] = "running",
         NEW ts \in SUBSET {u \in Tasks : Owns(p, u)}, Destroyed(ts),
         coro' = coro \/ coro' = [coro EXCEPT ![p] = "returning"]
  PROVE  /\ p \notin ts
         /\ object' \in [Tasks -> {"none", "alive", "destroyed"}]
         /\ owner' \in [Tasks -> Tasks \cup {None}]
         /\ started_coro' \in [Tasks -> BOOLEAN] /\ handler_done' \in [Tasks -> BOOLEAN]
         /\ task_status_ptr' \in [Tasks -> BOOLEAN]
         /\ \A u \in Tasks \ ts : owner'[u] = owner[u] /\ object'[u] = object[u]
         /\ \A u \in ts : object'[u] = "destroyed"
         /\ ObjectInv' /\ StatusAgrees'
<1>1. p \notin ts
  BY DEF IInv, ObjectInv, Owns
<1>2. \A u \in Tasks :
        /\ object'[u] = IF u \in ts THEN "destroyed" ELSE object[u]
        /\ owner'[u] = IF u \in ts THEN None ELSE owner[u]
        /\ started_coro'[u] <=> u \notin ts /\ started_coro[u]
        /\ handler_done'[u] <=> u \notin ts /\ handler_done[u]
        /\ task_status_ptr'[u] <=> task_status_ptr[u] /\ (u \in ts => handler_done[u])
  BY DEF Destroyed, Forget, detached
<1>3. /\ object' \in [Tasks -> {"none", "alive", "destroyed"}]
      /\ owner' \in [Tasks -> Tasks \cup {None}]
      /\ started_coro' \in [Tasks -> BOOLEAN] /\ handler_done' \in [Tasks -> BOOLEAN]
  BY DEF IInv, TypeOK, Destroyed, Forget
<1>4. task_status_ptr' \in [Tasks -> BOOLEAN]
  BY DEF Destroyed
<1>5. \A u \in Tasks :
        \/ coro'[u] = coro[u]
        \/ u = p /\ coro[u] = "running" /\ coro'[u] = "returning"
  BY DEF IInv, TypeOK
<1>6. ObjectInv' /\ StatusAgrees'
  <2> SUFFICES ASSUME NEW u \in Tasks
               PROVE  /\ object'[u] = "alive" => /\ coro'[u] # "none"
                                                 /\ coro'[u] = "initial" \/ started_coro'[u]
                      /\ started_coro'[u] => coro'[u] \notin {"none", "initial"}
                      /\ handler_done'[u] => coro'[u] = "freed"
                      /\ owner'[u] # u
                      /\ coro'[u] \notin {"none", "freed"} =>
                           (task_status_ptr'[u] <=> object'[u] = "alive")
                      /\ coro'[u] = "freed" /\ object'[u] = "alive" => handler_done'[u]
    BY DEF ObjectInv, StatusAgrees
  <2>1. CASE u \in ts
    BY <2>1, <1>1, <1>2, <1>5, Constants DEF IInv, ObjectInv
  <2>2. CASE u \notin ts
    BY <2>2, <1>2, <1>5 DEF IInv, ObjectInv, StatusAgrees
  <2>. QED  BY <2>1, <2>2
<1>. QED  BY <1>1, <1>2, <1>3, <1>4, <1>5, <1>6

\* ~EvTask tells the coroutine that its status is gone.
LEMMA DropInv ==
  ASSUME IInv, NEW p \in Tasks, NEW t \in Tasks, drop(p, t)
  PROVE  IInv'
<1> USE DEF iov
<1>1. At("body", p) /\ {"body"} \subseteq Steps /\ "body" \in DeepSteps /\ Owns(p, t)
  BY DEF drop, Running, Steps, DeepSteps
<1>2. coro[p] = "running" /\ AllDeep(stack) /\ ~AtResponse
  BY <1>1, TopOf DEF FrameOK
<1>3. {t} \in SUBSET {u \in Tasks : Owns(p, u)}
  BY <1>1
<1>4. /\ Destroyed({t})
      /\ ret_code' = Forget(ret_code, {t}, 0)
      /\ returned' = Forget(returned, {t}, None)
      /\ UNCHANGED <<stack, coro, awaiter_handle, target, iov, fault>>
  BY <1>3, NotDangling DEF drop
<1>5. /\ object' \in [Tasks -> {"none", "alive", "destroyed"}]
      /\ owner' \in [Tasks -> Tasks \cup {None}]
      /\ started_coro' \in [Tasks -> BOOLEAN] /\ handler_done' \in [Tasks -> BOOLEAN]
      /\ task_status_ptr' \in [Tasks -> BOOLEAN]
      /\ \A u \in Tasks \ {t} : owner'[u] = owner[u] /\ object'[u] = object[u]
      /\ object'[t] = "destroyed"
      /\ ObjectInv' /\ StatusAgrees'
  BY <1>2, <1>3, <1>4, DestroyedInv
<1>6. TypeOK'
  BY <1>4, <1>5 DEF IInv, TypeOK, Forget
<1>7. StackInv' /\ HandleInv' /\ PlainInv' /\ ResponseInv' /\ NoDangling'
  BY <1>4 DEF IInv, StackInv, HandleInv, OffStack, PlainInv, KnownInv, ResponseInv, AtResponse,
              NoDangling
<1>8. FrameInv'
  <2>1. \A f \in Frames(stack) : f[1] # "resumed"
    BY <1>2 DEF AllDeep, Frames, DeepSteps
  <2>. QED  BY <2>1, <1>4 DEF IInv, FrameInv, FrameOK
<1>9. CoroInv'
  <2>1. \A u \in Tasks : coro[u] = "await" => /\ target[u] \in Tasks \ {t}
                                              /\ coro[target[u]] \notin {"none", "initial"}
    BY <1>1, <1>2 DEF IInv, CoroInv, Owns
  <2>2. UNCHANGED <<stack, coro, target>> /\ CoroInv
    BY <1>4 DEF IInv
  <2>. QED  BY <1>5, <2>1, <2>2, CoroKept
<1>10. ReturnInv'
  BY <1>4, <1>5 DEF IInv, TypeOK, ReturnInv, Forget
<1>. QED  BY <1>5, <1>6, <1>7, <1>8, <1>9, <1>10 DEF IInv

\* return_value, or unhandled_exception, and the way to final_suspend.
LEMMA CoReturnInv ==
  ASSUME IInv, NEW t \in Tasks, NEW c \in Codes \cup {Exception}, co_return(t, c)
  PROVE  IInv'
<1> DEFINE mine == {u \in Tasks : Owns(t, u)}
           heard == {t} \cap {u \in Tasks : task_status_ptr[u]}
<1> USE DEF iov
<1>1. At("body", t) /\ {"body", "final_suspend"} \subseteq Steps
      /\ "final_suspend" # "suspend" /\ "final_suspend" # "response"
  BY DEF co_return, Running, Steps
<1>2. coro[t] = "running" /\ <<"body", t>> \in Frames(stack) /\ ~AtResponse
  BY <1>1, TopOf DEF FrameOK
<1>3. task_status_ptr[t] <=> object[t] = "alive"
  BY <1>2 DEF IInv, StatusAgrees
<1>4. /\ Destroyed(mine)
      /\ ret_code' = Forget(Forget(ret_code, mine, 0), heard, return_value(t, c))
      /\ returned' = Forget(Forget(returned, mine, None), heard, c)
      /\ coro' = [coro EXCEPT ![t] = "returning"]
      /\ Becomes("final_suspend", t)
      /\ UNCHANGED <<awaiter_handle, target, iov, fault>>
  BY <1>3, NotDangling DEF co_return
<1>5. /\ t \notin mine
      /\ object' \in [Tasks -> {"none", "alive", "destroyed"}]
      /\ owner' \in [Tasks -> Tasks \cup {None}]
      /\ started_coro' \in [Tasks -> BOOLEAN] /\ handler_done' \in [Tasks -> BOOLEAN]
      /\ task_status_ptr' \in [Tasks -> BOOLEAN]
      /\ \A u \in Tasks \ mine : owner'[u] = owner[u] /\ object'[u] = object[u]
      /\ \A u \in mine : object'[u] = "destroyed"
      /\ ObjectInv' /\ StatusAgrees'
  BY <1>2, <1>4, DestroyedInv
<1>6. /\ stack' \in Seq(Steps \X Tasks) /\ StackInv' /\ ~AtResponse'
      /\ Frames(stack') = (Frames(stack) \ {<<"body", t>>}) \cup {<<"final_suspend", t>>}
      /\ \A f \in Frames(stack) \ {<<"body", t>>} : f[2] # t /\ f \in DeepSteps \X Tasks
      /\ Admit = {} => Ordered(stack', target')
  BY <1>1, <1>4, BecomesStack
<1>7. \A u \in Tasks :
        /\ ret_code'[u] = IF u = t /\ task_status_ptr[t] THEN return_value(t, c)
                          ELSE IF u \in mine THEN 0 ELSE ret_code[u]
        /\ returned'[u] = IF u = t /\ task_status_ptr[t] THEN c
                          ELSE IF u \in mine THEN None ELSE returned[u]
  BY <1>4 DEF Forget
<1>8. \A u \in mine : owner[u] = t
  BY DEF Owns
<1>9. returned[t] = None /\ ret_code[t] = 0
  BY <1>2 DEF IInv, ReturnInv
<1>10. return_value(t, c) \in Codes \cup {0}
       /\ return_value(t, c) = (IF c \in {None, Exception} THEN 0 ELSE c) /\ c # None
  BY <1>9, Constants DEF return_value
<1> HIDE DEF mine, heard
<1>11. TypeOK'
  <2>1. ret_code' \in [Tasks -> Codes \cup {0}]
        /\ returned' \in [Tasks -> Codes \cup {Exception, None}]
    BY <1>4, <1>7, <1>10 DEF IInv, TypeOK, Forget
  <2>. QED  BY <2>1, <1>4, <1>5, <1>6 DEF IInv, TypeOK
<1>12. FrameInv'
  BY <1>4, <1>6 DEF IInv, TypeOK, FrameInv, FrameOK, DeepSteps
<1>13. CoroInv'
  <2> SUFFICES ASSUME NEW u \in Tasks
               PROVE  /\ coro'[u] = "returning" => <<"final_suspend", u>> \in Frames(stack')
                                                  \/ <<"final_rest", u>> \in Frames(stack')
                      /\ coro'[u] = "await" => /\ target'[u] \in Tasks
                                               /\ owner'[target'[u]] = u
                                               /\ object'[target'[u]] = "alive"
                                               /\ coro'[target'[u]] \notin {"none", "initial"}
    BY DEF CoroInv, Owns
  <2>1. CASE u = t
    BY <2>1, <1>4, <1>6 DEF IInv, TypeOK
  <2>2. CASE u # t
    <3>1. coro'[u] = coro[u]
      BY <2>2, <1>4 DEF IInv, TypeOK
    <3>2. coro[u] = "await" => target[u] \in Tasks \ mine
      BY <2>2, <1>8 DEF IInv, CoroInv, Owns
    <3>3. coro[u] = "await" => /\ owner'[target[u]] = u /\ object'[target[u]] = "alive"
                               /\ coro'[target[u]] \notin {"none", "initial"}
      <4>1. coro[u] = "await" => /\ owner[target[u]] = u /\ object[target[u]] = "alive"
                                 /\ coro[target[u]] \notin {"none", "initial"}
        BY DEF IInv, CoroInv, Owns
      <4>2. \A v \in Tasks : coro'[v] = coro[v] \/ coro'[v] = "returning"
        BY <1>4 DEF IInv, TypeOK
      <4>. QED  BY <3>2, <4>1, <4>2, <1>5
    <3>. QED  BY <2>2, <3>1, <3>2, <3>3, <1>4, <1>6 DEF IInv, CoroInv
  <2>. QED  BY <2>1, <2>2
<1>14. ReturnInv'
  <2> SUFFICES ASSUME NEW u \in Tasks
               PROVE  /\ ret_code'[u] = IF returned'[u] \in {None, Exception} THEN 0 ELSE returned'[u]
                      /\ coro'[u] \notin {"returning", "freed"} => returned'[u] = None
                      /\ coro'[u] \in {"returning", "freed"} /\ object'[u] = "alive" =>
                           returned'[u] # None
    BY DEF ReturnInv
  <2>1. CASE u = t
    <3>1. coro'[u] = "returning" /\ object'[u] = object[u]
      BY <2>1, <1>4, <1>5 DEF IInv, TypeOK
    <3>2. CASE task_status_ptr[t]
      <4>1. ret_code'[u] = return_value(t, c) /\ returned'[u] = c
        BY <2>1, <3>2, <1>7
      <4>. QED  BY <3>1, <4>1, <1>10
    <3>3. CASE ~task_status_ptr[t]
      <4>1. ret_code'[u] = 0 /\ returned'[u] = None
        BY <2>1, <3>3, <1>5, <1>7, <1>9
      <4>. QED  BY <2>1, <3>1, <3>3, <4>1, <1>3
    <3>. QED  BY <3>2, <3>3
  <2>2. CASE u # t
    <3>1. coro'[u] = coro[u]
      BY <2>2, <1>4 DEF IInv, TypeOK
    <3>. QED  BY <2>2, <3>1, <1>5, <1>7 DEF IInv, ReturnInv
  <2>. QED  BY <2>1, <2>2
<1>15. HandleInv'
  BY <1>2, <1>4, <1>6 DEF IInv, TypeOK, HandleInv, OffStack
<1>16. Admit = {} => KnownInv'
  BY <1>2, <1>4, <1>6 DEF IInv, TypeOK, PlainInv, KnownInv, CoroInv
<1>17. ResponseInv' /\ NoDangling'
  BY <1>2, <1>4, <1>6 DEF IInv, ResponseInv, NoDangling
<1>. QED  BY <1>5, <1>6, <1>11, <1>12, <1>13, <1>14, <1>15, <1>16, <1>17 DEF IInv, PlainInv

\* final_suspend resumes the awaiter inside the finishing coroutine.
LEMMA FinalSuspendInv ==
  ASSUME IInv, NEW t \in Tasks, final_suspend(t)
  PROVE  IInv'
<1> DEFINE p == awaiter_handle[t]
           q == Tail(stack)
<1> USE DEF final_suspend, to_resume, promisev, objectv, iov
<1>1. At("final_suspend", t) /\ {"final_suspend", "final_rest", "resumed"} \subseteq Steps
      /\ "final_rest" # "suspend" /\ "final_rest" # "response" /\ "resumed" # "suspend"
      /\ "final_rest" \in DeepSteps
  BY DEF Steps, DeepSteps
<1>2. /\ coro[t] = "returning" /\ <<"final_suspend", t>> \in Frames(stack) /\ ~AtResponse
      /\ q \in Seq(Steps \X Tasks) /\ Single(q) /\ AllDeep(q)
      /\ Frames(q) = Frames(stack) \ {<<"final_suspend", t>>}
      /\ \A f \in Frames(q) : f[2] # t
      /\ \A f \in Frames(stack) : f = <<"final_suspend", t>> \/ f[2] # t
      /\ Admit = {} => Ordered(q, target)
  BY <1>1, TopOf DEF FrameOK
<1> HIDE DEF q
<1>3. <<"final_rest", t>> \notin Frames(stack)
  BY <1>2
<1>4. CASE p = None
  <2>1. Becomes("final_rest", t) /\ UNCHANGED fault
    BY <1>4
  <2>2. /\ stack' \in Seq(Steps \X Tasks) /\ StackInv' /\ ~AtResponse'
        /\ Frames(stack') = (Frames(stack) \ {<<"final_suspend", t>>}) \cup {<<"final_rest", t>>}
        /\ Admit = {} => Ordered(stack', target')
    BY <1>1, <2>1, BecomesStack
  <2>3. TypeOK' /\ ObjectInv' /\ StatusAgrees' /\ ReturnInv' /\ NoDangling'
    BY <2>1, <2>2 DEF IInv, TypeOK, ObjectInv, StatusAgrees, ReturnInv, NoDangling
  <2>4. FrameInv' /\ CoroInv'
    BY <2>2, <1>2 DEF IInv, FrameInv, FrameOK, CoroInv, Owns
  <2>5. HandleInv'
    BY <2>2, <1>2, <1>4 DEF IInv, HandleInv, OffStack
  <2>6. Admit = {} => KnownInv'
    BY <2>2, <1>2, <1>4, Constants DEF IInv, PlainInv, KnownInv
  <2>7. ResponseInv'
    BY <2>2, <1>2 DEF IInv, ResponseInv
  <2>. QED  BY <2>2, <2>3, <2>4, <2>5, <2>6, <2>7 DEF IInv, PlainInv
<1>5. CASE p # None
  <2>1. p \in Tasks /\ coro[p] = "await" /\ target[p] = t /\ OffStack(p) /\ p # t
    BY <1>2, <1>3, <1>5 DEF IInv, TypeOK, HandleInv
  <2>2. object[t] = "alive" /\ owner[t] = p /\ returned[t] # None
    <3>1. object[t] = "alive" /\ owner[t] = p
      BY <2>1 DEF IInv, CoroInv, Owns
    <3>. QED  BY <3>1, <1>2 DEF IInv, ReturnInv
  <2> DEFINE rest == Call("final_rest", t, q)
  <2>3. stack' = Call("resumed", p, rest) /\ UNCHANGED fault
    BY <2>1, <1>5 DEF q
  <2> HIDE DEF p
  <2>4. /\ rest \in Seq(Steps \X Tasks) /\ Single(rest) /\ AllDeep(rest)
        /\ Frames(rest) = Frames(q) \cup {<<"final_rest", t>>}
        /\ \A tgt : Ordered(q, tgt) => Ordered(rest, tgt)
    BY <1>1, <1>2, CallStack
  <2> HIDE DEF rest
  <2>5. \A f \in Frames(rest) : f[2] # p
    BY <2>1, <2>4, <1>2 DEF OffStack
  <2>6. /\ stack' \in Seq(Steps \X Tasks) /\ stack' # <<>> /\ Head(stack') = <<"resumed", p>>
        /\ Single(stack') /\ Nested(stack') /\ Frames(stack') = Frames(rest) \cup {<<"resumed", p>>}
        /\ \A tgt : Ordered(rest, tgt) => Ordered(stack', tgt)
    BY <2>1, <2>3, <2>4, <2>5, <1>1, CallStack
  <2>7. /\ StackInv' /\ ~AtResponse'
        /\ Admit = {} => Ordered(stack', target')
    BY <2>4, <2>6, <1>2 DEF StackInv, AtResponse
  <2>8. Frames(stack') = ((Frames(stack) \ {<<"final_suspend", t>>}) \cup {<<"final_rest", t>>})
                           \cup {<<"resumed", p>>}
    BY <2>4, <2>6, <1>2
  <2>9. TypeOK' /\ ObjectInv' /\ StatusAgrees' /\ ReturnInv' /\ NoDangling'
    BY <2>3, <2>6 DEF IInv, TypeOK, ObjectInv, StatusAgrees, ReturnInv, NoDangling
  <2>10. FrameInv' /\ CoroInv'
    BY <2>1, <2>2, <2>8, <1>2 DEF IInv, FrameInv, FrameOK, CoroInv, Owns
  <2>11. HandleInv'
    BY <2>1, <2>8, <1>2 DEF IInv, HandleInv, OffStack
  <2>12. Admit = {} => KnownInv'
    <3> SUFFICES ASSUME Admit = {}, NEW u \in Tasks, coro[u] = "await"
                 PROVE  \/ <<"suspend", u>> \in Frames(stack') \/ <<"resumed", u>> \in Frames(stack')
                        \/ /\ awaiter_handle[target[u]] = u
                           /\ \/ coro[target[u]] \in {"running", "io", "await"}
                              \/ <<"final_suspend", target[u]>> \in Frames(stack')
      BY DEF KnownInv
    <3>1. CASE u = p
      BY <3>1, <2>8
    <3>2. CASE u # p
      <4>1. target[u] # t
        BY <3>2, <2>2 DEF IInv, CoroInv, Owns
      <4>. QED  BY <4>1, <2>8 DEF IInv, PlainInv, KnownInv
    <3>. QED  BY <3>1, <3>2
  <2>13. ResponseInv'
    BY <2>7, <1>2 DEF IInv, ResponseInv
  <2>. QED  BY <2>7, <2>9, <2>10, <2>11, <2>12, <2>13 DEF IInv, PlainInv
<1>. QED  BY <1>4, <1>5

\* The rest of final_suspend; then the frame frees itself.
LEMMA FinalRestInv ==
  ASSUME IInv, NEW t \in Tasks, final_rest(t)
  PROVE  IInv'
<1>1. At("final_rest", t) /\ "final_rest" \in Steps
  BY DEF final_rest, Steps
<1>2. coro[t] = "returning" /\ <<"final_rest", t>> \in Frames(stack) /\ ~AtResponse
      /\ \A f \in Frames(stack) : f = <<"final_rest", t>> \/ f[2] # t
  BY <1>1, TopOf DEF FrameOK
<1>3. task_status_ptr[t] <=> object[t] = "alive"
  BY <1>2 DEF IInv, StatusAgrees
<1>4. /\ handler_done' = [handler_done EXCEPT ![t] = @ \/ task_status_ptr[t]]
      /\ coro' = [coro EXCEPT ![t] = "freed"]
      /\ task_status_ptr' = Forget(task_status_ptr, {t}, FALSE)
      /\ awaiter_handle' = Forget(awaiter_handle, {t}, None)
      /\ com_data' = Forget(com_data, {t}, monostate)
      /\ stack' = Tail(stack)
      /\ UNCHANGED <<object, owner, started_coro, ret_code, target, op, error, completion, handling, returned,
                     fault>>
  BY <1>3 DEF final_rest, marked_done
<1>5. /\ stack' \in Seq(Steps \X Tasks) /\ StackInv' /\ ~AtResponse'
      /\ Frames(stack') = Frames(stack) \ {<<"final_rest", t>>}
      /\ \A f \in Frames(stack') : f[2] # t /\ f \in DeepSteps \X Tasks
      /\ Admit = {} => Ordered(stack', target')
  BY <1>1, <1>4, PopStack
<1>6. /\ handler_done' \in [Tasks -> BOOLEAN] /\ task_status_ptr' \in [Tasks -> BOOLEAN]
      /\ awaiter_handle' \in [Tasks -> Tasks \cup {None}]
  BY <1>4 DEF IInv, TypeOK, Forget
<1>7. /\ coro'[t] = "freed" /\ awaiter_handle'[t] = None
      /\ object[t] = "alive" => handler_done'[t]
      /\ \A u \in Tasks : u # t =>
           /\ coro'[u] = coro[u] /\ awaiter_handle'[u] = awaiter_handle[u]
           /\ handler_done'[u] <=> handler_done[u]
           /\ task_status_ptr'[u] <=> task_status_ptr[u]
  BY <1>3, <1>4 DEF IInv, TypeOK, Forget
<1>8. TypeOK'
  BY <1>4, <1>5, <1>6 DEF IInv, TypeOK
<1>9. FrameInv' /\ CoroInv'
  BY <1>4, <1>5, <1>7 DEF IInv, TypeOK, FrameInv, FrameOK, DeepSteps, CoroInv, Owns
<1>10. ObjectInv' /\ StatusAgrees'
  <2> SUFFICES ASSUME NEW u \in Tasks
               PROVE  /\ object[u] = "alive" => /\ coro'[u] # "none"
                                                /\ coro'[u] = "initial" \/ started_coro[u]
                      /\ started_coro[u] => coro'[u] \notin {"none", "initial"}
                      /\ handler_done'[u] => coro'[u] = "freed"
                      /\ owner[u] # u
                      /\ coro'[u] \notin {"none", "freed"} =>
                           (task_status_ptr'[u] <=> object[u] = "alive")
                      /\ coro'[u] = "freed" /\ object[u] = "alive" => handler_done'[u]
    BY <1>4 DEF ObjectInv, StatusAgrees
  <2>1. CASE u = t
    BY <2>1, <1>2, <1>7 DEF IInv, ObjectInv
  <2>2. CASE u # t
    BY <2>2, <1>7 DEF IInv, ObjectInv, StatusAgrees
  <2>. QED  BY <2>1, <2>2
<1>11. ReturnInv'
  BY <1>2, <1>4, <1>7 DEF IInv, ReturnInv
<1>12. HandleInv'
  <2> SUFFICES ASSUME NEW u \in Tasks, awaiter_handle'[u] # None,
                      <<"final_rest", u>> \notin Frames(stack')
               PROVE  /\ coro'[awaiter_handle'[u]] = "await" /\ target[awaiter_handle'[u]] = u
                      /\ \A f \in Frames(stack') : f[2] # awaiter_handle'[u]
    BY <1>4 DEF HandleInv, OffStack
  <2>1. u # t /\ awaiter_handle'[u] = awaiter_handle[u] /\ <<"final_rest", u>> \notin Frames(stack)
    BY <1>5, <1>7
  <2>2. awaiter_handle[u] \in Tasks /\ coro[awaiter_handle[u]] = "await"
        /\ target[awaiter_handle[u]] = u /\ OffStack(awaiter_handle[u])
    BY <2>1 DEF IInv, TypeOK, HandleInv
  <2>3. awaiter_handle[u] # t
    BY <2>2, <1>2
  <2>. QED  BY <2>1, <2>2, <2>3, <1>5, <1>7 DEF OffStack
<1>13. Admit = {} => KnownInv'
  <2> SUFFICES ASSUME Admit = {}, NEW u \in Tasks, coro'[u] = "await"
               PROVE  \/ <<"suspend", u>> \in Frames(stack') \/ <<"resumed", u>> \in Frames(stack')
                      \/ /\ awaiter_handle'[target[u]] = u
                         /\ \/ coro'[target[u]] \in {"running", "io", "await"}
                            \/ <<"final_suspend", target[u]>> \in Frames(stack')
    BY <1>4 DEF KnownInv
  <2>1. u # t /\ coro[u] = "await" /\ target[u] \in Tasks
    BY <1>7 DEF IInv, CoroInv
  <2>2. CASE target[u] = t
    <3>1. <<"suspend", u>> \in Frames(stack) \/ <<"resumed", u>> \in Frames(stack)
      BY <2>1, <2>2, <1>2 DEF IInv, PlainInv, KnownInv
    <3>. QED  BY <3>1, <1>5
  <2>3. CASE target[u] # t
    BY <2>1, <2>3, <1>5, <1>7 DEF IInv, PlainInv, KnownInv
  <2>. QED  BY <2>2, <2>3
<1>14. ResponseInv' /\ NoDangling'
  BY <1>2, <1>4, <1>5 DEF IInv, ResponseInv, NoDangling, Forget
<1>. QED  BY <1>5, <1>8, <1>9, <1>10, <1>11, <1>12, <1>13, <1>14 DEF IInv, PlainInv

-----------------------------------------------------------------------------
(* The theorems.                                                           *)

\* Every step preserves the invariant.
LEMMA StepInv == IInv /\ Next => IInv'
<1> SUFFICES ASSUME IInv, Next PROVE IInv'
  OBVIOUS
<1>1. CASE Library
  <2>1. PICK t \in Tasks :
          await_suspend(t) \/ await_resume(t) \/ final_suspend(t) \/ final_rest(t) \/ response(t)
    BY <1>1 DEF Library
  <2>. QED  BY <2>1, AwaitSuspendInv, AwaitResumeInv, FinalSuspendInv, FinalRestInv,
               ResponseStepInv
<1>2. CASE Client
  <2>1. PICK t \in Tasks :
          \/ register_coro(t)
          \/ \E u \in Tasks : create(t, u) \/ start(t, u) \/ co_await(t, u) \/ drop(t, u)
          \/ \E rt \in Types \cup {"generic"} : wait_response(t, rt)
          \/ \E rt \in Types, e \in AwaitableErrors : refuse(t, rt, e)
          \/ \E c \in Codes \cup {Exception} : co_return(t, c)
    BY <1>2 DEF Client
  <2>2. CASE register_coro(t)
    BY <2>2, RegisterInv
  <2>3. CASE \E u \in Tasks : create(t, u) \/ start(t, u) \/ co_await(t, u) \/ drop(t, u)
    BY <2>3, CreateInv, StartInv, CoAwaitInv, DropInv
  <2>4. CASE \E rt \in Types \cup {"generic"} : wait_response(t, rt)
    BY <2>4, WaitResponseInv, AsideInv
  <2>5. CASE \E rt \in Types, e \in AwaitableErrors : refuse(t, rt, e)
    BY <2>5, RefuseInv, AsideInv
  <2>6. CASE \E c \in Codes \cup {Exception} : co_return(t, c)
    BY <2>6, CoReturnInv
  <2>. QED  BY <2>1, <2>2, <2>3, <2>4, <2>5, <2>6
<1>3. CASE \E t \in Tasks, rt \in Types, res \in Results : event_handler(t, rt, res)
  BY <1>3, EventHandlerInv
<1>4. CASE event_handled
  BY <1>4, AsideInv
<1>. QED  BY <1>1, <1>2, <1>3, <1>4 DEF Next

\* The invariant holds throughout every behaviour.
LEMMA Invariance == Spec => []IInv
<1>1. IInv /\ [Next]_vars => IInv'
  BY StepInv, StutterInv
<1>. QED  BY <1>1, InitInv, PTL DEF Spec

\* The state has its types in every reachable state.
THEOREM TypeCorrect == Spec => []TypeOK
<1>1. IInv => TypeOK
  BY DEF IInv
<1>. QED  BY <1>1, Invariance, PTL

\* The promise and the EvTask agree about each other whichever goes first,
\* under await_again too (task.cpp: destructor, start, await_suspend and
\* final_suspend).
THEOREM StatusCorrect == Spec => []StatusAgrees
<1>1. IInv => StatusAgrees
  BY DEF IInv
<1>. QED  BY <1>1, Invariance, PTL

\* EvTask's await_suspend and destructor, return_value and final_suspend never
\* use a frame or a TaskStatus that is gone, or resume a coroutine that is not
\* suspended, also behind a TaskStatus that was null where await_suspend of an
\* operation did not look (io_awaitables.hpp 52), and which is not covered.
THEOREM DanglingFree == Spec => []NoDangling
<1>1. IInv => NoDangling
  BY DEF IInv
<1>. QED  BY <1>1, Invariance, PTL

\* In the plain usage a coroutine suspended in co_await is going to be resumed
\* by an await_suspend under way or by the final_suspend of the one it awaits.
\* With await_again this fails, as the run await_again shows.
THEOREM AwaiterCorrect ==
  ASSUME Admit = {}
  PROVE  Spec => []AwaiterKnown
<1>1. IInv => AwaiterKnown
  <2>1. KnownInv => AwaiterKnown
    BY DEF KnownInv, AwaiterKnown, OnStack, Frames
  <2>. QED  BY <2>1 DEF IInv, PlainInv
<1>. QED  BY <1>1, Invariance, PTL

\* co_await t yields what t returned, and 0 if t threw (await_resume).
THEOREM AwaitCorrect == Spec => []AwaitYieldsReturn
<1>1. IInv => AwaitYieldsReturn
  <2> SUFFICES ASSUME IInv, NEW p \in Tasks, At("resumed", p)
               PROVE  LET c == returned[target[p]] IN
                      /\ c # None
                      /\ await_value(target[p]) = IF c = Exception THEN 0 ELSE c
    BY DEF AwaitYieldsReturn
  <2>1. coro[p] = "await" /\ returned[target[p]] # None
    <3>1. "resumed" \in Steps
      BY DEF Steps
    <3>. QED  BY <3>1, TopOf DEF FrameOK
  <2>2. target[p] \in Tasks /\ object[target[p]] = "alive"
    BY <2>1 DEF IInv, CoroInv, Owns
  <2>. QED  BY <2>1, <2>2 DEF IInv, ReturnInv, await_value
<1>. QED  BY <1>1, Invariance, PTL

\* An awaited operation yields its own response, with an error exactly if it
\* failed, and one that was not made its own error (io_awaitables.hpp,
\* await_resume; core.cpp, event_handler).
THEOREM ResponseCorrect == Spec => []OwnResponse
<1>1. IInv => OwnResponse
  <2> SUFFICES ASSUME IInv, NEW t \in Tasks, At("response", t), op[t] # "generic"
               PROVE  IF is_there_an_error(error)
                      THEN IOResponse(t) = [error |-> error, data |-> monostate]
                      ELSE /\ IOResponse(t).data
                                = response_pack(completion.type, completion.res, Fd)
                           /\ is_there_an_error(IOResponse(t).error) <=> completion.res < 0
                           /\ IOResponse(t).error.type # "EVENT_MANAGER_ERR"
    BY DEF OwnResponse
  <2>1. CASE is_there_an_error(error)
    BY <2>1 DEF IOResponse, await_resume_io
  <2>2. CASE ~is_there_an_error(error)
    <3> DEFINE pack == response_pack(completion.type, completion.res, Fd)
    <3>1. AtResponse /\ Head(stack) = <<"response", t>>
      BY DEF At, AtResponse
    <3>2. /\ completion \in [type : Types, res : Results] /\ op[t] = completion.type
          /\ com_data[t] = pack
      BY <2>2, <3>1 DEF IInv, ResponseInv
    <3>3. pack.type = op[t] /\ pack.error_num = error_num(completion.res)
      BY <3>2 DEF response_pack
    <3> HIDE DEF pack
    <3>4. IOResponse(t) = [error |-> operation_error(error_num(completion.res)), data |-> pack]
      BY <2>2, <3>2, <3>3 DEF IOResponse, await_resume_io, has_response
    <3>5. completion.res \in Int
      BY <3>2, Constants
    <3>6. is_there_an_error(operation_error(error_num(completion.res))) <=> completion.res < 0
      BY <3>5, ErrorIffFailed
    <3>7. operation_error(error_num(completion.res)).type # "EVENT_MANAGER_ERR"
      BY DEF operation_error, set_error_from_num, no_error
    <3>. QED  BY <2>2, <3>4, <3>6, <3>7 DEF pack
  <2>. QED  BY <2>1, <2>2
<1>. QED  BY <1>1, Invariance, PTL

-----------------------------------------------------------------------------
(* What event_handler finds when its resume returns.                       *)

\* The outermost call of the stack q, if any, is on behalf of h.
Outermost(q, h) == q # <<>> => q[Len(q)][2] = h

\* event_handler's resume is the outermost call until it returns, and the
\* coroutine it resumed frees its frame in the last step before it does.
PlaceInv ==
  handling # None =>
    Outermost(stack, handling) /\ (coro[handling] = "freed" => stack = <<>>)

\* How a step of the thread changes the stack q to r: not at all, by a return,
\* by going on in the innermost call, by a call, or by both.
Moves(q, r) ==
  LET go(s) == Call(s, Head(q)[2], Tail(q)) IN
  \/ r = q \/ r = Tail(q)
  \/ \E s \in Steps : r = go(s)
  \/ \E s \in Steps, t \in Tasks : r = Call(s, t, q)
  \/ \E s, d \in Steps, t \in Tasks : r = Call(d, t, go(s))

\* A call that is not the only one leaves the outermost one in place.
LEMMA CallOutermost ==
  ASSUME NEW q \in Seq(Steps \X Tasks), NEW s \in Steps, NEW t \in Tasks, NEW h,
         q = <<>> => t = h, Outermost(q, h)
  PROVE  /\ Call(s, t, q) \in Seq(Steps \X Tasks) /\ Call(s, t, q) # <<>>
         /\ Outermost(Call(s, t, q), h)
<1> DEFINE e == <<s, t>>
           L == Len(q)
           c == <<e>> \o q
<1>1. e \in Steps \X Tasks /\ e[2] = t /\ Call(s, t, q) = c
  BY DEF Call
<1> HIDE DEF e
<1>2. L \in Nat /\ <<e>> \in Seq(Steps \X Tasks) /\ Len(<<e>>) = 1 /\ <<e>>[1] = e
  BY <1>1, LenProperties
<1>3. /\ c \in Seq(Steps \X Tasks) /\ Len(c) = 1 + L
      /\ \A k \in 1..(1 + L) : c[k] = IF k <= 1 THEN <<e>>[k] ELSE q[k - 1]
  BY <1>2, ConcatProperties
<1> HIDE DEF c
<1>4. c # <<>>
  BY <1>2, <1>3, EmptySeq
<1>5. CASE L = 0
  <2>1. q = <<>> /\ c[1] = e
    BY <1>2, <1>3, <1>5, EmptySeq
  <2>. QED  BY <2>1, <1>1, <1>3, <1>4, <1>5 DEF Outermost
<1>6. CASE L # 0
  <2>1. q # <<>> /\ 1 + L \in 1..(1 + L) /\ ~(1 + L <= 1) /\ (1 + L) - 1 = L
    BY <1>2, <1>6, EmptySeq
  <2>2. c[1 + L] = q[L]
    BY <2>1, <1>3
  <2>. QED  BY <2>1, <2>2, <1>1, <1>3, <1>4 DEF Outermost
<1>. QED  BY <1>5, <1>6

\* A return leaves the outermost call in place, unless it is the one that
\* returns.
LEMMA TailOutermost ==
  ASSUME NEW q \in Seq(Steps \X Tasks), q # <<>>, NEW h, Outermost(q, h)
  PROVE  /\ Tail(q) \in Seq(Steps \X Tasks) /\ Outermost(Tail(q), h)
         /\ Head(q)[2] \in Tasks /\ (Tail(q) = <<>> => Head(q)[2] = h)
         /\ Single(q) /\ Head(q)[2] = h => Tail(q) = <<>>
<1> DEFINE L == Len(q)
           r == Tail(q)
<1>1. /\ r \in Seq(Steps \X Tasks) /\ L \in Nat \ {0} /\ DOMAIN q = 1..L /\ Len(r) = L - 1
      /\ \A k \in 1..(L - 1) : r[k] = q[k + 1]
      /\ Head(q) = q[1] /\ Head(q) \in Steps \X Tasks
  BY HeadTailProperties, EmptySeq, LenProperties
<1>2. Head(q)[2] \in Tasks
  BY <1>1
<1> HIDE DEF L, r
<1>3. q[L][2] = h
  BY DEF Outermost, L
<1>4. CASE L = 1
  <2>1. r = <<>>
    BY <1>1, <1>4, EmptySeq
  <2>. QED  BY <2>1, <1>1, <1>2, <1>3, <1>4 DEF Outermost, r
<1>5. CASE L # 1
  <2>1. L - 1 \in 1..(L - 1) /\ (L - 1) + 1 = L /\ L \in 1..L /\ 1 \in 1..L /\ L - 1 # 0
    BY <1>1, <1>5
  <2>2. r # <<>> /\ r[L - 1] = q[L]
    BY <2>1, <1>1, EmptySeq
  <2>3. Single(q) => q[1][2] # h
    BY <2>1, <1>1, <1>3, <1>5 DEF Single
  <2>. QED  BY <2>2, <2>3, <1>1, <1>2, <1>3 DEF Outermost, r
<1>. QED  BY <1>4, <1>5

\* The thread's steps leave event_handler's resume outermost.
LEMMA MovesOutermost ==
  ASSUME NEW q \in Seq(Steps \X Tasks), q # <<>>, NEW h, Outermost(q, h),
         NEW r, Moves(q, r)
  PROVE  Outermost(r, h)
<1>1. /\ Tail(q) \in Seq(Steps \X Tasks) /\ Outermost(Tail(q), h)
      /\ Head(q)[2] \in Tasks /\ (Tail(q) = <<>> => Head(q)[2] = h)
  BY TailOutermost
<1>2. ASSUME NEW s \in Steps
      PROVE  /\ Call(s, Head(q)[2], Tail(q)) \in Seq(Steps \X Tasks)
             /\ Call(s, Head(q)[2], Tail(q)) # <<>>
             /\ Outermost(Call(s, Head(q)[2], Tail(q)), h)
  BY <1>1, CallOutermost
<1>3. ASSUME NEW p \in Seq(Steps \X Tasks), p # <<>>, Outermost(p, h),
             NEW s \in Steps, NEW t \in Tasks
      PROVE  Outermost(Call(s, t, p), h)
  BY <1>3, CallOutermost
<1>4. CASE r = q \/ r = Tail(q)
  BY <1>1, <1>4
<1>5. CASE \E s \in Steps : r = Call(s, Head(q)[2], Tail(q))
  BY <1>2, <1>5
<1>6. CASE \E s \in Steps, t \in Tasks : r = Call(s, t, q)
  BY <1>3, <1>6
<1>7. CASE \E s, d \in Steps, t \in Tasks : r = Call(d, t, Call(s, Head(q)[2], Tail(q)))
  BY <1>2, <1>3, <1>7
<1>. QED  BY <1>4, <1>5, <1>6, <1>7 DEF Moves

\* The steps taken inside a call, and the one of them that frees a frame.
LEMMA ThreadMoves ==
  ASSUME IInv, NEW t \in Tasks,
         \/ await_suspend(t) \/ await_resume(t) \/ final_suspend(t) \/ final_rest(t) \/ response(t)
         \/ \E u \in Tasks : create(t, u) \/ start(t, u) \/ co_await(t, u) \/ drop(t, u)
         \/ \E rt \in Types \cup {"generic"} : wait_response(t, rt)
         \/ \E rt \in Types, e \in AwaitableErrors : refuse(t, rt, e)
         \/ \E c \in Codes \cup {Exception} : co_return(t, c)
  PROVE  /\ stack # <<>> /\ Moves(stack, stack') /\ UNCHANGED handling
         /\ \A u \in Tasks : coro'[u] = "freed" /\ coro[u] # "freed" =>
              Head(stack)[2] = u /\ stack' = Tail(stack)
<1> USE DEF At, Running, Steps, iov
<1>1. coro \in [Tasks -> {"none", "initial", "running", "io", "await", "returning", "freed"}]
  BY DEF IInv, TypeOK
<1>2. \A s \in Steps : Becomes(s, t) /\ Head(stack)[2] = t => Moves(stack, stack')
  BY DEF Becomes, Call, Moves
<1>3. CASE await_suspend(t)
  <2>1. stack # <<>> /\ Head(stack)[2] = t /\ UNCHANGED <<coro, handling>>
        /\ (stack' = stack \/ stack' = Tail(stack) \/ Becomes("resumed", t))
    BY <1>3 DEF await_suspend
  <2>. QED  BY <2>1, <1>2 DEF Moves
<1>4. CASE await_resume(t)
  <2>1. stack # <<>> /\ Head(stack)[2] = t /\ UNCHANGED handling /\ Becomes("body", t)
        /\ coro' = [coro EXCEPT ![t] = "running"]
    BY <1>4 DEF await_resume
  <2>. QED  BY <2>1, <1>1, <1>2
<1>5. CASE final_suspend(t)
  <2>1. stack # <<>> /\ Head(stack)[2] = t /\ UNCHANGED <<coro, handling>>
        /\ \/ stack' = stack \/ Becomes("final_rest", t)
           \/ /\ awaiter_handle[t] # None
              /\ stack' = Call("resumed", awaiter_handle[t], Call("final_rest", t, Tail(stack)))
    BY <1>5 DEF final_suspend, to_resume
  <2>2. awaiter_handle[t] # None => awaiter_handle[t] \in Tasks
    BY DEF IInv, TypeOK
  <2>. QED  BY <2>1, <2>2, <1>2 DEF Moves
<1>6. CASE final_rest(t)
  <2>1. stack # <<>> /\ Head(stack)[2] = t /\ UNCHANGED handling
        /\ \/ UNCHANGED <<stack, coro>>
           \/ stack' = Tail(stack) /\ coro' = [coro EXCEPT ![t] = "freed"]
    <3>1. stack # <<>> /\ Head(stack)[2] = t
      BY <1>6 DEF final_rest
    <3>2. CASE task_status_ptr[t] /\ object[t] # "alive"
      BY <1>6, <3>1, <3>2 DEF final_rest, Faults
    <3>3. CASE ~(task_status_ptr[t] /\ object[t] # "alive")
      <4>1. stack' = Tail(stack) /\ coro' = [coro EXCEPT ![t] = "freed"] /\ UNCHANGED handling
        BY <1>6, <3>3 DEF final_rest
      <4>. QED  BY <3>1, <4>1
    <3>. QED  BY <3>2, <3>3
  <2>. QED  BY <2>1, <1>1 DEF Moves
<1>7. CASE response(t)
  <2>1. stack # <<>> /\ Head(stack)[2] = t /\ UNCHANGED handling /\ Becomes("body", t)
        /\ coro' = [coro EXCEPT ![t] = "running"]
    BY <1>7 DEF response
  <2>. QED  BY <2>1, <1>1, <1>2
<1>8. CASE \E u \in Tasks : create(t, u) \/ drop(t, u)
  <2>1. PICK u \in Tasks : create(t, u) \/ drop(t, u)
    BY <1>8
  <2>2. stack # <<>> /\ UNCHANGED <<stack, handling>>
        /\ (coro' = coro \/ coro' = [coro EXCEPT ![u] = "initial"])
    BY <2>1 DEF create, drop, Faults
  <2>. QED  BY <2>2, <1>1 DEF Moves
<1>9. CASE \E u \in Tasks : start(t, u)
  <2>1. PICK u \in Tasks : start(t, u)
    BY <1>9
  <2>2. stack # <<>> /\ stack' = Call("body", u, stack) /\ UNCHANGED handling
        /\ coro' = [coro EXCEPT ![u] = "running"]
    BY <2>1 DEF start
  <2>. QED  BY <2>2, <1>1 DEF Moves
<1>10. CASE \E u \in Tasks : co_await(t, u)
  <2>1. PICK u \in Tasks : co_await(t, u)
    BY <1>10
  <2>2. stack # <<>> /\ Head(stack)[2] = t /\ UNCHANGED handling
        /\ \/ stack' = Call("suspend", t, Tail(stack)) /\ coro' = [coro EXCEPT ![t] = "await"]
           \/ /\ stack' = Call("body", u, Call("suspend", t, Tail(stack)))
              /\ coro' = [coro EXCEPT ![t] = "await", ![u] = "running"]
    BY <2>1 DEF co_await
  <2>. QED  BY <2>2, <1>1 DEF Moves
<1>11. CASE \E rt \in Types \cup {"generic"} : wait_response(t, rt)
  <2>1. stack # <<>> /\ UNCHANGED handling
        /\ \/ UNCHANGED <<stack, coro>>
           \/ stack' = Tail(stack) /\ coro' = [coro EXCEPT ![t] = "io"]
    BY <1>11 DEF wait_response, NullStatus, Faults
  <2>. QED  BY <2>1, <1>1 DEF Moves
<1>12. CASE \E rt \in Types, e \in AwaitableErrors : refuse(t, rt, e)
  <2>1. stack # <<>> /\ Head(stack)[2] = t /\ UNCHANGED <<coro, handling>>
        /\ (UNCHANGED stack \/ Becomes("response", t))
    BY <1>12 DEF refuse, NullStatus, Faults
  <2>. QED  BY <2>1, <1>2 DEF Moves
<1>13. CASE \E c \in Codes \cup {Exception} : co_return(t, c)
  <2>1. stack # <<>> /\ Head(stack)[2] = t /\ UNCHANGED handling
        /\ \/ UNCHANGED <<stack, coro>>
           \/ Becomes("final_suspend", t) /\ coro' = [coro EXCEPT ![t] = "returning"]
    BY <1>13 DEF co_return, Faults
  <2>. QED  BY <2>1, <1>1, <1>2 DEF Moves
<1>. QED  BY <1>3, <1>4, <1>5, <1>6, <1>7, <1>8, <1>9, <1>10, <1>11, <1>12, <1>13

\* Every step keeps event_handler's resume outermost.
LEMMA StepPlace == IInv /\ PlaceInv /\ [Next]_vars => PlaceInv'
<1> SUFFICES ASSUME IInv, PlaceInv, [Next]_vars PROVE PlaceInv'
  OBVIOUS
<1>1. CASE UNCHANGED vars
  BY <1>1 DEF vars, iov, PlaceInv
<1>2. CASE event_handled \/ \E t \in Tasks : register_coro(t)
  BY <1>2 DEF event_handled, register_coro, iov, PlaceInv
<1>3. CASE \E t \in Tasks, rt \in Types, res \in Results : event_handler(t, rt, res)
  <2>1. PICK t \in Tasks : /\ stack' = Call("response", t, <<>>) /\ handling' = t
                           /\ coro[t] = "io" /\ UNCHANGED coro
    BY <1>3 DEF event_handler
  <2>2. <<>> \in Seq(Steps \X Tasks) /\ "response" \in Steps
    BY EmptySeq DEF Steps
  <2>3. Outermost(<<>>, t)
    BY DEF Outermost
  <2>4. Outermost(Call("response", t, <<>>), t)
    BY <2>2, <2>3, CallOutermost
  <2>. QED  BY <2>1, <2>4 DEF PlaceInv
<1>4. CASE \E t \in Tasks :
             \/ await_suspend(t) \/ await_resume(t) \/ final_suspend(t) \/ final_rest(t)
             \/ response(t)
             \/ \E u \in Tasks : create(t, u) \/ start(t, u) \/ co_await(t, u) \/ drop(t, u)
             \/ \E rt \in Types \cup {"generic"} : wait_response(t, rt)
             \/ \E rt \in Types, e \in AwaitableErrors : refuse(t, rt, e)
             \/ \E c \in Codes \cup {Exception} : co_return(t, c)
  <2>1. /\ stack # <<>> /\ Moves(stack, stack') /\ UNCHANGED handling
        /\ \A u \in Tasks : coro'[u] = "freed" /\ coro[u] # "freed" =>
             Head(stack)[2] = u /\ stack' = Tail(stack)
    BY <1>4, ThreadMoves
  <2> SUFFICES ASSUME handling # None
               PROVE  /\ Outermost(stack', handling)
                      /\ coro'[handling] = "freed" => stack' = <<>>
    BY <2>1 DEF PlaceInv
  <2>2. /\ handling \in Tasks /\ stack \in Seq(Steps \X Tasks) /\ Single(stack)
        /\ Outermost(stack, handling) /\ coro[handling] # "freed"
    BY <2>1 DEF PlaceInv, IInv, TypeOK, StackInv
  <2>3. Outermost(stack', handling)
    BY <2>1, <2>2, MovesOutermost
  <2>4. Head(stack)[2] = handling => Tail(stack) = <<>>
    BY <2>1, <2>2, TailOutermost
  <2>. QED  BY <2>1, <2>2, <2>3, <2>4
<1>. QED  BY <1>1, <1>2, <1>3, <1>4 DEF Next, Library, Client

\* When event_handler asks the promise of a coroutine that has finished, the
\* frame was freed in the step before: final_suspend has not handed control to
\* anyone since, under await_again neither (task.cpp 12-18, core.cpp 319-322).
THEOREM PromiseCorrect == Spec => []PromiseInPlace
<1>1. Init => PlaceInv
  BY DEF Init, PlaceInv
<1>2. PlaceInv => PromiseInPlace
  BY DEF PlaceInv, PromiseInPlace
<1>. QED  BY <1>1, <1>2, StepPlace, Invariance, PTL DEF Spec

-----------------------------------------------------------------------------
(* Tasks implements the safety part of Calls.                              *)

\* What Calls sees before and after a step.
LEMMA Seen ==
  ASSUME IInv, IInv', NEW t \in Tasks
  PROVE  /\ call_status[t] = IF coro[t] \in {"none", "initial"} THEN "idle"
                             ELSE IF coro[t] \in {"running", "io"} THEN "active"
                             ELSE IF coro[t] = "await" THEN "waiting" ELSE "finished"
         /\ call_status'[t] = IF coro'[t] \in {"none", "initial"} THEN "idle"
                              ELSE IF coro'[t] \in {"running", "io"} THEN "active"
                              ELSE IF coro'[t] = "await" THEN "waiting" ELSE "finished"
BY DEF call_status, IInv, TypeOK

\* Calls sees only the status of the coroutines and whom they await.
LEMMA CallsStutter ==
  ASSUME IInv, IInv', UNCHANGED target, NEW t \in Tasks,
         \A u \in Tasks : u # t => coro'[u] = coro[u], call_status'[t] = call_status[t]
  PROVE  UNCHANGED Abstract!vars
<1>1. call_status' = call_status
  <2>1. \A u \in Tasks : call_status'[u] = call_status[u]
    BY Seen
  <2>. QED  BY <2>1 DEF call_status
<1>. QED  BY <1>1 DEF Abstract!vars

\* A coroutine that is started begins.
LEMMA CallsBegin ==
  ASSUME IInv, IInv', NEW t \in Tasks, coro[t] \in {"none", "initial"},
         coro' = [coro EXCEPT ![t] = "running"], UNCHANGED target
  PROVE  Abstract!Begin(t)
<1>1. \A u \in Tasks : call_status'[u] = IF u = t THEN "active" ELSE call_status[u]
  <2>1. coro'[t] = "running" /\ \A u \in Tasks : u # t => coro'[u] = coro[u]
    BY DEF IInv, TypeOK
  <2>. QED  BY <2>1, Seen
<1>2. call_status' = [call_status EXCEPT ![t] = "active"]
  BY <1>1 DEF call_status
<1>3. call_status[t] = "idle"
  BY Seen
<1>. QED  BY <1>2, <1>3 DEF Abstract!Begin

\* A coroutine that awaits another is waiting for it.
LEMMA CallsCall ==
  ASSUME IInv, IInv', NEW p \in Tasks, NEW t \in Tasks, co_await(p, t)
  PROVE  Abstract!Call(p, t)
<1>1. coro[p] = "running" /\ p # t
  BY CoAwaitStack
<1>2. started_coro[t] => coro[t] \notin {"none", "initial"}
  BY DEF IInv, ObjectInv
<1>3. ~started_coro[t] => coro[t] = "initial"
  BY CoAwaitStack
<1>4. \A u \in Tasks :
        call_status'[u] = IF u = p THEN "waiting"
                          ELSE IF u = t /\ call_status[t] = "idle" THEN "active"
                          ELSE call_status[u]
  <2> SUFFICES ASSUME NEW u \in Tasks
               PROVE  call_status'[u] = IF u = p THEN "waiting"
                                        ELSE IF u = t /\ call_status[t] = "idle" THEN "active"
                                        ELSE call_status[u]
    OBVIOUS
  <2>1. CASE started_coro[t]
    <3>1. coro' = [coro EXCEPT ![p] = "await"]
      BY <2>1 DEF co_await
    <3>. QED  BY <2>1, <3>1, <1>2, Seen DEF IInv, TypeOK
  <2>2. CASE ~started_coro[t]
    <3>1. coro' = [coro EXCEPT ![p] = "await", ![t] = "running"]
      BY <2>2 DEF co_await
    <3>. QED  BY <2>2, <3>1, <1>1, <1>3, Seen DEF IInv, TypeOK
  <2>. QED  BY <2>1, <2>2
<1>5. call_status' = [call_status EXCEPT ![p] = "waiting",
                                        ![t] = IF @ = "idle" THEN "active" ELSE @]
  BY <1>1, <1>4 DEF call_status
<1>6. call_status[p] = "active"
  BY <1>1, Seen
<1>7. target' = [target EXCEPT ![p] = t]
  BY DEF co_await
<1>. QED  BY <1>1, <1>5, <1>6, <1>7 DEF Abstract!Call

\* An awaiter that goes on does so when the other has finished.
LEMMA CallsContinue ==
  ASSUME IInv, IInv', NEW p \in Tasks, await_resume(p)
  PROVE  Abstract!Continue(p)
<1>1. coro[p] = "await" /\ coro[target[p]] \in {"returning", "freed"}
  <2>1. At("resumed", p) /\ "resumed" \in Steps
    BY DEF await_resume, Steps
  <2>. QED  BY <2>1, TopOf DEF FrameOK
<1>2. target[p] \in Tasks
  BY <1>1 DEF IInv, CoroInv
<1>3. call_status[p] = "waiting" /\ call_status[target[p]] = "finished"
  BY <1>1, <1>2, Seen
<1>4. \A u \in Tasks : call_status'[u] = IF u = p THEN "active" ELSE call_status[u]
  <2>1. coro'[p] = "running" /\ \A u \in Tasks : u # p => coro'[u] = coro[u]
    BY DEF await_resume, IInv, TypeOK
  <2>. QED  BY <2>1, Seen
<1>5. call_status' = [call_status EXCEPT ![p] = "active"]
  BY <1>4 DEF call_status
<1>6. target' = [target EXCEPT ![p] = None]
  BY DEF await_resume
<1>. QED  BY <1>3, <1>5, <1>6 DEF Abstract!Continue

\* A coroutine that returns is finished.
LEMMA CallsFinish ==
  ASSUME IInv, IInv', NEW t \in Tasks, NEW c \in Codes \cup {Exception}, co_return(t, c)
  PROVE  Abstract!Finish(t)
<1>1. coro[t] = "running"
  <2>1. At("body", t) /\ "body" \in Steps
    BY DEF co_return, Running, Steps
  <2>. QED  BY <2>1, TopOf DEF FrameOK
<1>2. fault' # "dangling"
  BY DEF IInv, NoDangling
<1>3. coro' = [coro EXCEPT ![t] = "returning"] /\ UNCHANGED target
  BY <1>2 DEF co_return, Faults
<1>4. \A u \in Tasks : call_status'[u] = IF u = t THEN "finished" ELSE call_status[u]
  <2>1. coro'[t] = "returning" /\ \A u \in Tasks : u # t => coro'[u] = coro[u]
    BY <1>3 DEF IInv, TypeOK
  <2>. QED  BY <2>1, Seen
<1>5. call_status' = [call_status EXCEPT ![t] = "finished"]
  BY <1>4 DEF call_status
<1>6. call_status[t] = "active"
  BY <1>1, Seen
<1>. QED  BY <1>3, <1>5, <1>6 DEF Abstract!Finish

\* The steps Calls does not see.
LEMMA CallsUnseen ==
  ASSUME IInv, IInv', NEW t \in Tasks,
         \/ await_suspend(t) \/ final_suspend(t) \/ final_rest(t) \/ response(t)
         \/ \E u \in Tasks : create(t, u) \/ drop(t, u)
         \/ \E rt \in Types \cup {"generic"} : wait_response(t, rt)
         \/ \E rt \in Types, e \in AwaitableErrors : refuse(t, rt, e)
         \/ \E rt \in Types, res \in Results : event_handler(t, rt, res)
  PROVE  UNCHANGED Abstract!vars
<1>1. CASE await_suspend(t) \/ final_suspend(t)
  <2>1. UNCHANGED <<coro, target>>
    BY <1>1 DEF await_suspend, final_suspend
  <2>. QED  BY <2>1, Seen, CallsStutter
<1>2. CASE \/ \E u \in Tasks : drop(t, u)
           \/ \E rt \in Types, e \in AwaitableErrors : refuse(t, rt, e)
           \/ \E rt \in Types, res \in Results : event_handler(t, rt, res)
  <2>1. UNCHANGED <<coro, target>>
    BY <1>2 DEF drop, Faults, refuse, NullStatus, event_handler
  <2>. QED  BY <2>1, Seen, CallsStutter
<1>3. CASE final_rest(t)
  <2>1. coro[t] = "returning"
    <3>1. At("final_rest", t) /\ "final_rest" \in Steps
      BY <1>3 DEF final_rest, Steps
    <3>. QED  BY <3>1, TopOf DEF FrameOK
  <2>2. fault' # "dangling"
    BY DEF IInv, NoDangling
  <2>3. coro' = [coro EXCEPT ![t] = "freed"] /\ UNCHANGED target
    BY <1>3, <2>2 DEF final_rest, Faults
  <2>4. coro'[t] = "freed" /\ \A u \in Tasks : u # t => coro'[u] = coro[u]
    BY <2>3 DEF IInv, TypeOK
  <2>. QED  BY <2>1, <2>3, <2>4, Seen, CallsStutter
<1>4. CASE response(t)
  <2>1. coro[t] \in {"running", "io"}
    <3>1. At("response", t) /\ "response" \in Steps
      BY <1>4 DEF response, Steps
    <3>. QED  BY <3>1, TopOf DEF FrameOK
  <2>2. coro' = [coro EXCEPT ![t] = "running"] /\ UNCHANGED target
    BY <1>4 DEF response
  <2>3. coro'[t] = "running" /\ \A u \in Tasks : u # t => coro'[u] = coro[u]
    BY <2>2 DEF IInv, TypeOK
  <2>. QED  BY <2>1, <2>2, <2>3, Seen, CallsStutter
<1>5. CASE \E rt \in Types \cup {"generic"} : wait_response(t, rt)
  <2>1. coro[t] = "running"
    <3>1. At("body", t) /\ "body" \in Steps
      BY <1>5 DEF wait_response, Running, Steps
    <3>. QED  BY <3>1, TopOf DEF FrameOK
  <2>2. (coro' = coro \/ coro' = [coro EXCEPT ![t] = "io"]) /\ UNCHANGED target
    BY <1>5 DEF wait_response, NullStatus, Faults
  <2>3. coro'[t] \in {"running", "io"} /\ \A u \in Tasks : u # t => coro'[u] = coro[u]
    BY <2>1, <2>2 DEF IInv, TypeOK
  <2>. QED  BY <2>1, <2>2, <2>3, Seen, CallsStutter
<1>6. CASE \E u \in Tasks : create(t, u)
  <2>1. PICK u \in Tasks : create(t, u)
    BY <1>6
  <2>2. coro[u] = "none" /\ coro' = [coro EXCEPT ![u] = "initial"] /\ UNCHANGED target
    BY <2>1 DEF create, Created
  <2>3. coro'[u] = "initial" /\ \A v \in Tasks : v # u => coro'[v] = coro[v]
    BY <2>2 DEF IInv, TypeOK
  <2>. QED  BY <2>2, <2>3, Seen, CallsStutter
<1>. QED  BY <1>1, <1>2, <1>3, <1>4, <1>5, <1>6

\* Every step is one of Calls, or stutters there.
LEMMA CallsStep ==
  ASSUME IInv, IInv', Next
  PROVE  Abstract!Next \/ UNCHANGED Abstract!vars
<1>1. CASE \E t \in Tasks : register_coro(t)
  <2>1. PICK t \in Tasks : register_coro(t)
    BY <1>1
  <2>2. Abstract!Begin(t)
    BY <2>1, CallsBegin DEF register_coro, Created
  <2>. QED  BY <2>2 DEF Abstract!Next
<1>2. CASE \E t, u \in Tasks : start(t, u)
  <2>1. PICK t \in Tasks, u \in Tasks : start(t, u)
    BY <1>2
  <2>2. coro[u] = "initial"
    BY <2>1 DEF start, Owns, IInv, ObjectInv
  <2>3. Abstract!Begin(u)
    BY <2>1, <2>2, CallsBegin DEF start
  <2>. QED  BY <2>3 DEF Abstract!Next
<1>3. CASE \E t, u \in Tasks : co_await(t, u)
  BY <1>3, CallsCall DEF Abstract!Next
<1>4. CASE \E t \in Tasks : await_resume(t)
  BY <1>4, CallsContinue DEF Abstract!Next
<1>5. CASE \E t \in Tasks, c \in Codes \cup {Exception} : co_return(t, c)
  BY <1>5, CallsFinish DEF Abstract!Next
<1>6. CASE \E t \in Tasks :
             \/ await_suspend(t) \/ final_suspend(t) \/ final_rest(t) \/ response(t)
             \/ \E u \in Tasks : create(t, u) \/ drop(t, u)
             \/ \E rt \in Types \cup {"generic"} : wait_response(t, rt)
             \/ \E rt \in Types, e \in AwaitableErrors : refuse(t, rt, e)
             \/ \E rt \in Types, res \in Results : event_handler(t, rt, res)
  BY <1>6, CallsUnseen
<1>7. CASE event_handled
  BY <1>7 DEF event_handled, call_status, Abstract!vars
<1>. QED  BY <1>1, <1>2, <1>3, <1>4, <1>5, <1>6, <1>7 DEF Next, Library, Client

\* EvTask keeps the safety half of Calls under await_again too: a coroutine
\* that awaits another goes on only when the other has finished.
THEOREM CallsSafe == Spec => Abstract!Init /\ [][Abstract!Next]_(Abstract!vars)
<1>1. IInv /\ IInv' /\ [Next]_vars => [Abstract!Next]_(Abstract!vars)
  <2>1. CASE UNCHANGED vars
    BY <2>1 DEF vars, call_status, Abstract!vars
  <2>. QED  BY <2>1, CallsStep
<1>2. Init => Abstract!Init
  BY DEF Init, Abstract!Init, call_status
<1>. QED  BY <1>1, <1>2, Invariance, PTL DEF Spec
=============================================================================
