---------------------------- MODULE McpServerProof ----------------------------
(***************************************************************************)
(* Proofs about McpServer for any number of requests, clients and tools    *)
(* and a channel of any capacity.                                          *)
(***************************************************************************)
EXTENDS McpServer, FiniteSetTheorems, TLAPS

\* What is in a queue after one is taken from it or put into it.
LEMMA Taken ==
  ASSUME NEW S, NEW s \in Seq(S), s # <<>>
  PROVE  /\ 1 \in DOMAIN s /\ Head(s) = s[1] /\ Head(s) \in S
         /\ Tail(s) \in Seq(S) /\ Len(Tail(s)) <= Len(s) - 1
         /\ \A i \in DOMAIN Tail(s) :
               i \in Nat /\ i + 1 # 1 /\ i + 1 \in DOMAIN s /\ Tail(s)[i] = s[i + 1]
         /\ \A i \in DOMAIN s : i = 1 \/ (i - 1 \in DOMAIN Tail(s) /\ Tail(s)[i - 1] = s[i])
  OBVIOUS

LEMMA Put ==
  ASSUME NEW S, NEW s \in Seq(S), NEW e \in S
  PROVE  /\ Append(s, e) \in Seq(S) /\ Len(Append(s, e)) = Len(s) + 1
         /\ Len(s) + 1 \in DOMAIN Append(s, e) /\ Len(s) + 1 \notin DOMAIN s
         /\ DOMAIN Append(s, e) = DOMAIN s \cup {Len(s) + 1}
         /\ Append(s, e)[Len(s) + 1] = e
         /\ \A i \in DOMAIN s : Append(s, e)[i] = s[i]
  OBVIOUS

-----------------------------------------------------------------------------
(* Types *)

Places ==
  /\ messageCh \in Seq(Message) /\ Len(messageCh) <= Cap
  /\ handling \subseteq Message /\ executing \subseteq Message
  /\ sending \subseteq Message /\ delivered \subseteq Message
  /\ answers \subseteq Answers /\ dropped \subseteq Message
  /\ tools \subseteq Tools

History ==
  /\ DOMAIN input \subseteq Requests
  /\ \A r \in DOMAIN input : input[r] \in Message /\ input[r].of = r

LEMMA RequestTypes ==
  ASSUME NEW r \in Requests, NEW c \in Clients, NEW type \in InputTypes,
         NEW t \in Tools \cup {NoTool}
  PROVE  /\ Request(r, c, type, t) \in Message
         /\ Request(r, c, type, t).of = r /\ Request(r, c, type, t).client = c
         /\ Request(r, c, type, t).type = type /\ Request(r, c, type, t).tool = t
  BY DEF Request, Message

LEMMA ReplyTypesOf ==
  ASSUME NEW m \in Message
  PROVE  /\ Response(m) \in Message
         /\ Response(m).of = m.of /\ Response(m).client = m.client
         /\ Response(m).type = "tool_response"
         /\ \A e \in Errors : /\ ErrorResponse(m, e) \in Message
                              /\ ErrorResponse(m, e).of = m.of
                              /\ ErrorResponse(m, e).client = m.client
                              /\ ErrorResponse(m, e).type = "error"
                              /\ ErrorResponse(m, e).error = e
  BY DEF Response, ErrorResponse, Message, ReplyTypes

LEMMA RefusalErrors ==
  ASSUME NEW m \in Message
  PROVE  Refusal(m) = "none" \/ Refusal(m) \in Errors
  BY DEF Refusal, Errors

LEMMA TypesInit == Init => Places /\ History
  BY McpServerAssumption DEF McpServerAssumption, Init, Places, History

\* What has been asked stays asked, and what has succeeded and is registered stays so.
Grows ==
  /\ DOMAIN input \subseteq DOMAIN input'
  /\ \A r \in DOMAIN input : input'[r] = input[r]
  /\ succeeded \subseteq succeeded' /\ tools \subseteq tools'

LEMMA AskedIs ==
  ASSUME History, NEW m \in Message, m.of \notin DOMAIN input, Asked(m)
  PROVE  /\ DOMAIN input' = DOMAIN input \cup {m.of} /\ input'[m.of] = m
         /\ \A r \in DOMAIN input : input'[r] = input[r]
         /\ DOMAIN input' \subseteq Requests
         /\ \A r \in DOMAIN input' : input'[r] \in Message /\ input'[r].of = r
<1>1. m.of \in Requests
  BY DEF Message
<1>2. DOMAIN input' = DOMAIN input \cup {m.of}
  BY DEF Asked
<1>3. input'[m.of] = m /\ \A r \in DOMAIN input : input'[r] = input[r]
  BY DEF Asked
<1> QED
  BY <1>1, <1>2, <1>3 DEF History

LEMMA SubmitTypes ==
  ASSUME Places, History, NEW r \in Requests, NEW c \in Clients, NEW tool \in Tools \cup {NoTool},
         NEW type \in InputTypes, Submit(r, c, type, tool)
  PROVE  Places' /\ History' /\ Grows
<1> DEFINE m == Request(r, c, type, tool)
<1>1. m \in Message /\ m.of = r
  BY RequestTypes
<1>2. /\ messageCh' \in Seq(Message) /\ Len(messageCh') <= Cap
  BY <1>1, Put, McpServerAssumption DEF McpServerAssumption, Submit, Places
<1>3. Asked(m) /\ m.of \notin DOMAIN input
  BY <1>1 DEF Submit
<1> HIDE DEF m
<1>4. History' /\ Grows
  BY <1>1, <1>3, AskedIs DEF Submit, History, Grows
<1> QED
  BY <1>2, <1>4 DEF Submit, Places

LEMMA ExecuteTypes ==
  ASSUME Places, History, NEW r \in Requests, NEW c \in Clients, NEW tool \in Tools \cup {NoTool},
         NEW readable \in BOOLEAN, handleExecute(r, c, readable, tool)
  PROVE  Places' /\ History' /\ Grows
<1> DEFINE m == Request(r, c, "http", tool)
<1>0. "http" \in InputTypes
  BY DEF InputTypes
<1>1. m \in Message /\ m.of = r
  BY <1>0, RequestTypes
<1>2. Asked(m) /\ m.of \notin DOMAIN input
  BY <1>1 DEF handleExecute
<1>3. executing' \subseteq executing \cup {m}
  BY DEF handleExecute
<1> HIDE DEF m
<1>4. History' /\ Grows
  BY <1>1, <1>2, AskedIs DEF handleExecute, History, Grows
<1>5. answers' \subseteq Answers
  BY DEF handleExecute, Answer, Answers, StatusCodes, Places
<1> QED
  BY <1>1, <1>3, <1>4, <1>5 DEF handleExecute, Places

LEMMA ReturnAnswers ==
  ASSUME NEW m, NEW end, Return(m, end)
  PROVE  \E code \in StatusCodes :
            /\ code = 200 => end # "error"
            /\ answers' = answers \/ answers' = answers \cup {[of |-> m.of, status |-> code]}
<1>1. CASE end = "error"
  <2>1. answers' = answers \/ answers' = answers \cup {[of |-> m.of, status |-> 500]}
    BY <1>1 DEF Return, Answer
  <2> QED
    BY <2>1 DEF StatusCodes
<1>2. CASE end # "error"
  <2>1. answers' = answers \/ answers' = answers \cup {[of |-> m.of, status |-> 200]}
    BY <1>2 DEF Return, Answer
  <2> QED
    BY <1>2, <2>1 DEF StatusCodes
<1> QED
  BY <1>1, <1>2

LEMMA TypesStep == Places /\ History /\ [Next]_vars => Places' /\ History' /\ Grows
<1> SUFFICES ASSUME Places, History, [Next]_vars PROVE Places' /\ History' /\ Grows
  OBVIOUS
<1>1. CASE Start \/ \E t \in Tools : RegisterTool(t)
  BY <1>1 DEF Start, RegisterTool, Places, History, Grows
<1>2. CASE processMessages \/ Deliver
  <2>1. Head(messageCh) \in Message /\ Tail(messageCh) \in Seq(Message) /\ Len(Tail(messageCh)) <= Cap
    BY <1>2, McpServerAssumption DEF McpServerAssumption, processMessages, Deliver, Places
  <2> QED
    BY <1>2, <2>1 DEF processMessages, Deliver, Places, History, Grows
<1>3. ASSUME NEW m \in handling, handleMessage(m) PROVE Places' /\ History' /\ Grows
  <2>1. m \in Message
    BY DEF Places
  <2>2. Refusal(m) # "none" => ErrorResponse(m, Refusal(m)) \in Message
    BY <2>1, RefusalErrors, ReplyTypesOf
  <2> QED
    BY <1>3, <2>1, <2>2 DEF handleMessage, Places, History, Grows
<1>4. ASSUME NEW m \in sending, Send(m) PROVE Places' /\ History' /\ Grows
  <2>1. messageCh' \in Seq(Message) /\ Len(messageCh') <= Cap
    BY <1>4, McpServerAssumption DEF McpServerAssumption, Send, Places
  <2> QED
    BY <1>4, <2>1 DEF Send, Places, History, Grows
<1>5. ASSUME NEW m \in executing, NEW end \in Ends, Return(m, end), Places /\ History
      PROVE  Places' /\ History' /\ Grows
  <2>1. m \in Message /\ m.of \in Requests
    BY DEF Places, Message
  <2>2. Replies(m, end) \subseteq Message
    BY <2>1, ReplyTypesOf DEF Replies, Ends, Errors
  <2>3. Grows /\ UNCHANGED input
    BY <1>5 DEF Return, Grows
  <2>4. sending' \subseteq Message /\ dropped' \subseteq Message
    BY <1>5, <2>1, <2>2 DEF Return, Places
  <2>5. answers' \subseteq Answers
    BY <1>5, <2>1, ReturnAnswers DEF Answers, Places
  <2> QED
    BY <1>5, <2>3, <2>4, <2>5 DEF Return, Places, History
<1>6. CASE UNCHANGED vars
  BY <1>6 DEF vars, Places, History, Grows
<1> QED
  BY <1>1, <1>2, <1>3, <1>4, <1>5, <1>6, SubmitTypes, ExecuteTypes DEF Next

-----------------------------------------------------------------------------
(* Contents *)

\* What m says of its request, be it this request, a reply to it or a reply to a reply.
Good(m) ==
  /\ m.of \in DOMAIN input /\ m.client = input[m.of].client
  /\ m.type \in InputTypes => m.tool = input[m.of].tool
  /\ m.type = "tool_response" => m.of \in succeeded

Everywhere == InChannel \cup handling \cup executing \cup sending \cup delivered

Contents ==
  /\ \A m \in Everywhere : Good(m)
  /\ \A m \in executing : m.type \in InputTypes /\ m.tool \in tools
  /\ \A r \in succeeded : r \in DOMAIN input /\ input[r].tool \in tools
  /\ \A a \in answers : a.of \in DOMAIN input /\ (a.status = 200 => a.of \in succeeded)

LEMMA ContentsInit == Init => Contents
<1> SUFFICES ASSUME Init PROVE Contents
  OBVIOUS
<1>1. InChannel = {}
  BY DEF Init, InChannel
<1> QED
  BY <1>1 DEF Init, Contents, Everywhere

LEMMA GoodStays ==
  ASSUME Grows, NEW m, Good(m)
  PROVE  Good(m)'
  BY DEF Grows, Good

LEMMA GoodRequest ==
  ASSUME Grows, History, NEW r \in Requests, NEW c \in Clients, NEW type \in InputTypes,
         NEW tool \in Tools \cup {NoTool}, r \notin DOMAIN input,
         Asked(Request(r, c, type, tool))
  PROVE  /\ Good(Request(r, c, type, tool))'
         /\ r \in DOMAIN input'
<1>1. PICK m \in Message : /\ m = Request(r, c, type, tool)
                           /\ m.of = r /\ m.client = c /\ m.type = type /\ m.tool = tool
  BY RequestTypes
<1>2. r \in DOMAIN input' /\ input'[r] = m
  BY <1>1, AskedIs
<1>3. Good(m)'
  BY <1>1, <1>2 DEF Good, InputTypes
<1> QED
  BY <1>1, <1>2, <1>3

LEMMA GoodReply ==
  ASSUME NEW m \in Message, Good(m)
  PROVE  /\ \A e \in Errors : Good(ErrorResponse(m, e))
         /\ m.of \in succeeded => Good(Response(m))
<1>1. "error" \notin InputTypes /\ "tool_response" \notin InputTypes
  BY DEF InputTypes
<1> QED
  BY <1>1, ReplyTypesOf DEF Good

LEMMA ChannelStep ==
  ASSUME Places
  PROVE  /\ UNCHANGED messageCh => InChannel' = InChannel
         /\ messageCh # <<>> => Head(messageCh) \in InChannel
         /\ messageCh # <<>> /\ messageCh' = Tail(messageCh) => InChannel' \subseteq InChannel
         /\ \A m \in Message :
               messageCh' = Append(messageCh, m) => InChannel' \subseteq InChannel \cup {m}
<1>0. messageCh \in Seq(Message)
  BY DEF Places
<1>1. UNCHANGED messageCh => InChannel' = InChannel
  BY DEF InChannel
<1>2. messageCh # <<>> => Head(messageCh) \in InChannel
  BY <1>0 DEF InChannel
<1>3. messageCh # <<>> /\ messageCh' = Tail(messageCh) => InChannel' \subseteq InChannel
  <2> SUFFICES ASSUME messageCh # <<>>, messageCh' = Tail(messageCh), NEW i \in 1..Len(messageCh')
               PROVE  messageCh'[i] \in InChannel
    BY DEF InChannel
  <2>1. i + 1 \in 1..Len(messageCh) /\ messageCh'[i] = messageCh[i + 1]
    BY <1>0
  <2> QED
    BY <2>1 DEF InChannel
<1>4. ASSUME NEW m \in Message, messageCh' = Append(messageCh, m)
      PROVE  InChannel' \subseteq InChannel \cup {m}
  <2> SUFFICES ASSUME NEW i \in 1..Len(messageCh')
               PROVE  messageCh'[i] \in InChannel \cup {m}
    BY DEF InChannel
  <2>1. (i \in 1..Len(messageCh) /\ messageCh'[i] = messageCh[i]) \/ messageCh'[i] = m
    BY <1>0, <1>4
  <2> QED
    BY <2>1 DEF InChannel
<1> QED
  BY <1>1, <1>2, <1>3, <1>4

\* A step whose new messages are good and whose new successes are real.
LEMMA ContentsKept ==
  ASSUME Contents, Grows,
         \A m \in Everywhere' : m \in Everywhere \/ Good(m)',
         \A m \in executing' : m \in executing \/ (m.type \in InputTypes /\ m.tool \in tools'),
         \A r \in succeeded' : r \in succeeded \/ (r \in DOMAIN input' /\ input'[r].tool \in tools'),
         \A a \in answers' : a \in answers \/ (a.of \in DOMAIN input' /\ (a.status = 200 => a.of \in succeeded'))
  PROVE  Contents'
<1>1. \A m \in Everywhere' : Good(m)'
  BY GoodStays DEF Contents
<1> QED
  BY <1>1 DEF Contents, Grows

LEMMA ContentsStep == Places /\ History /\ Contents /\ [Next]_vars => Contents'
<1> SUFFICES ASSUME Places, History, Contents, [Next]_vars PROVE Contents'
  OBVIOUS
<1>0. Grows /\ Places'
  BY TypesStep
<1>1. CASE Start \/ (\E t \in Tools : RegisterTool(t)) \/ UNCHANGED vars
  <2>1. UNCHANGED <<messageCh, handling, executing, sending, delivered, answers, succeeded>>
    BY <1>1 DEF Start, RegisterTool, vars
  <2> QED
    BY <1>0, <2>1, ChannelStep, ContentsKept DEF Everywhere
<1>2. ASSUME NEW r \in Requests, NEW c \in Clients, NEW tool \in Tools \cup {NoTool},
             NEW type \in InputTypes, Submit(r, c, type, tool)
      PROVE  Contents'
  <2>1. PICK m \in Message : m = Request(r, c, type, tool)
    BY RequestTypes
  <2>2. Good(m)'
    BY <1>0, <1>2, <2>1, GoodRequest DEF Submit
  <2>3. /\ messageCh' = Append(messageCh, m)
        /\ UNCHANGED <<handling, executing, sending, delivered, answers, succeeded>>
    BY <1>2, <2>1 DEF Submit
  <2> QED
    BY <1>0, <2>2, <2>3, ChannelStep, ContentsKept DEF Everywhere
<1>3. ASSUME NEW r \in Requests, NEW c \in Clients, NEW tool \in Tools \cup {NoTool},
             NEW readable \in BOOLEAN, handleExecute(r, c, readable, tool)
      PROVE  Contents'
  <2>0. "http" \in InputTypes
    BY DEF InputTypes
  <2>1. PICK m \in Message : m = Request(r, c, "http", tool) /\ m.type = "http" /\ m.tool = tool
    BY <2>0, RequestTypes
  <2>2. Good(m)' /\ r \in DOMAIN input'
    BY <1>0, <1>3, <2>0, <2>1, GoodRequest DEF handleExecute
  <2>3. /\ executing' = executing \/ (executing' = executing \cup {m} /\ tool \in tools)
        /\ \A a \in answers' : a \in answers \/ (a.of = r /\ a.status # 200)
        /\ UNCHANGED <<messageCh, tools, handling, sending, delivered, succeeded>>
    BY <1>3, <2>1 DEF handleExecute, Answer
  <2> QED
    BY <1>0, <2>0, <2>1, <2>2, <2>3, ChannelStep, ContentsKept DEF Everywhere
<1>4. CASE processMessages \/ Deliver
  <2>1. /\ messageCh # <<>> /\ messageCh' = Tail(messageCh)
        /\ handling' \subseteq handling \cup {Head(messageCh)}
        /\ delivered' \subseteq delivered \cup {Head(messageCh)}
        /\ UNCHANGED <<executing, sending, answers, succeeded>>
    BY <1>4 DEF processMessages, Deliver
  <2> QED
    BY <1>0, <2>1, ChannelStep, ContentsKept DEF Everywhere
<1>5. ASSUME NEW m \in handling, handleMessage(m) PROVE Contents'
  <2>1. m \in Message /\ Good(m)
    BY DEF Places, Contents, Everywhere
  <2>2. /\ handling' \subseteq handling
        /\ UNCHANGED <<messageCh, tools, delivered, answers, succeeded>>
    BY <1>5 DEF handleMessage
  <2>3. CASE Refusal(m) = "none"
    <3>1. m.type \in InputTypes /\ m.tool \in tools
      BY <2>3 DEF Refusal, InputTypes
    <3>2. executing' = executing \cup {m} /\ UNCHANGED sending
      BY <1>5, <2>3 DEF handleMessage
    <3> QED
      BY <1>0, <2>2, <3>1, <3>2, ChannelStep, ContentsKept DEF Everywhere
  <2>4. CASE Refusal(m) # "none"
    <3>1. PICK e \in Message : e = ErrorResponse(m, Refusal(m)) /\ Good(e)
      BY <2>1, <2>4, RefusalErrors, ReplyTypesOf, GoodReply
    <3>2. sending' = sending \cup {e} /\ UNCHANGED executing
      BY <1>5, <2>4, <3>1 DEF handleMessage
    <3>3. Good(e)'
      BY <1>0, <3>1, GoodStays
    <3> QED
      BY <1>0, <2>2, <3>2, <3>3, ChannelStep, ContentsKept DEF Everywhere
  <2> QED
    BY <2>3, <2>4
<1>6. ASSUME NEW m \in executing, NEW end \in Ends, Return(m, end) PROVE Contents'
  <2>1. m \in Message /\ Good(m) /\ m.type \in InputTypes /\ m.tool \in tools
    BY DEF Places, Contents, Everywhere
  <2>2. m.of \in DOMAIN input /\ input[m.of].tool \in tools
    BY <2>1 DEF Good
  <2>3. /\ executing' \subseteq executing
        /\ UNCHANGED <<messageCh, tools, handling, delivered, input>>
        /\ succeeded' = IF end = "error" THEN succeeded ELSE succeeded \cup {m.of}
        /\ sending' \subseteq sending \cup Replies(m, end)
    BY <1>6 DEF Return
  <2>4. \A n \in Replies(m, end) : Good(n)'
    <3>1. CASE end = "result"
      <4>1. PICK n \in Message : n = Response(m)
        BY <2>1, ReplyTypesOf
      <4>2. n.of = m.of /\ n.client = m.client /\ n.type = "tool_response" /\ n.type \notin InputTypes
        BY <2>1, <4>1, ReplyTypesOf DEF InputTypes
      <4>3. Good(n)'
        BY <2>1, <2>3, <3>1, <4>2 DEF Good
      <4> QED
        BY <3>1, <4>1, <4>3 DEF Replies
    <3>2. CASE end = "error"
      <4>1. PICK n \in Message : n = ErrorResponse(m, "execution_error") /\ Good(n)
        BY <2>1, ReplyTypesOf, GoodReply DEF Errors
      <4>2. Good(n)'
        BY <1>0, <4>1, GoodStays
      <4> QED
        BY <3>2, <4>1, <4>2 DEF Replies
    <3>3. CASE end = "no JSON"
      BY <3>3 DEF Replies
    <3> QED
      BY <3>1, <3>2, <3>3 DEF Ends
  <2>5. \A n \in Everywhere' : n \in Everywhere \/ Good(n)'
    BY <2>3, <2>4, ChannelStep DEF Everywhere
  <2>6. \A r \in succeeded' : r \in succeeded \/ (r \in DOMAIN input' /\ input'[r].tool \in tools')
    BY <2>2, <2>3
  <2>7. \A a \in answers' : a \in answers \/ (a.of \in DOMAIN input' /\ (a.status = 200 => a.of \in succeeded'))
    <3>1. PICK code \in StatusCodes :
            /\ code = 200 => end # "error"
            /\ answers' = answers \/ answers' = answers \cup {[of |-> m.of, status |-> code]}
      BY <1>6, ReturnAnswers
    <3> QED
      BY <2>2, <2>3, <3>1
  <2> QED
    BY <1>0, <2>3, <2>5, <2>6, <2>7, ContentsKept
<1>7. ASSUME NEW m \in sending, Send(m) PROVE Contents'
  <2>1. m \in Message
    BY DEF Places
  <2>2. /\ messageCh' = Append(messageCh, m) /\ sending' \subseteq sending
        /\ UNCHANGED <<handling, executing, delivered, answers, succeeded>>
    BY <1>7 DEF Send
  <2> QED
    BY <1>0, <2>1, <2>2, ChannelStep, ContentsKept DEF Everywhere
<1> QED
  BY <1>1, <1>2, <1>3, <1>4, <1>5, <1>6, <1>7 DEF Next

-----------------------------------------------------------------------------
(* One place for a request *)

In(S, r) == \E m \in S : m.of = r
One(S) == \A m, n \in S : m.of = n.of => m = n

OneInChannel == \A i, j \in DOMAIN messageCh : messageCh[i].of = messageCh[j].of => i = j

Apart(r) ==
  /\ In(InChannel, r) => /\ ~In(handling, r) /\ ~In(executing, r) /\ ~In(sending, r)
                         /\ ~In(delivered, r) /\ ~In(answers, r) /\ ~In(dropped, r)
  /\ In(handling, r) => /\ ~In(executing, r) /\ ~In(sending, r) /\ ~In(delivered, r)
                        /\ ~In(answers, r) /\ ~In(dropped, r)
  /\ In(executing, r) => ~In(sending, r) /\ ~In(delivered, r) /\ ~In(answers, r) /\ ~In(dropped, r)
  /\ In(sending, r) => ~In(delivered, r) /\ ~In(answers, r) /\ ~In(dropped, r)
  /\ In(delivered, r) => ~In(answers, r) /\ ~In(dropped, r)
  /\ In(answers, r) => ~In(dropped, r)

Somewhere(r) ==
  \/ In(InChannel, r) \/ In(handling, r) \/ In(executing, r) \/ In(sending, r)
  \/ In(delivered, r) \/ In(answers, r) \/ In(dropped, r)

Once ==
  /\ OneInChannel
  /\ One(handling) /\ One(executing) /\ One(sending) /\ One(delivered) /\ One(answers)
  /\ One(dropped)
  /\ \A r \in Requests : Apart(r)
  /\ \A r \in Requests : Somewhere(r) <=> r \in DOMAIN input

LEMMA Leave ==
  ASSUME NEW S, One(S), NEW x \in S
  PROVE  One(S \ {x}) /\ \A r : In(S \ {x}, r) <=> In(S, r) /\ r # x.of
  BY DEF One, In

LEMMA Enter ==
  ASSUME NEW S, One(S), NEW x, ~In(S, x.of)
  PROVE  One(S \cup {x}) /\ \A r : In(S \cup {x}, r) <=> In(S, r) \/ r = x.of
  BY DEF One, In

LEMMA ChannelTaken ==
  ASSUME Places, OneInChannel, messageCh # <<>>, messageCh' = Tail(messageCh)
  PROVE  /\ OneInChannel'
         /\ \A r : In(InChannel, r)' <=> In(InChannel, r) /\ r # Head(messageCh).of
<1>1. /\ 1 \in DOMAIN messageCh /\ Head(messageCh) = messageCh[1]
      /\ \A i \in DOMAIN messageCh' :
            i \in Nat /\ i + 1 # 1 /\ i + 1 \in DOMAIN messageCh /\ messageCh'[i] = messageCh[i + 1]
      /\ \A i \in DOMAIN messageCh :
            i = 1 \/ (i - 1 \in DOMAIN messageCh' /\ messageCh'[i - 1] = messageCh[i])
  BY Taken DEF Places
<1>2. messageCh \in Seq(Message) /\ messageCh' \in Seq(Message)
  BY Taken DEF Places
<1>3. DOMAIN messageCh = 1..Len(messageCh) /\ DOMAIN messageCh' = 1..Len(messageCh')
  BY <1>2
<1>4. OneInChannel'
  <2> SUFFICES ASSUME NEW i \in DOMAIN messageCh', NEW j \in DOMAIN messageCh',
                      messageCh'[i].of = messageCh'[j].of
               PROVE  i = j
    BY DEF OneInChannel
  <2>1. i + 1 = j + 1
    BY <1>1 DEF OneInChannel
  <2> QED
    BY <1>1, <2>1
<1>5. ASSUME NEW r PROVE In(InChannel, r)' <=> In(InChannel, r) /\ r # Head(messageCh).of
  <2>1. In(InChannel, r) <=> \E i \in DOMAIN messageCh : messageCh[i].of = r
    BY <1>3 DEF In, InChannel
  <2>2. In(InChannel, r)' <=> \E i \in DOMAIN messageCh' : messageCh'[i].of = r
    BY <1>3 DEF In, InChannel
  <2>3. ASSUME In(InChannel, r)' PROVE In(InChannel, r) /\ r # Head(messageCh).of
    <3>1. PICK i \in DOMAIN messageCh' : messageCh'[i].of = r
      BY <2>2, <2>3
    <3>2. i + 1 \in DOMAIN messageCh /\ messageCh[i + 1].of = r /\ i + 1 # 1
      BY <1>1, <3>1
    <3> QED
      BY <1>1, <2>1, <3>2 DEF OneInChannel
  <2>4. ASSUME In(InChannel, r), r # Head(messageCh).of PROVE In(InChannel, r)'
    <3>1. PICK i \in DOMAIN messageCh : messageCh[i].of = r
      BY <2>1, <2>4
    <3>2. i - 1 \in DOMAIN messageCh' /\ messageCh'[i - 1].of = r
      BY <1>1, <2>4, <3>1
    <3> QED
      BY <2>2, <3>2
  <2> QED
    BY <2>3, <2>4
<1> QED
  BY <1>4, <1>5

LEMMA ChannelPut ==
  ASSUME Places, OneInChannel, NEW m \in Message, ~In(InChannel, m.of),
         messageCh' = Append(messageCh, m)
  PROVE  /\ OneInChannel'
         /\ \A r : In(InChannel, r)' <=> In(InChannel, r) \/ r = m.of
<1>1. /\ Len(messageCh) + 1 \notin DOMAIN messageCh
      /\ DOMAIN messageCh' = DOMAIN messageCh \cup {Len(messageCh) + 1}
      /\ messageCh'[Len(messageCh) + 1] = m
      /\ \A i \in DOMAIN messageCh : messageCh'[i] = messageCh[i]
  BY Put DEF Places
<1>2. messageCh \in Seq(Message) /\ messageCh' \in Seq(Message)
  BY Put DEF Places
<1>3. DOMAIN messageCh = 1..Len(messageCh) /\ DOMAIN messageCh' = 1..Len(messageCh')
  BY <1>2
<1>4. \A i \in DOMAIN messageCh : messageCh[i].of # m.of
  BY <1>3 DEF In, InChannel
<1>5. OneInChannel'
  BY <1>1, <1>4 DEF OneInChannel
<1>6. ASSUME NEW r PROVE In(InChannel, r)' <=> In(InChannel, r) \/ r = m.of
  <2>1. In(InChannel, r) <=> \E i \in DOMAIN messageCh : messageCh[i].of = r
    BY <1>3 DEF In, InChannel
  <2>2. In(InChannel, r)' <=> \E i \in DOMAIN messageCh' : messageCh'[i].of = r
    BY <1>3 DEF In, InChannel
  <2> QED
    BY <1>1, <2>1, <2>2
<1> QED
  BY <1>5, <1>6

LEMMA OnceInit == Init => Once
<1> SUFFICES ASSUME Init PROVE Once
  OBVIOUS
<1>1. InChannel = {} /\ DOMAIN messageCh = {} /\ DOMAIN input = {}
  BY DEF Init, InChannel
<1> QED
  BY <1>1 DEF Init, Once, OneInChannel, One, In, Apart, Somewhere

Ones ==
  /\ OneInChannel
  /\ One(handling) /\ One(executing) /\ One(sending) /\ One(delivered) /\ One(answers)
  /\ One(dropped)

\* Where r is, it is after the step.
Stays(r) ==
  /\ In(InChannel, r)' <=> In(InChannel, r)
  /\ In(handling, r)' <=> In(handling, r)
  /\ In(executing, r)' <=> In(executing, r)
  /\ In(sending, r)' <=> In(sending, r)
  /\ In(delivered, r)' <=> In(delivered, r)
  /\ In(answers, r)' <=> In(answers, r)
  /\ In(dropped, r)' <=> In(dropped, r)
  /\ r \in DOMAIN input' <=> r \in DOMAIN input

\* A step that moves nothing but x.
LEMMA Moved ==
  ASSUME Once, NEW x, Ones', \A r : r # x => Stays(r),
         Apart(x)', Somewhere(x)' <=> x \in DOMAIN input'
  PROVE  Once'
<1>1. ASSUME NEW r \in Requests PROVE Apart(r)' /\ (Somewhere(r)' <=> r \in DOMAIN input')
  <2>1. CASE r = x
    BY <2>1
  <2>2. CASE r # x
    BY <2>2 DEF Once, Stays, Apart, Somewhere
  <2> QED
    BY <2>1, <2>2
<1> QED
  BY <1>1 DEF Once, Ones

\* A place that the step leaves alone, and the history.
LEMMA Alone ==
  /\ UNCHANGED messageCh => (OneInChannel => OneInChannel') /\ \A r : In(InChannel, r)' <=> In(InChannel, r)
  /\ UNCHANGED handling => (One(handling) => One(handling)') /\ \A r : In(handling, r)' <=> In(handling, r)
  /\ UNCHANGED executing => (One(executing) => One(executing)') /\ \A r : In(executing, r)' <=> In(executing, r)
  /\ UNCHANGED sending => (One(sending) => One(sending)') /\ \A r : In(sending, r)' <=> In(sending, r)
  /\ UNCHANGED delivered => (One(delivered) => One(delivered)') /\ \A r : In(delivered, r)' <=> In(delivered, r)
  /\ UNCHANGED answers => (One(answers) => One(answers)') /\ \A r : In(answers, r)' <=> In(answers, r)
  /\ UNCHANGED dropped => (One(dropped) => One(dropped)') /\ \A r : In(dropped, r)' <=> In(dropped, r)
<1>1. UNCHANGED messageCh => (OneInChannel => OneInChannel') /\ \A r : In(InChannel, r)' <=> In(InChannel, r)
  BY DEF OneInChannel, InChannel, In
<1> QED
  BY <1>1 DEF One, In

LEMMA OnceSubmit ==
  ASSUME Places, History, Once, NEW r \in Requests, NEW c \in Clients, NEW type \in InputTypes,
         NEW tool \in Tools \cup {NoTool}, Submit(r, c, type, tool)
  PROVE  Once'
<1>1. PICK m \in Message : m = Request(r, c, type, tool) /\ m.of = r
  BY RequestTypes
<1>2. /\ messageCh' = Append(messageCh, m) /\ r \notin DOMAIN input
      /\ UNCHANGED <<handling, executing, sending, delivered, answers, dropped>>
  BY <1>1 DEF Submit
<1>3. DOMAIN input' = DOMAIN input \cup {r}
  BY <1>1, <1>2, AskedIs DEF Submit
<1>4. Apart(r) /\ ~Somewhere(r)
  BY <1>2 DEF Once
<1>5. OneInChannel' /\ \A q : In(InChannel, q)' <=> In(InChannel, q) \/ q = r
  BY <1>1, <1>2, <1>4, ChannelPut DEF Once, Somewhere
<1>6. Ones' /\ \A q : q # r => Stays(q)
  BY <1>2, <1>3, <1>5, Alone DEF Ones, Once, Stays
<1>7. Apart(r)' /\ Somewhere(r)'
  BY <1>2, <1>4, <1>5, Alone DEF Apart, Somewhere
<1> QED
  BY <1>3, <1>6, <1>7, Moved

LEMMA OnceExecute ==
  ASSUME Places, History, Once, NEW r \in Requests, NEW c \in Clients, NEW readable \in BOOLEAN,
         NEW tool \in Tools \cup {NoTool}, handleExecute(r, c, readable, tool)
  PROVE  Once'
<1>0. "http" \in InputTypes
  BY DEF InputTypes
<1>1. PICK m \in Message : m = Request(r, c, "http", tool) /\ m.of = r
  BY <1>0, RequestTypes
<1>2. r \notin DOMAIN input /\ UNCHANGED <<messageCh, handling, sending, delivered, dropped>>
  BY DEF handleExecute
<1>3. DOMAIN input' = DOMAIN input \cup {r}
  BY <1>1, <1>2, AskedIs DEF handleExecute
<1>4. Apart(r) /\ ~Somewhere(r)
  BY <1>2 DEF Once
<1>5. CASE executing' = executing \cup {m} /\ UNCHANGED answers
  <2>1. One(executing \cup {m}) /\ \A q : In(executing \cup {m}, q) <=> In(executing, q) \/ q = r
    BY <1>1, <1>4, Enter DEF Once, Somewhere
  <2>2. One(executing)' /\ \A q : In(executing, q)' <=> In(executing, q) \/ q = r
    BY <1>5, <2>1 DEF One, In
  <2>3. Ones' /\ \A q : q # r => Stays(q)
    BY <1>2, <1>3, <1>5, <2>2, Alone DEF Ones, Once, Stays
  <2>4. Apart(r)' /\ Somewhere(r)'
    BY <1>2, <1>4, <1>5, <2>2, Alone DEF Apart, Somewhere
  <2> QED
    BY <1>3, <2>3, <2>4, Moved
<1>6. ASSUME NEW code \in StatusCodes, Answer(r, code), UNCHANGED executing PROVE Once'
  <2> DEFINE a == [of |-> r, status |-> code]
  <2>1. answers' = answers \cup {a} /\ a.of = r
    BY <1>6 DEF Answer
  <2> HIDE DEF a
  <2>2. One(answers \cup {a}) /\ \A q : In(answers \cup {a}, q) <=> In(answers, q) \/ q = r
    BY <2>1, <1>4, Enter DEF Once, Somewhere
  <2>3. One(answers)' /\ \A q : In(answers, q)' <=> In(answers, q) \/ q = r
    BY <2>1, <2>2 DEF One, In
  <2>4. Ones' /\ \A q : q # r => Stays(q)
    BY <1>2, <1>3, <1>6, <2>3, Alone DEF Ones, Once, Stays
  <2>5. Apart(r)' /\ Somewhere(r)'
    BY <1>2, <1>4, <1>6, <2>3, Alone DEF Apart, Somewhere
  <2> QED
    BY <1>3, <2>4, <2>5, Moved
<1> QED
  BY <1>1, <1>5, <1>6 DEF handleExecute, StatusCodes

LEMMA OnceTake ==
  ASSUME Places, History, Once, processMessages \/ Deliver
  PROVE  Once'
<1>1. PICK m \in Message : m = Head(messageCh) /\ m.of \in Requests /\ In(InChannel, m.of)
  <2>1. messageCh # <<>> /\ Head(messageCh) \in Message /\ Head(messageCh) \in InChannel
    BY ChannelStep, Taken DEF processMessages, Deliver, Places
  <2> QED
    BY <2>1 DEF In, Message
<1>2. messageCh # <<>> /\ messageCh' = Tail(messageCh)
      /\ UNCHANGED <<executing, sending, answers, dropped, input>>
  BY DEF processMessages, Deliver
<1>3. OneInChannel' /\ \A q : In(InChannel, q)' <=> In(InChannel, q) /\ q # m.of
  BY <1>1, <1>2, ChannelTaken DEF Once
<1>4. Apart(m.of) /\ m.of \in DOMAIN input
  BY <1>1 DEF Once, Somewhere
<1>5. CASE handling' = handling \cup {m} /\ UNCHANGED delivered
  <2>1. One(handling \cup {m}) /\ \A q : In(handling \cup {m}, q) <=> In(handling, q) \/ q = m.of
    BY <1>1, <1>4, Enter DEF Once, Apart
  <2>2. One(handling)' /\ \A q : In(handling, q)' <=> In(handling, q) \/ q = m.of
    BY <1>5, <2>1 DEF One, In
  <2>3. Ones' /\ \A q : q # m.of => Stays(q)
    BY <1>2, <1>3, <1>5, <2>2, Alone DEF Ones, Once, Stays
  <2>4. Apart(m.of)' /\ Somewhere(m.of)'
    BY <1>1, <1>2, <1>3, <1>4, <1>5, <2>2, Alone DEF Apart, Somewhere
  <2> QED
    BY <1>2, <1>4, <2>3, <2>4, Moved
<1>6. CASE delivered' = delivered \cup {m} /\ UNCHANGED handling
  <2>1. One(delivered \cup {m}) /\ \A q : In(delivered \cup {m}, q) <=> In(delivered, q) \/ q = m.of
    BY <1>1, <1>4, Enter DEF Once, Apart
  <2>2. One(delivered)' /\ \A q : In(delivered, q)' <=> In(delivered, q) \/ q = m.of
    BY <1>6, <2>1 DEF One, In
  <2>3. Ones' /\ \A q : q # m.of => Stays(q)
    BY <1>2, <1>3, <1>6, <2>2, Alone DEF Ones, Once, Stays
  <2>4. Apart(m.of)' /\ Somewhere(m.of)'
    BY <1>1, <1>2, <1>3, <1>4, <1>6, <2>2, Alone DEF Apart, Somewhere
  <2> QED
    BY <1>2, <1>4, <2>3, <2>4, Moved
<1> QED
  BY <1>1, <1>5, <1>6 DEF processMessages, Deliver

LEMMA OnceHandle ==
  ASSUME Places, Once, NEW m \in handling, handleMessage(m)
  PROVE  Once'
<1>1. m \in Message /\ m.of \in Requests /\ In(handling, m.of)
  BY DEF Places, Message, In
<1>2. handling' = handling \ {m} /\ UNCHANGED <<messageCh, delivered, answers, dropped, input>>
  BY DEF handleMessage
<1>3. One(handling \ {m}) /\ \A q : In(handling \ {m}, q) <=> In(handling, q) /\ q # m.of
  BY Leave DEF Once
<1>4. One(handling)' /\ \A q : In(handling, q)' <=> In(handling, q) /\ q # m.of
  BY <1>2, <1>3 DEF One, In
<1>5. Apart(m.of) /\ m.of \in DOMAIN input
  BY <1>1 DEF Once, Somewhere
<1>6. CASE executing' = executing \cup {m} /\ UNCHANGED sending
  <2>1. One(executing \cup {m}) /\ \A q : In(executing \cup {m}, q) <=> In(executing, q) \/ q = m.of
    BY <1>1, <1>5, Enter DEF Once, Apart
  <2>2. One(executing)' /\ \A q : In(executing, q)' <=> In(executing, q) \/ q = m.of
    BY <1>6, <2>1 DEF One, In
  <2>3. Ones' /\ \A q : q # m.of => Stays(q)
    BY <1>2, <1>4, <1>6, <2>2, Alone DEF Ones, Once, Stays
  <2>4. Apart(m.of)' /\ Somewhere(m.of)'
    BY <1>1, <1>2, <1>4, <1>5, <1>6, <2>2, Alone DEF Apart, Somewhere
  <2> QED
    BY <1>2, <1>5, <2>3, <2>4, Moved
<1>7. ASSUME NEW e \in Message, e.of = m.of, sending' = sending \cup {e}, UNCHANGED executing
      PROVE  Once'
  <2>1. One(sending \cup {e}) /\ \A q : In(sending \cup {e}, q) <=> In(sending, q) \/ q = m.of
    BY <1>1, <1>5, <1>7, Enter DEF Once, Apart
  <2>2. One(sending)' /\ \A q : In(sending, q)' <=> In(sending, q) \/ q = m.of
    BY <1>7, <2>1 DEF One, In
  <2>3. Ones' /\ \A q : q # m.of => Stays(q)
    BY <1>2, <1>4, <1>7, <2>2, Alone DEF Ones, Once, Stays
  <2>4. Apart(m.of)' /\ Somewhere(m.of)'
    BY <1>1, <1>2, <1>4, <1>5, <1>7, <2>2, Alone DEF Apart, Somewhere
  <2> QED
    BY <1>2, <1>5, <2>3, <2>4, Moved
<1>8. Refusal(m) # "none" => /\ ErrorResponse(m, Refusal(m)) \in Message
                             /\ ErrorResponse(m, Refusal(m)).of = m.of
  BY <1>1, RefusalErrors, ReplyTypesOf
<1> QED
  BY <1>6, <1>7, <1>8 DEF handleMessage

LEMMA OnceReturn ==
  ASSUME Places, Once, NEW m \in executing, NEW end \in Ends, Return(m, end)
  PROVE  Once'
<1>1. m \in Message /\ m.of \in Requests /\ In(executing, m.of)
  BY DEF Places, Message, In
<1>2. executing' = executing \ {m} /\ UNCHANGED <<messageCh, handling, delivered, input>>
  BY DEF Return
<1>3. One(executing \ {m}) /\ \A q : In(executing \ {m}, q) <=> In(executing, q) /\ q # m.of
  BY Leave DEF Once
<1>4. One(executing)' /\ \A q : In(executing, q)' <=> In(executing, q) /\ q # m.of
  BY <1>2, <1>3 DEF One, In
<1>5. Apart(m.of) /\ m.of \in DOMAIN input
  BY <1>1 DEF Once, Somewhere
<1>6. ASSUME NEW code \in StatusCodes, Answer(m.of, code), UNCHANGED <<sending, dropped>>
      PROVE  Once'
  <2> DEFINE a == [of |-> m.of, status |-> code]
  <2>1. answers' = answers \cup {a} /\ a.of = m.of
    BY <1>6 DEF Answer
  <2> HIDE DEF a
  <2>2. One(answers \cup {a}) /\ \A q : In(answers \cup {a}, q) <=> In(answers, q) \/ q = m.of
    BY <2>1, <1>1, <1>5, Enter DEF Once, Apart
  <2>3. One(answers)' /\ \A q : In(answers, q)' <=> In(answers, q) \/ q = m.of
    BY <2>1, <2>2 DEF One, In
  <2>4. Ones' /\ \A q : q # m.of => Stays(q)
    BY <1>2, <1>4, <1>6, <2>3, Alone DEF Ones, Once, Stays
  <2>5. Apart(m.of)' /\ Somewhere(m.of)'
    BY <1>1, <1>2, <1>4, <1>5, <1>6, <2>3, Alone DEF Apart, Somewhere
  <2> QED
    BY <1>2, <1>5, <2>4, <2>5, Moved
<1>7. ASSUME NEW e \in Message, e.of = m.of, sending' = sending \cup {e}, UNCHANGED <<answers, dropped>>
      PROVE  Once'
  <2>1. One(sending \cup {e}) /\ \A q : In(sending \cup {e}, q) <=> In(sending, q) \/ q = m.of
    BY <1>1, <1>5, <1>7, Enter DEF Once, Apart
  <2>2. One(sending)' /\ \A q : In(sending, q)' <=> In(sending, q) \/ q = m.of
    BY <1>7, <2>1 DEF One, In
  <2>3. Ones' /\ \A q : q # m.of => Stays(q)
    BY <1>2, <1>4, <1>7, <2>2, Alone DEF Ones, Once, Stays
  <2>4. Apart(m.of)' /\ Somewhere(m.of)'
    BY <1>1, <1>2, <1>4, <1>5, <1>7, <2>2, Alone DEF Apart, Somewhere
  <2> QED
    BY <1>2, <1>5, <2>3, <2>4, Moved
<1>8. ASSUME dropped' = dropped \cup {m}, UNCHANGED <<sending, answers>> PROVE Once'
  <2>1. One(dropped \cup {m}) /\ \A q : In(dropped \cup {m}, q) <=> In(dropped, q) \/ q = m.of
    BY <1>1, <1>5, Enter DEF Once, Apart
  <2>2. One(dropped)' /\ \A q : In(dropped, q)' <=> In(dropped, q) \/ q = m.of
    BY <1>8, <2>1 DEF One, In
  <2>3. Ones' /\ \A q : q # m.of => Stays(q)
    BY <1>2, <1>4, <1>8, <2>2, Alone DEF Ones, Once, Stays
  <2>4. Apart(m.of)' /\ Somewhere(m.of)'
    BY <1>1, <1>2, <1>4, <1>5, <1>8, <2>2, Alone DEF Apart, Somewhere
  <2> QED
    BY <1>2, <1>5, <2>3, <2>4, Moved
<1>9. CASE m.type = "http"
  <2>1. PICK code \in StatusCodes : Answer(m.of, code)
    BY <1>9 DEF Return, StatusCodes
  <2>2. UNCHANGED <<sending, dropped>>
    BY <1>9 DEF Return
  <2> QED
    BY <1>6, <2>1, <2>2
<1>10. CASE m.type # "http" /\ end # "no JSON"
  <2>1. PICK e \in Message : e.of = m.of /\ Replies(m, end) = {e}
    BY <1>1, <1>10, ReplyTypesOf DEF Replies, Ends, Errors
  <2>2. sending' = sending \cup {e} /\ UNCHANGED <<answers, dropped>>
    BY <1>10, <2>1 DEF Return
  <2> QED
    BY <1>7, <2>1, <2>2
<1>11. CASE m.type # "http" /\ end = "no JSON"
  <2>1. Replies(m, end) = {}
    BY <1>11 DEF Replies
  <2>2. sending' = sending /\ dropped' = dropped \cup {m} /\ UNCHANGED answers
    BY <1>11, <2>1 DEF Return
  <2> QED
    BY <1>8, <2>2
<1> QED
  BY <1>9, <1>10, <1>11

LEMMA OnceSend ==
  ASSUME Places, Once, NEW m \in sending, Send(m)
  PROVE  Once'
<1>1. m \in Message /\ m.of \in Requests /\ In(sending, m.of)
  BY DEF Places, Message, In
<1>2. /\ sending' = sending \ {m} /\ messageCh' = Append(messageCh, m)
      /\ UNCHANGED <<handling, executing, delivered, answers, dropped, input>>
  BY DEF Send
<1>3. One(sending \ {m}) /\ \A q : In(sending \ {m}, q) <=> In(sending, q) /\ q # m.of
  BY Leave DEF Once
<1>4. One(sending)' /\ \A q : In(sending, q)' <=> In(sending, q) /\ q # m.of
  BY <1>2, <1>3 DEF One, In
<1>5. Apart(m.of) /\ m.of \in DOMAIN input
  BY <1>1 DEF Once, Somewhere
<1>6. OneInChannel' /\ \A q : In(InChannel, q)' <=> In(InChannel, q) \/ q = m.of
  BY <1>1, <1>2, <1>5, ChannelPut DEF Once, Apart
<1>7. Ones' /\ \A q : q # m.of => Stays(q)
  BY <1>2, <1>4, <1>6, Alone DEF Ones, Once, Stays
<1>8. Apart(m.of)' /\ Somewhere(m.of)'
  BY <1>1, <1>2, <1>4, <1>5, <1>6, Alone DEF Apart, Somewhere
<1> QED
  BY <1>2, <1>5, <1>7, <1>8, Moved

LEMMA OnceStep == Places /\ History /\ Once /\ [Next]_vars => Once'
<1> SUFFICES ASSUME Places, History, Once, [Next]_vars PROVE Once'
  OBVIOUS
<1>1. CASE Start \/ (\E t \in Tools : RegisterTool(t)) \/ UNCHANGED vars
  <2>1. UNCHANGED <<messageCh, handling, executing, sending, delivered, answers, dropped, input>>
    BY <1>1 DEF Start, RegisterTool, vars
  <2>2. \A r : Apart(r) = Apart(r)' /\ Somewhere(r) = Somewhere(r)'
    BY <2>1, Alone DEF Apart, Somewhere
  <2>3. Ones'
    BY <2>1, Alone DEF Ones, Once
  <2> QED
    BY <2>1, <2>2, <2>3 DEF Once, Ones
<1> QED
  BY <1>1, OnceSubmit, OnceExecute, OnceTake, OnceHandle, OnceReturn, OnceSend DEF Next

-----------------------------------------------------------------------------
(* Traces *)

\* A trace says where r is, and which one it is there.
TraceOf(x, r) ==
  \/ x.at = "messageCh" /\ x.what \in DOMAIN messageCh /\ messageCh[x.what].of = r
  \/ x.at = "handling" /\ x.what \in handling /\ x.what.of = r
  \/ x.at = "executing" /\ x.what \in executing /\ x.what.of = r
  \/ x.at = "sending" /\ x.what \in sending /\ x.what.of = r
  \/ x.at = "delivered" /\ x.what \in delivered /\ x.what.of = r
  \/ x.at = "answers" /\ x.what \in answers /\ x.what.of = r
  \/ x.at = "dropped" /\ x.what \in dropped /\ x.what.of = r

LEMMA TracesAre ==
  ASSUME Places, NEW r
  PROVE  /\ \A x \in Traces(r) : TraceOf(x, r) /\ x = [at |-> x.at, what |-> x.what]
         /\ \A at, what : TraceOf([at |-> at, what |-> what], r) => [at |-> at, what |-> what] \in Traces(r)
<1>1. DOMAIN messageCh = 1..Len(messageCh)
  BY DEF Places
<1> DEFINE Records(place, S) == [at : {place}, what : S]
<1>2. \A place, S : \A x \in Records(place, S) : x = [at |-> x.at, what |-> x.what] /\ x.at = place /\ x.what \in S
  OBVIOUS
<1>3. \A place, S, what : what \in S => [at |-> place, what |-> what] \in Records(place, S)
  OBVIOUS
<1>4. Traces(r) = Records("messageCh", {i \in 1..Len(messageCh) : messageCh[i].of = r})
                  \cup Records("handling", {m \in handling : m.of = r})
                  \cup Records("executing", {m \in executing : m.of = r})
                  \cup Records("sending", {m \in sending : m.of = r})
                  \cup Records("delivered", {m \in delivered : m.of = r})
                  \cup Records("answers", {a \in answers : a.of = r})
                  \cup Records("dropped", {m \in dropped : m.of = r})
  BY DEF Traces
<1> HIDE DEF Records
<1>5. \A x \in Traces(r) : TraceOf(x, r) /\ x = [at |-> x.at, what |-> x.what]
  BY <1>1, <1>2, <1>4 DEF TraceOf
<1>6. ASSUME NEW at, NEW what, TraceOf([at |-> at, what |-> what], r)
      PROVE  [at |-> at, what |-> what] \in Traces(r)
  BY <1>1, <1>3, <1>4, <1>6 DEF TraceOf
<1> QED
  BY <1>5, <1>6

LEMMA TraceIsIn ==
  ASSUME Places, NEW x, NEW r, TraceOf(x, r)
  PROVE  /\ x.at = "messageCh" => In(InChannel, r)
         /\ x.at = "handling" => In(handling, r)
         /\ x.at = "executing" => In(executing, r)
         /\ x.at = "sending" => In(sending, r)
         /\ x.at = "delivered" => In(delivered, r)
         /\ x.at = "answers" => In(answers, r)
         /\ x.at = "dropped" => In(dropped, r)
         /\ x.at \in {"messageCh", "handling", "executing", "sending", "delivered", "answers",
                      "dropped"}
  BY DEF TraceOf, In, InChannel, Places

LEMMA OneTrace ==
  ASSUME Places, Once, NEW r \in Requests
  PROVE  Cardinality(Traces(r)) = IF r \in DOMAIN input THEN 1 ELSE 0
<1>0. Apart(r) /\ (Somewhere(r) <=> r \in DOMAIN input)
  BY DEF Once
<1>1. ASSUME NEW x \in Traces(r), NEW y \in Traces(r) PROVE x = y
  <2>1. /\ TraceOf(x, r) /\ x = [at |-> x.at, what |-> x.what]
        /\ TraceOf(y, r) /\ y = [at |-> y.at, what |-> y.what]
    BY TracesAre
  <2>2. x.at = y.at
    BY <1>0, <2>1, TraceIsIn DEF Apart
  <2>3. x.what = y.what
    BY <2>1, <2>2 DEF TraceOf, Once, OneInChannel, One
  <2> QED
    BY <2>1, <2>2, <2>3
<1>2. Somewhere(r) => Traces(r) # {}
  <2>0. DOMAIN messageCh = 1..Len(messageCh)
    BY DEF Places
  <2>1. ASSUME Somewhere(r) PROVE \E at, what : TraceOf([at |-> at, what |-> what], r)
    <3>1. CASE In(InChannel, r)
      <4>1. PICK i \in DOMAIN messageCh : messageCh[i].of = r
        BY <2>0, <3>1 DEF In, InChannel
      <4> QED
        BY <4>1 DEF TraceOf
    <3>2. CASE ~In(InChannel, r)
      BY <2>1, <3>2 DEF Somewhere, In, TraceOf
    <3> QED
      BY <3>1, <3>2
  <2> QED
    BY <2>1, TracesAre
<1>3. Traces(r) # {} => Somewhere(r)
  BY TracesAre, TraceIsIn DEF Somewhere
<1>4. CASE r \in DOMAIN input
  <2>1. PICK x : x \in Traces(r)
    BY <1>0, <1>2, <1>4
  <2>2. Traces(r) = {x}
    BY <1>1, <2>1
  <2> QED
    BY <1>4, <2>2, FS_Singleton
<1>5. CASE r \notin DOMAIN input
  <2>1. Traces(r) = {}
    BY <1>0, <1>3, <1>5
  <2> QED
    BY <1>5, <2>1, FS_EmptySet
<1> QED
  BY <1>4, <1>5

-----------------------------------------------------------------------------
(* Theorems *)

Invariant == Places /\ History /\ Contents /\ Once

LEMMA Inductive == Spec => []Invariant
<1>1. Init => Invariant
  BY TypesInit, ContentsInit, OnceInit DEF Invariant
<1>2. Invariant /\ [Next]_vars => Invariant'
  BY TypesStep, ContentsStep, OnceStep DEF Invariant
<1> QED
  BY <1>1, <1>2, PTL DEF Spec

\* The types of the channel, of the goroutines' messages and of the answers.
THEOREM Typing == Spec => []TypeOK
<1>1. Init => started \in BOOLEAN
  BY DEF Init
<1>2. started \in BOOLEAN /\ [Next]_vars => (started \in BOOLEAN)'
  <2>1. Start => started' = TRUE
    BY DEF Start
  <2>2. [Next]_vars => Start \/ UNCHANGED started
    BY DEF Next, vars, RegisterTool, Submit, handleExecute, processMessages, Deliver,
           handleMessage, Return, Send
  <2> QED
    BY <2>1, <2>2
<1>3. Invariant /\ started \in BOOLEAN => TypeOK
  BY DEF Invariant, Places, History, Contents, TypeOK
<1> QED
  BY <1>1, <1>2, <1>3, Inductive, PTL DEF Spec

\* A request is in one place at a time, a result that is no JSON and is only logged
\* being one of them, and what is on its way for it has its client, through
\* handleMessage, the tools, sendResponse and the channel.
THEOREM OneAnswerOnItsWay == Spec => []OnceForTheAsker
<1>1. Invariant => OnceForTheAsker
  BY OneTrace DEF Invariant, Contents, Everywhere, Good, OnceForTheAsker
<1> QED
  BY <1>1, Inductive, PTL

\* A result, on the channel or as a 200 of handleExecute, is of a registered tool
\* that has returned without error.
THEOREM Results == Spec => []ResultsAreReal
<1>1. Invariant => ResultsAreReal
  BY DEF Invariant, Contents, Everywhere, Good, ResultsAreReal
<1> QED
  BY <1>1, Inductive, PTL
=============================================================================
