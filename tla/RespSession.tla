------------------------------ MODULE RespSession ------------------------------
(***************************************************************************)
(* One RESP connection: the bytes of its commands arrive in whatever pieces*)
(* the network makes of them, the session cuts commands out of its buffer, *)
(* answers each, and hangs up on what it cannot go on from.  SELECT and    *)
(* AUTH rebind the connection; what the other commands do is Namespaces.   *)
(*                                                                         *)
(* The client's stream is a sequence of commands, each so many units long; *)
(* a unit is as much as matters of it (a length header, a payload, a line  *)
(* end).  SELECT switches to a namespace whether or not it was given the  *)
(* right password; whether it was is the access the handler has there.     *)
(***************************************************************************)
EXTENDS Integers, Sequences, SequencesExt, Functions

CONSTANTS Script,       \* the streams of commands a client may send
          InlineMax,    \* INLINE_MAX_SIZE, in units
          DefaultName,  \* the namespace a connection begins on
          Names,        \* the others
          Protected     \* those with a password

\* form: "array"; "inline"; "blank", an inline command without words; "junk", bytes the
\* decoder rejects. shown: the units after which the header of an argument over
\* max_value_size can be read, 0 if there is none. what: "select", "auth" or "other".
\* right: whether the password that comes with it is the right one.
ASSUME SessionAssumption ==
    /\ InlineMax \in Nat /\ DefaultName \notin Names /\ Protected \subseteq Names
    /\ \A s \in Script : \A i \in DOMAIN s :
          /\ s[i].form \in {"array", "inline", "blank", "junk"}
          /\ s[i].len \in Nat \ {0} /\ s[i].shown \in 0 .. s[i].len
          /\ s[i].what = "select" => s[i].name \in Names \cup {DefaultName}

VARIABLES script,   \* what the client sends
          seen,     \* units that have arrived
          pos,      \* units consumed; the buffer is the ones in between
          before,   \* seen, before the last read
          session,  \* "read", "check", "serve", "over"
          ended,    \* why it is over
          served,   \* the commands dispatched, by index
          replies,  \* answers written
          split,    \* commands that a read ended in front of or inside
          names,    \* namespaces that exist
          conn,     \* Conn: the namespace's name, and whether it is admin
          handler,  \* CommandHandler: the namespace it works in, whether it is admin, and
                    \* its namespace_authenticated
          granted   \* the namespace and the access the last SELECT that worked reported

wire == <<script, seen, before, split>>
binding == <<conn, handler, granted>>
sessionVars == <<script, seen, pos, before, session, ended, served, replies, split,
                 names, conn, handler, granted>>

SessionInit ==
    /\ script \in Script
    /\ seen = 0 /\ pos = 0 /\ before = 0
    /\ session = "read" /\ ended = "no"
    /\ served = <<>> /\ replies = 0 /\ split = {}
    /\ names = {DefaultName}
    /\ conn = [ns |-> DefaultName, admin |-> FALSE]
    /\ handler = [ns |-> DefaultName, admin |-> FALSE, access |-> TRUE]
    /\ granted = [ns |-> DefaultName, access |-> TRUE]

From(i) == SumFunction([j \in 1 .. i - 1 |-> script[j].len])
To(i) == From(i) + script[i].len
Total == From(Len(script) + 1)

\* The command at the head of the buffer.
First == CHOOSE i \in DOMAIN script : From(i) <= pos /\ pos < To(i)
Waiting == pos < seen

-----------------------------------------------------------------------------
(* Reading *)

Read(n) ==
    /\ session = "read" /\ seen + n <= Total
    /\ seen' = seen + n /\ before' = seen
    /\ split' = split \cup {i \in DOMAIN script : From(i) <= seen + n /\ seen + n < To(i)}
    /\ session' = "check"
    /\ UNCHANGED <<script, pos, ended, served, replies, names, binding>>

\* The client goes away, or the socket fails.
Closed ==
    /\ session = "read"
    /\ session' = "over" /\ ended' = "closed"
    /\ UNCHANGED <<wire, pos, served, replies, names, binding>>

\* oversized_bulk looks at the command at the head of the buffer, if that is an array.
Oversized ==
    /\ Waiting /\ script[First].form = "array"
    /\ script[First].shown > 0 /\ seen >= From(First) + script[First].shown

\* Mutant: a command is looked at only when it begins to arrive.
CheckOnce ==
    /\ session = "check"
    /\ IF Oversized /\ before = pos
       THEN /\ session' = "over" /\ ended' = "oversized"
            /\ replies' \in {replies, replies + 1}
       ELSE session' = "serve" /\ UNCHANGED <<ended, replies>>
    /\ UNCHANGED <<wire, pos, served, names, binding>>

Check ==
    /\ session = "check"
    /\ IF Oversized
       THEN /\ session' = "over" /\ ended' = "oversized"
            /\ replies' \in {replies, replies + 1}
       ELSE session' = "serve" /\ UNCHANGED <<ended, replies>>
    /\ UNCHANGED <<wire, pos, served, names, binding>>

-----------------------------------------------------------------------------
(* serve_buffered_frames *)

Arrived == Waiting /\ To(First) <= seen
Inline(c) == c.form \in {"inline", "blank"}

\* parse_inline: too long to be a command, whether or not its end is here. The line end
\* is the last unit.
TooLong ==
    /\ Waiting /\ Inline(script[First])
    /\ IF Arrived THEN script[First].len - 1 > InlineMax ELSE seen - pos > InlineMax

Malformed == TooLong \/ (Arrived /\ script[First].form = "junk")

Answered == replies' = replies + 1

SkipBlank ==
    /\ session = "serve" /\ Arrived /\ ~TooLong /\ script[First].form = "blank"
    /\ pos' = To(First)
    /\ UNCHANGED <<wire, session, ended, served, replies, names, binding>>

ProtocolError ==
    /\ session = "serve" /\ Malformed
    /\ session' = "over" /\ ended' = "protocol"
    /\ replies' \in {replies, replies + 1}
    /\ UNCHANGED <<wire, pos, served, names, binding>>

\* A command that is still arriving: back to reading.
Drained ==
    /\ session = "serve" /\ ~Arrived /\ ~Malformed
    /\ session' = "read"
    /\ UNCHANGED <<wire, pos, ended, served, replies, names, binding>>

\* get_or_create: a namespace that does not exist is not made.
Known(n) == n \in names

\* namespace_password_accepted, which CommandHandler::new asks without a password.
Accepted(n, right) == n \notin Protected \/ right

\* SELECT names the namespace on the connection first, and rebinds the handler only if
\* there is one.
Select(n, right) ==
    /\ conn' = [conn EXCEPT !.ns = n]
    /\ IF Known(n)
       THEN /\ handler' = [ns |-> n, admin |-> conn.admin, access |-> Accepted(n, right)]
            /\ granted' = [ns |-> n, access |-> Accepted(n, right)]
       ELSE UNCHANGED <<handler, granted>>


\* AUTH with the right password: the handler is made anew for the namespace named on the
\* connection, and takes the access of the one before it.
Auth(right) ==
    IF ~right THEN UNCHANGED binding
    ELSE /\ conn' = [conn EXCEPT !.admin = TRUE]
         /\ handler' = IF Known(conn.ns)
                       THEN [ns |-> conn.ns, admin |-> TRUE, access |-> handler.access]
                       ELSE handler
         /\ UNCHANGED granted

Dispatch(c) ==
    CASE c.what = "select" -> Select(c.name, c.right)
      [] c.what = "auth" -> Auth(c.right)
      [] OTHER -> UNCHANGED binding

\* Mutant: after a command the next read is awaited.
ServeOne ==
    /\ session = "serve" /\ Arrived /\ ~Malformed /\ script[First].form # "blank"
    /\ pos' = To(First)
    /\ served' = Append(served, First)
    /\ Dispatch(script[First])
    /\ \/ Answered /\ session' = "read" /\ UNCHANGED ended
       \/ session' = "over" /\ ended' = "unreachable" /\ UNCHANGED replies
    /\ UNCHANGED <<wire, names>>

\* A whole command is dispatched and answered; an answer that cannot be written ends
\* the session.
Serve ==
    /\ session = "serve" /\ Arrived /\ ~Malformed /\ script[First].form # "blank"
    /\ pos' = To(First)
    /\ served' = Append(served, First)
    /\ Dispatch(script[First])
    /\ \/ Answered /\ UNCHANGED <<session, ended>>
       \/ session' = "over" /\ ended' = "unreachable" /\ UNCHANGED replies
    /\ UNCHANGED <<wire, names>>

\* Another client's NSNEW.
NewName(n) ==
    /\ n \notin names
    /\ names' = names \cup {n}
    /\ UNCHANGED <<wire, pos, session, ended, served, replies, binding>>

SessionNext ==
    \/ \E n \in 1 .. Total : Read(n)
    \/ Closed \/ Check \/ SkipBlank \/ ProtocolError \/ Drained \/ Serve
    \/ \E n \in Names : NewName(n)

-----------------------------------------------------------------------------
(* Properties *)

Commands == SelectSeq([i \in DOMAIN script |-> i], LAMBDA i : script[i].form # "blank")

\* However the stream was cut into reads, the commands dispatched are the client's, each
\* once and in its order, blank lines aside; each has had one answer, the last excepted
\* when it could not be written; and when the session goes back to reading nothing that
\* has arrived whole is left in its buffer (serve_buffered_frames, parse_frame, split_to).
ServedInOrder ==
    /\ IsPrefix(served, Commands)
    /\ ended \in {"no", "closed"} => replies = Len(served)
    /\ session = "read" => ~Arrived

\* A command with a value over the cap is refused as soon as its header has been read,
\* unless it came in whole in the one read that also brought what was in front of it
\* (oversized_bulk, which Session::run asks about the head of the buffer only); and a
\* session never reads twice with such a header at the head of its buffer.
OversizedCaught ==
    /\ \A i \in ToSet(served) : script[i].shown > 0 => i \notin split
    /\ session = "read" /\ Oversized => before < From(First) + script[First].shown


================================================================================
