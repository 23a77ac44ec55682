----------------------------- MODULE ErrToCode ------------------------------
(***************************************************************************)
(* Package errs: an error on its way from the handler of an RPC to its     *)
(* caller.  The err_to_code filter of the server turns it into the code    *)
(* and message fields of the response; the filter of the client makes an   *)
(* error of these again.  The integer field may be of any width, and       *)
(* reflect cuts the code down to it without a word.  Responses are         *)
(* pointers to structs, as generated service code makes them.              *)
(*                                                                         *)
(* Widths are scaled: an error code has CodeBits bits in place of 32, the  *)
(* widest integer WideBits in place of 64.                                 *)
(***************************************************************************)
EXTENDS Integers, Sequences

CONSTANTS
  CodeBits,      \* width of an error code
  WideBits,      \* width of int64
  FieldBits,     \* widths of the integer fields of responses
  MaxFields,     \* bound on the fields of a response
  Undefined,     \* code of UndefinedError
  NoError        \* nil

ASSUME ErrAssumption ==
  /\ CodeBits \in Nat \ {0} /\ WideBits \in Nat /\ CodeBits <= WideBits
  /\ FieldBits \subseteq 2 .. WideBits
  /\ MaxFields \in Nat
  /\ Undefined \in 1 .. (2^(CodeBits - 1) - 1)

VARIABLES
  phase,         \* where the call is
  shape,         \* the fields of the response: tag, kind and width
  setter,        \* SetServerErrorCodeMsgSetter: not used, "declines" or "sets"
  cause,         \* the error the handler returned
  rsp,           \* the fields' values, <<>> for a nil pointer
  err,           \* the error as it leaves the server
  seen           \* the error the caller gets

vars == <<phase, shape, setter, cause, rsp, err, seen>>

\* Fields, by what the configured or default tags take them for; a code may be
\* kept in a string by mistake, or a message in an integer.
Field == [tag : {"code", "msg", "other"}, kind : {"int", "uint"}, bits : FieldBits]
           \cup [tag : {"code", "msg"}, kind : {"string"}, bits : {0}]
Shape == UNION {[1 .. n -> Field] : n \in 0 .. MaxFields}

\* The width of an integer: n modulo 2^w, as a signed or an unsigned number.
Unsigned(n, w) == n % 2^w
Signed(n, w) == ((n + 2^(w - 1)) % 2^w) - 2^(w - 1)

\* The numbers such an integer can be.
Ints(w) == -(2^(w - 1)) .. 2^(w - 1) - 1
Uints(w) == 0 .. 2^w - 1

Code == Ints(CodeBits)

\* Errors: a tRPC error, one wrapped in others, or no tRPC error at all.
Cause == [kind : {"direct", "wrapped"}, code : Code]
           \cup {[kind |-> "foreign", code |-> Undefined]}

\* ExtractCodeMessageDigest: what is around a tRPC error is only told as a digest.
Message(e) == CASE e.kind = "direct"  -> "text"
                [] e.kind = "wrapped" -> "text, digest"
                [] e.kind = "foreign" -> "undefined error, digest"

Text == {"", "text", "text, digest", "undefined error, digest", "framework"}

\* What a caller gets when it is not nil.
Seen == [code : Code, msg : Text]

ASSUME NoErrorAssumption == NoError \notin Cause \cup Seen

\* The first field with a tag and of a kind the filters look for, 0 if none.
FirstField(tag, kinds) ==
  LET fits == {i \in DOMAIN shape : shape[i].tag = tag /\ shape[i].kind \in kinds}
  IN IF fits = {} THEN 0 ELSE CHOOSE i \in fits : \A j \in fits : i <= j

CodeField == FirstField("code", {"int", "uint"})
MsgField == FirstField("msg", {"string"})

\* A response just allocated.
Zero == [i \in DOMAIN shape |-> IF shape[i].kind = "string" THEN "" ELSE 0]

Init ==
  /\ phase = "handled"
  /\ shape \in Shape /\ setter \in {"none", "declines", "sets"}
  /\ cause \in Cause \cup {NoError}
  /\ \/ rsp = <<>>
     \/ rsp = Zero
     \/ /\ cause = NoError /\ CodeField # 0
        /\ rsp = [Zero EXCEPT ![CodeField] = 1]
  /\ err = NoError /\ seen = NoError

-----------------------------------------------------------------------------
(* The server.                                                             *)

\* Mutant: the field takes the code whole.
SetWhole(i, code) == code

\* reflect: SetInt and SetUint cut the code down to the field.
Set(i, code) ==
  IF shape[i].kind = "int" THEN Signed(code, shape[i].bits)
                           ELSE Unsigned(code, shape[i].bits)

\* Mutant: without a field for the code the error is taken as converted.
ServerFilterAlways ==
  /\ phase = "handled" /\ phase' = "served"
  /\ \/ cause = NoError /\ UNCHANGED <<rsp, err>>
     \/ /\ cause # NoError /\ CodeField = 0
        /\ rsp' = Zero /\ UNCHANGED err
     \/ /\ cause # NoError /\ CodeField # 0
        /\ rsp' = [i \in DOMAIN shape |->
                     CASE i = CodeField -> Set(i, cause.code)
                       [] i = MsgField -> Message(cause)
                       [] OTHER -> Zero[i]]
        /\ UNCHANGED err
  /\ UNCHANGED <<shape, setter, cause, seen>>

\* serverFilter.  A setter that did the work, or a response without a field for
\* the code, leaves the error as it is.
ServerFilter ==
  /\ phase = "handled" /\ phase' = "served"
  /\ \/ cause = NoError /\ UNCHANGED <<rsp, err>>
     \/ /\ cause # NoError /\ (setter = "sets" \/ CodeField = 0)
        /\ rsp' = Zero /\ err' = cause
     \/ /\ cause # NoError /\ setter # "sets" /\ CodeField # 0
        /\ rsp' = [i \in DOMAIN shape |->
                     CASE i = CodeField -> Set(i, cause.code)
                       [] i = MsgField -> Message(cause)
                       [] OTHER -> Zero[i]]
        /\ UNCHANGED err
  /\ UNCHANGED <<shape, setter, cause, seen>>

-----------------------------------------------------------------------------
(* The way to the client (external): an error crosses with its own code, of *)
(* which 0 means success, and without the response; a nil response arrives *)
(* as an empty one.                                                        *)

Transport ==
  /\ phase = "served" /\ phase' = "arrived"
  /\ IF err = NoError
     THEN /\ rsp' = IF rsp = <<>> THEN Zero ELSE rsp
          /\ UNCHANGED seen
     ELSE /\ rsp' = Zero
          /\ seen' = IF err.code = 0 THEN NoError
                     ELSE [code |-> err.code, msg |-> "framework"]
  /\ UNCHANGED <<shape, setter, cause, err>>

-----------------------------------------------------------------------------
(* The client.                                                             *)

\* Mutant: that no field was found is not looked at, only the -1 returned.
GetCodeUnchecked ==
  IF CodeField = 0 THEN -1
  ELSE IF shape[CodeField].kind = "int" THEN rsp[CodeField]
                                        ELSE Signed(rsp[CodeField], WideBits)

\* getCode; without a field there is nothing to make an error of.
GetCode ==
  IF CodeField = 0 THEN 0
  ELSE IF shape[CodeField].kind = "int" THEN rsp[CodeField]
                                        ELSE Signed(rsp[CodeField], WideBits)

\* Mutant: only positive codes are errors.
ClientFilterPositive ==
  /\ phase = "arrived" /\ phase' = "done"
  /\ seen' = IF seen # NoError \/ GetCode <= 0 THEN seen
             ELSE [code |-> Signed(GetCode, CodeBits),
                   msg  |-> IF MsgField = 0 THEN "" ELSE rsp[MsgField]]
  /\ UNCHANGED <<shape, setter, cause, rsp, err>>

\* clientFilter; New makes the code one of 32 bits.
ClientFilter ==
  /\ phase = "arrived" /\ phase' = "done"
  /\ seen' = IF seen # NoError \/ GetCode = 0 THEN seen
             ELSE [code |-> Signed(GetCode, CodeBits),
                   msg  |-> IF MsgField = 0 THEN "" ELSE rsp[MsgField]]
  /\ UNCHANGED <<shape, setter, cause, rsp, err>>

Next == ServerFilter \/ Transport \/ ClientFilter

Spec == Init /\ [][Next]_vars

-----------------------------------------------------------------------------
(* Properties.                                                             *)

\* A response that has been allocated: an integer field holds what its width can.
Fits(fields) ==
  /\ DOMAIN fields = DOMAIN shape
  /\ \A i \in DOMAIN shape :
       CASE shape[i].kind = "int"    -> fields[i] \in Ints(shape[i].bits)
         [] shape[i].kind = "uint"   -> fields[i] \in Uints(shape[i].bits)
         [] shape[i].kind = "string" -> fields[i] \in Text

\* Every variable keeps its type.
TypeOK ==
  /\ phase \in {"handled", "served", "arrived", "done"}
  /\ shape \in Shape /\ setter \in {"none", "declines", "sets"}
  /\ cause \in Cause \cup {NoError} /\ err \in {cause, NoError}
  /\ rsp # <<>> => Fits(rsp)
  /\ seen \in Seen \cup {NoError}

\* The field keeps every code apart: none is cut down.
Wide == CodeField # 0 => shape[CodeField].bits >= CodeBits

\* With fields as wide as a code the caller sees the error the handler returned,
\* signed or not, in a response with or without fields for it: only the code 0 of
\* an error is taken for success (err_to_code_filter.go:29-33).
ErrorCarried ==
  phase = "done" /\ Wide /\ cause # NoError =>
    IF cause.code = 0 THEN seen = NoError
    ELSE /\ seen # NoError /\ seen.code = cause.code
         /\ err = NoError /\ MsgField # 0 => seen.msg = Message(cause)

\* In a field of any width an error is lost for the caller only if the bits that
\* fit the field are all 0 (err_to_code_filter.go:117, 121, 188).
OnlyZeroIsLost ==
  phase = "done" /\ cause # NoError /\ seen = NoError
    => \/ cause.code = 0
       \/ CodeField # 0 /\ cause.code % 2^shape[CodeField].bits = 0

\* A handler without an error that left the code field alone, or has none, is a
\* call without an error (err_to_code_filter.go:188, 212).
NothingInvented ==
  phase = "done" /\ cause = NoError
    => (seen # NoError <=> CodeField # 0 /\ rsp[CodeField] # 0)
=============================================================================
