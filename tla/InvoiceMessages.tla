--------------------------- MODULE InvoiceMessages ---------------------------
(***************************************************************************)
(* The messages between client and server, as the generated code of both   *)
(* sides (invoice_pb.js, invoice_grpc_web_pb.js, invoice.pb.go) makes them *)
(* bytes and reads them back.                                              *)
(*                                                                         *)
(* The contents of a message are a record of its fields.  The client keeps *)
(* a message as an array, here a function on the slots that are set; the   *)
(* server keeps it as a struct, here the record itself.  Of the bytes, the *)
(* kind and the value of each field that was written are kept: no writer   *)
(* writes a field twice, and no reader depends on the order.               *)
(***************************************************************************)
EXTENDS Integers

CONSTANT Garbled  \* what reading a field as another kind than it was written yields

-----------------------------------------------------------------------------
(***************************************************************************)
(* Bytes: a function on the numbers of the fields that are written.        *)
(***************************************************************************)
\* A writer, a reader or the tags of a struct: the field with each number.
Field(name, kind) == [name |-> name, kind |-> kind]

Default(kind) == IF kind = "string" THEN "" ELSE 0

Names(table) == {table[k].name : k \in DOMAIN table}

IndexOf(table, name) == CHOOSE k \in DOMAIN table : table[k].name = name

\* A field at its default takes no bytes.
Marshal(fields, contents) ==
  [number \in {k \in DOMAIN fields : contents[fields[k].name] # Default(fields[k].kind)} |->
     [kind |-> fields[number].kind, value |-> contents[fields[number].name]]]

ReadAs(kind, chunk) == IF chunk.kind = kind THEN chunk.value ELSE Garbled

\* What does not occur has its default; numbers that are not known are skipped.
Unmarshal(fields, bytes) ==
  [name \in Names(fields) |->
     LET k == IndexOf(fields, name) IN
     IF k \in DOMAIN bytes THEN ReadAs(fields[k].kind, bytes[k]) ELSE Default(fields[k].kind)]

-----------------------------------------------------------------------------
(***************************************************************************)
(* The client's messages: of each, the slots of its getters and setters,   *)
(* the lines of its writer, and the cases of its reader.                   *)
(***************************************************************************)
Number(name) == [name |-> name, default |-> 0]
Text(name)   == [name |-> name, default |-> ""]

InvoiceRequestAccessors == <<Number("value")>>
InvoiceRequestWriter    == <<Field("value", "int32")>>
InvoiceRequestReader    == <<Field("value", "int32")>>

InvoiceCheckRequestAccessors == <<Text("invoiceId")>>
InvoiceCheckRequestWriter    == <<Field("invoiceId", "string")>>
InvoiceCheckRequestReader    == <<Field("invoiceId", "string")>>

InvoiceGetRequestAccessors == <<Text("invoiceId")>>
InvoiceGetRequestWriter    == <<Field("invoiceId", "string")>>
InvoiceGetRequestReader    == <<Field("invoiceId", "string")>>

InvoiceResponseAccessors ==
  <<Number("fiatvalue"), Number("digitalvalue"), Number("expiry"), Text("invoiceId")>>

InvoiceResponseWriter ==
  <<Field("fiatvalue", "int32"), Field("digitalvalue", "int64"),
    Field("expiry", "int64"), Field("invoiceId", "string")>>

\* Variant: the numbers of two fields are exchanged.
InvoiceResponseReaderSwapped ==
  <<Field("fiatvalue", "int32"), Field("expiry", "int64"),
    Field("digitalvalue", "int64"), Field("invoiceId", "string")>>

InvoiceResponseReader ==
  <<Field("fiatvalue", "int32"), Field("digitalvalue", "int64"),
    Field("expiry", "int64"), Field("invoiceId", "string")>>

InvoiceCheckResponseAccessors == <<Text("status"), Number("digitalvalueremaining")>>
InvoiceCheckResponseWriter    == <<Field("status", "string"), Field("digitalvalueremaining", "int64")>>

\* Variant: the reader knows the fields in the opposite order.
InvoiceCheckResponseReaderReversed ==
  <<Field("digitalvalueremaining", "int64"), Field("status", "string")>>

InvoiceCheckResponseReader ==
  <<Field("status", "string"), Field("digitalvalueremaining", "int64")>>

Accessors ==
  [InvoiceRequest       |-> InvoiceRequestAccessors,
   InvoiceCheckRequest  |-> InvoiceCheckRequestAccessors,
   InvoiceGetRequest    |-> InvoiceGetRequestAccessors,
   InvoiceResponse      |-> InvoiceResponseAccessors,
   InvoiceCheckResponse |-> InvoiceCheckResponseAccessors]

Writers ==
  [InvoiceRequest       |-> InvoiceRequestWriter,
   InvoiceCheckRequest  |-> InvoiceCheckRequestWriter,
   InvoiceGetRequest    |-> InvoiceGetRequestWriter,
   InvoiceResponse      |-> InvoiceResponseWriter,
   InvoiceCheckResponse |-> InvoiceCheckResponseWriter]

Readers ==
  [InvoiceRequest       |-> InvoiceRequestReader,
   InvoiceCheckRequest  |-> InvoiceCheckRequestReader,
   InvoiceGetRequest    |-> InvoiceGetRequestReader,
   InvoiceResponse      |-> InvoiceResponseReader,
   InvoiceCheckResponse |-> InvoiceCheckResponseReader]

MessageTypes == DOMAIN Accessors

-----------------------------------------------------------------------------
(***************************************************************************)
(* The client's side: messages, bytes, and the calls that carry them.      *)
(***************************************************************************)
\* The message that setters fill; a setter that is given the default clears the slot.
Message(type, contents) ==
  LET slots == Accessors[type]
  IN  [slot \in {k \in DOMAIN slots : contents[slots[k].name] # slots[k].default} |->
         contents[slots[slot].name]]

\* What the getters return.
Contents(type, message) ==
  [name \in Names(Accessors[type]) |->
     LET k == IndexOf(Accessors[type], name) IN
     IF k \in DOMAIN message THEN message[k] ELSE Accessors[type][k].default]

serializeBinary(type, message) == Marshal(Writers[type], Contents(type, message))

\* The message that the setters called by the reader's cases fill.
deserializeBinary(type, bytes) == Message(type, Unmarshal(Readers[type], bytes))

\* The methods, each by the end of its path, with the types of its messages.
createInvoice == [path |-> "CreateInvoice",
                  request |-> "InvoiceRequest", response |-> "InvoiceResponse"]

getInvoice == [path |-> "GetInvoice",
               request |-> "InvoiceGetRequest", response |-> "InvoiceResponse"]

checkInvoice == [path |-> "CheckInvoice",
                 request |-> "InvoiceCheckRequest", response |-> "InvoiceCheckResponse"]

Methods == {createInvoice, getInvoice, checkInvoice}

-----------------------------------------------------------------------------
(***************************************************************************)
(* The server's side: the tags of the structs, in the names of the client. *)
(***************************************************************************)
Tags ==
  [InvoiceRequest       |-> <<Field("value", "int32")>>,
   InvoiceCheckRequest  |-> <<Field("invoiceId", "string")>>,
   InvoiceGetRequest    |-> <<Field("invoiceId", "string")>>,
   InvoiceResponse      |-> <<Field("fiatvalue", "int32"), Field("digitalvalue", "int64"),
                              Field("expiry", "int64"), Field("invoiceId", "string")>>,
   InvoiceCheckResponse |-> <<Field("status", "string"),
                              Field("digitalvalueremaining", "int64")>>]

\* The handlers, by the names of their methods, and what they decode and encode.
Handlers ==
  [CreateInvoice |-> [in |-> "InvoiceRequest", out |-> "InvoiceResponse"],
   GetInvoice    |-> [in |-> "InvoiceGetRequest", out |-> "InvoiceResponse"],
   CheckInvoice  |-> [in |-> "InvoiceCheckRequest", out |-> "InvoiceCheckResponse"]]

-----------------------------------------------------------------------------
\* What a caller sets, as bytes, and what the handler of the call reads in them.
Request(method, contents) == serializeBinary(method.request, Message(method.request, contents))

ReadRequest(method, bytes) == Unmarshal(Tags[Handlers[method.path].in], bytes)

\* What a handler says, as bytes, and what the callback's getters return of them.
Response(method, contents) == Marshal(Tags[Handlers[method.path].out], contents)

ReadResponse(method, bytes) == Contents(method.response, deserializeBinary(method.response, bytes))
=============================================================================
