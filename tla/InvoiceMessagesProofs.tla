------------------------ MODULE InvoiceMessagesProofs ------------------------
(***************************************************************************)
(* Whatever the contents of a message are, the other side reads them as    *)
(* they were written: the tables of the client and of the server agree, a  *)
(* field at its default comes back although it takes no bytes, and no two  *)
(* fields share a slot or a number.                                        *)
(***************************************************************************)
EXTENDS InvoiceMessages, TLAPS

\* No name occurs twice.
Distinct(table) == \A j, k \in DOMAIN table : table[j].name = table[k].name => j = k

\* The contents that a message of this type may have.
ContentsOf(type, contents) == contents = [name \in Names(Accessors[type]) |-> contents[name]]

-----------------------------------------------------------------------------
\* In a table without repetitions, IndexOf finds the one entry with a name.
LEMMA IndexFound ==
  ASSUME NEW table, Distinct(table), NEW j \in DOMAIN table
  PROVE  IndexOf(table, table[j].name) = j
<1> DEFINE k == IndexOf(table, table[j].name)
<1>1. \E i \in DOMAIN table : table[i].name = table[j].name
  OBVIOUS
<1>2. k \in DOMAIN table /\ table[k].name = table[j].name
  BY <1>1, Zenon DEF IndexOf
<1> QED
  BY <1>2, Zenon DEF Distinct

\* Unmarshal undoes Marshal.
LEMMA UnmarshalMarshal ==
  ASSUME NEW fields, Distinct(fields),
         NEW contents, contents = [name \in Names(fields) |-> contents[name]]
  PROVE  Unmarshal(fields, Marshal(fields, contents)) = contents
<1> DEFINE bytes == Marshal(fields, contents)
           written == {k \in DOMAIN fields : contents[fields[k].name] # Default(fields[k].kind)}
<1>1. DOMAIN bytes = written
  BY DEF Marshal
<1>2. \A k \in written : bytes[k].kind = fields[k].kind /\ bytes[k].value = contents[fields[k].name]
  BY DEF Marshal
<1>3. ASSUME NEW name \in Names(fields)
      PROVE  Unmarshal(fields, bytes)[name] = contents[name]
  <2>1. PICK k \in DOMAIN fields : name = fields[k].name
    BY <1>3 DEF Names
  <2>2. IndexOf(fields, name) = k
    BY <2>1, IndexFound
  <2>3. Unmarshal(fields, bytes)[name] =
          IF k \in DOMAIN bytes THEN ReadAs(fields[k].kind, bytes[k]) ELSE Default(fields[k].kind)
    BY <2>2 DEF Unmarshal
  <2>4. CASE k \in written
    BY <2>1, <2>3, <2>4, <1>1, <1>2 DEF ReadAs
  <2>5. CASE k \notin written
    BY <2>1, <2>3, <2>5, <1>1
  <2> QED
    BY <2>4, <2>5
<1>4. Unmarshal(fields, bytes) = [name \in Names(fields) |-> Unmarshal(fields, bytes)[name]]
  BY DEF Unmarshal
<1> QED
  BY <1>3, <1>4

\* The getters return what the setters were given.
LEMMA ContentsMessage ==
  ASSUME NEW type, Distinct(Accessors[type]), NEW contents, ContentsOf(type, contents)
  PROVE  Contents(type, Message(type, contents)) = contents
<1> DEFINE slots == Accessors[type]
           message == Message(type, contents)
           set == {k \in DOMAIN slots : contents[slots[k].name] # slots[k].default}
<1>1. DOMAIN message = set /\ \A k \in set : message[k] = contents[slots[k].name]
  BY DEF Message
<1>2. ASSUME NEW name \in Names(slots)
      PROVE  Contents(type, message)[name] = contents[name]
  <2>1. PICK k \in DOMAIN slots : name = slots[k].name
    BY <1>2 DEF Names
  <2>2. IndexOf(slots, name) = k
    BY <2>1, IndexFound
  <2>3. Contents(type, message)[name] =
          IF k \in DOMAIN message THEN message[k] ELSE slots[k].default
    BY <2>2 DEF Contents
  <2> QED
    BY <2>1, <2>3, <1>1
<1>3. Contents(type, message) = [name \in Names(slots) |-> Contents(type, message)[name]]
  BY DEF Contents
<1> QED
  BY <1>2, <1>3 DEF ContentsOf

-----------------------------------------------------------------------------
\* A slot is named by the field that it holds.
LEMMA SlotNames == \A name : Number(name).name = name /\ Text(name).name = name
BY Zenon DEF Number, Text

\* What a table with these names at these places is.
LEMMA TableOfOne ==
  ASSUME NEW table, NEW n1, DOMAIN table = 1 .. 1, table[1].name = n1
  PROVE  Names(table) = {n1} /\ Distinct(table)
BY DEF Names, Distinct

LEMMA TableOfTwo ==
  ASSUME NEW table, NEW n1, NEW n2, n1 # n2, DOMAIN table = 1 .. 2,
         table[1].name = n1, table[2].name = n2
  PROVE  Names(table) = {n1, n2} /\ Distinct(table)
BY DEF Names, Distinct

LEMMA TableOfFour ==
  ASSUME NEW table, NEW n1, NEW n2, NEW n3, NEW n4,
         n1 # n2, n1 # n3, n1 # n4, n2 # n3, n2 # n4, n3 # n4, DOMAIN table = 1 .. 4,
         table[1].name = n1, table[2].name = n2, table[3].name = n3, table[4].name = n4
  PROVE  Names(table) = {n1, n2, n3, n4} /\ Distinct(table)
BY DEF Names, Distinct

\* The fields that the accessors of each type know.
LEMMA FieldsOfTypes ==
  /\ Names(Accessors["InvoiceRequest"]) = {"value"}
  /\ Names(Accessors["InvoiceCheckRequest"]) = {"invoiceId"}
  /\ Names(Accessors["InvoiceGetRequest"]) = {"invoiceId"}
  /\ Names(Accessors["InvoiceResponse"]) = {"fiatvalue", "digitalvalue", "expiry", "invoiceId"}
  /\ Names(Accessors["InvoiceCheckResponse"]) = {"status", "digitalvalueremaining"}
<1>1. DOMAIN InvoiceRequestAccessors = 1 .. 1 /\ InvoiceRequestAccessors[1].name = "value"
  BY SlotNames DEF InvoiceRequestAccessors
<1>2. DOMAIN InvoiceCheckRequestAccessors = 1 .. 1 /\ InvoiceCheckRequestAccessors[1].name = "invoiceId"
  BY SlotNames DEF InvoiceCheckRequestAccessors
<1>3. DOMAIN InvoiceGetRequestAccessors = 1 .. 1 /\ InvoiceGetRequestAccessors[1].name = "invoiceId"
  BY SlotNames DEF InvoiceGetRequestAccessors
<1>4. /\ DOMAIN InvoiceResponseAccessors = 1 .. 4
      /\ InvoiceResponseAccessors[1].name = "fiatvalue" /\ InvoiceResponseAccessors[2].name = "digitalvalue"
      /\ InvoiceResponseAccessors[3].name = "expiry" /\ InvoiceResponseAccessors[4].name = "invoiceId"
  BY SlotNames DEF InvoiceResponseAccessors
<1>5. /\ DOMAIN InvoiceCheckResponseAccessors = 1 .. 2
      /\ InvoiceCheckResponseAccessors[1].name = "status"
      /\ InvoiceCheckResponseAccessors[2].name = "digitalvalueremaining"
  BY SlotNames DEF InvoiceCheckResponseAccessors
<1> QED
  BY <1>1, <1>2, <1>3, <1>4, <1>5, TableOfOne, TableOfTwo, TableOfFour DEF Accessors

\* The tables of each type agree, and have no repetitions.
LEMMA TablesAgree ==
  ASSUME NEW type \in MessageTypes
  PROVE  /\ Writers[type] = Tags[type]
         /\ Readers[type] = Tags[type]
         /\ Names(Tags[type]) = Names(Accessors[type])
         /\ Distinct(Tags[type])
         /\ Distinct(Accessors[type])
<1>1. CASE type = "InvoiceRequest"
  <2>1. /\ Writers[type] = InvoiceRequestWriter
        /\ Readers[type] = InvoiceRequestReader
        /\ Accessors[type] = InvoiceRequestAccessors
    BY <1>1 DEF Writers, Readers, Accessors
  <2>2. InvoiceRequestWriter = Tags[type] /\ InvoiceRequestReader = Tags[type]
    BY <1>1 DEF Tags, InvoiceRequestWriter, InvoiceRequestReader
  <2>3. /\ DOMAIN InvoiceRequestWriter = 1 .. 1
        /\ InvoiceRequestWriter[1].name = "value"
    BY DEF InvoiceRequestWriter, Field
  <2>4. /\ DOMAIN InvoiceRequestAccessors = 1 .. 1
        /\ InvoiceRequestAccessors[1].name = "value"
    BY SlotNames DEF InvoiceRequestAccessors
  <2>5. Names(InvoiceRequestWriter) = {"value"} /\ Distinct(InvoiceRequestWriter)
    BY <2>3, TableOfOne
  <2>6. Names(InvoiceRequestAccessors) = {"value"} /\ Distinct(InvoiceRequestAccessors)
    BY <2>4, TableOfOne
  <2> QED
    BY <2>1, <2>2, <2>5, <2>6
<1>2. CASE type = "InvoiceCheckRequest"
  <2>1. /\ Writers[type] = InvoiceCheckRequestWriter
        /\ Readers[type] = InvoiceCheckRequestReader
        /\ Accessors[type] = InvoiceCheckRequestAccessors
    BY <1>2 DEF Writers, Readers, Accessors
  <2>2. InvoiceCheckRequestWriter = Tags[type] /\ InvoiceCheckRequestReader = Tags[type]
    BY <1>2 DEF Tags, InvoiceCheckRequestWriter, InvoiceCheckRequestReader
  <2>3. /\ DOMAIN InvoiceCheckRequestWriter = 1 .. 1
        /\ InvoiceCheckRequestWriter[1].name = "invoiceId"
    BY DEF InvoiceCheckRequestWriter, Field
  <2>4. /\ DOMAIN InvoiceCheckRequestAccessors = 1 .. 1
        /\ InvoiceCheckRequestAccessors[1].name = "invoiceId"
    BY SlotNames DEF InvoiceCheckRequestAccessors
  <2>5. Names(InvoiceCheckRequestWriter) = {"invoiceId"} /\ Distinct(InvoiceCheckRequestWriter)
    BY <2>3, TableOfOne
  <2>6. Names(InvoiceCheckRequestAccessors) = {"invoiceId"} /\ Distinct(InvoiceCheckRequestAccessors)
    BY <2>4, TableOfOne
  <2> QED
    BY <2>1, <2>2, <2>5, <2>6
<1>3. CASE type = "InvoiceGetRequest"
  <2>1. /\ Writers[type] = InvoiceGetRequestWriter
        /\ Readers[type] = InvoiceGetRequestReader
        /\ Accessors[type] = InvoiceGetRequestAccessors
    BY <1>3 DEF Writers, Readers, Accessors
  <2>2. InvoiceGetRequestWriter = Tags[type] /\ InvoiceGetRequestReader = Tags[type]
    BY <1>3 DEF Tags, InvoiceGetRequestWriter, InvoiceGetRequestReader
  <2>3. /\ DOMAIN InvoiceGetRequestWriter = 1 .. 1
        /\ InvoiceGetRequestWriter[1].name = "invoiceId"
    BY DEF InvoiceGetRequestWriter, Field
  <2>4. /\ DOMAIN InvoiceGetRequestAccessors = 1 .. 1
        /\ InvoiceGetRequestAccessors[1].name = "invoiceId"
    BY SlotNames DEF InvoiceGetRequestAccessors
  <2>5. Names(InvoiceGetRequestWriter) = {"invoiceId"} /\ Distinct(InvoiceGetRequestWriter)
    BY <2>3, TableOfOne
  <2>6. Names(InvoiceGetRequestAccessors) = {"invoiceId"} /\ Distinct(InvoiceGetRequestAccessors)
    BY <2>4, TableOfOne
  <2> QED
    BY <2>1, <2>2, <2>5, <2>6
<1>4. CASE type = "InvoiceResponse"
  <2>1. /\ Writers[type] = InvoiceResponseWriter
        /\ Readers[type] = InvoiceResponseReader
        /\ Accessors[type] = InvoiceResponseAccessors
    BY <1>4 DEF Writers, Readers, Accessors
  <2>2. InvoiceResponseWriter = Tags[type] /\ InvoiceResponseReader = Tags[type]
    BY <1>4 DEF Tags, InvoiceResponseWriter, InvoiceResponseReader
  <2>3. /\ DOMAIN InvoiceResponseWriter = 1 .. 4
        /\ InvoiceResponseWriter[1].name = "fiatvalue"
        /\ InvoiceResponseWriter[2].name = "digitalvalue"
        /\ InvoiceResponseWriter[3].name = "expiry"
        /\ InvoiceResponseWriter[4].name = "invoiceId"
    BY DEF InvoiceResponseWriter, Field
  <2>4. /\ DOMAIN InvoiceResponseAccessors = 1 .. 4
        /\ InvoiceResponseAccessors[1].name = "fiatvalue"
        /\ InvoiceResponseAccessors[2].name = "digitalvalue"
        /\ InvoiceResponseAccessors[3].name = "expiry"
        /\ InvoiceResponseAccessors[4].name = "invoiceId"
    BY SlotNames DEF InvoiceResponseAccessors
  <2>5. Names(InvoiceResponseWriter) = {"fiatvalue", "digitalvalue", "expiry", "invoiceId"} /\ Distinct(InvoiceResponseWriter)
    BY <2>3, TableOfFour
  <2>6. Names(InvoiceResponseAccessors) = {"fiatvalue", "digitalvalue", "expiry", "invoiceId"} /\ Distinct(InvoiceResponseAccessors)
    BY <2>4, TableOfFour
  <2> QED
    BY <2>1, <2>2, <2>5, <2>6
<1>5. CASE type = "InvoiceCheckResponse"
  <2>1. /\ Writers[type] = InvoiceCheckResponseWriter
        /\ Readers[type] = InvoiceCheckResponseReader
        /\ Accessors[type] = InvoiceCheckResponseAccessors
    BY <1>5 DEF Writers, Readers, Accessors
  <2>2. InvoiceCheckResponseWriter = Tags[type] /\ InvoiceCheckResponseReader = Tags[type]
    BY <1>5 DEF Tags, InvoiceCheckResponseWriter, InvoiceCheckResponseReader
  <2>3. /\ DOMAIN InvoiceCheckResponseWriter = 1 .. 2
        /\ InvoiceCheckResponseWriter[1].name = "status"
        /\ InvoiceCheckResponseWriter[2].name = "digitalvalueremaining"
    BY DEF InvoiceCheckResponseWriter, Field
  <2>4. /\ DOMAIN InvoiceCheckResponseAccessors = 1 .. 2
        /\ InvoiceCheckResponseAccessors[1].name = "status"
        /\ InvoiceCheckResponseAccessors[2].name = "digitalvalueremaining"
    BY SlotNames DEF InvoiceCheckResponseAccessors
  <2>5. Names(InvoiceCheckResponseWriter) = {"status", "digitalvalueremaining"} /\ Distinct(InvoiceCheckResponseWriter)
    BY <2>3, TableOfTwo
  <2>6. Names(InvoiceCheckResponseAccessors) = {"status", "digitalvalueremaining"} /\ Distinct(InvoiceCheckResponseAccessors)
    BY <2>4, TableOfTwo
  <2> QED
    BY <2>1, <2>2, <2>5, <2>6
<1> QED
  BY <1>1, <1>2, <1>3, <1>4, <1>5 DEF MessageTypes, Accessors

\* The two ends of a method speak of the same types.
LEMMA MethodsAgree ==
  ASSUME NEW m \in Methods
  PROVE  /\ m.request \in MessageTypes /\ Handlers[m.path].in = m.request
         /\ m.response \in MessageTypes /\ Handlers[m.path].out = m.response
BY DEF Methods, createInvoice, getInvoice, checkInvoice, Handlers, MessageTypes, Accessors

(***************************************************************************)
(* The handler of each method reads what the caller's setters were given   *)
(* (invoice_pb.js:117, invoice_grpc_web_pb.js:96, invoice.pb.go:326).      *)
(***************************************************************************)
THEOREM RequestUnderstood ==
  ASSUME NEW m \in Methods, NEW contents, ContentsOf(m.request, contents)
  PROVE  ReadRequest(m, Request(m, contents)) = contents
<1>1. Contents(m.request, Message(m.request, contents)) = contents
  BY ContentsMessage, MethodsAgree, TablesAgree
<1>2. Request(m, contents) = Marshal(Tags[m.request], contents)
  BY <1>1, MethodsAgree, TablesAgree DEF Request, serializeBinary
<1>3. ReadRequest(m, Request(m, contents)) =
        Unmarshal(Tags[m.request], Marshal(Tags[m.request], contents))
  BY <1>2, MethodsAgree DEF ReadRequest
<1>4. contents = [name \in Names(Tags[m.request]) |-> contents[name]]
  BY MethodsAgree, TablesAgree DEF ContentsOf
<1> QED
  BY <1>3, <1>4, MethodsAgree, TablesAgree, UnmarshalMarshal

(***************************************************************************)
(* The getters of each callback return what the handler said               *)
(* (invoice_pb.js:507, 727, invoice.pb.go:145).                            *)
(***************************************************************************)
THEOREM ResponseUnderstood ==
  ASSUME NEW m \in Methods, NEW contents, ContentsOf(m.response, contents)
  PROVE  ReadResponse(m, Response(m, contents)) = contents
<1>1. contents = [name \in Names(Tags[m.response]) |-> contents[name]]
  BY MethodsAgree, TablesAgree DEF ContentsOf
<1>2. Unmarshal(Readers[m.response], Response(m, contents)) = contents
  BY <1>1, MethodsAgree, TablesAgree, UnmarshalMarshal DEF Response
<1>3. ReadResponse(m, Response(m, contents)) =
        Contents(m.response, Message(m.response, contents))
  BY <1>2 DEF ReadResponse, deserializeBinary
<1> QED
  BY <1>3, MethodsAgree, TablesAgree, ContentsMessage

(***************************************************************************)
(* Of each type, the client reads back what it wrote itself                *)
(* (serializeBinary and deserializeBinary of invoice_pb.js).               *)
(***************************************************************************)
THEOREM RoundTrip ==
  ASSUME NEW type \in MessageTypes, NEW contents, ContentsOf(type, contents)
  PROVE  deserializeBinary(type, serializeBinary(type, Message(type, contents)))
           = Message(type, contents)
<1>1. serializeBinary(type, Message(type, contents)) = Marshal(Tags[type], contents)
  BY ContentsMessage, TablesAgree DEF serializeBinary
<1>2. contents = [name \in Names(Tags[type]) |-> contents[name]]
  BY TablesAgree DEF ContentsOf
<1>3. Unmarshal(Readers[type], Marshal(Tags[type], contents)) = contents
  BY <1>2, TablesAgree, UnmarshalMarshal
<1> QED
  BY <1>1, <1>3 DEF deserializeBinary
=============================================================================
