\* Every value the server can hold and every protobuf value storage can hold.
SPECIFICATION Spec
PROPERTY ConvertersRoundTrip
