\* every program of channel/, with its own lists and capacities
CONSTANT Demos <- AllDemos
SPECIFICATION Spec
INVARIANTS TypeOK Delivered EndsOneWay
PROPERTIES Ends
